---------------------------- MODULE CodecProofs ----------------------------
(* What is read is what was written, for every format and every object: a   *)
(* list of fields reads back what the same list wrote, whatever follows it  *)
(* in the buffer, so every object survives encoding, the disk and decoding, *)
(* a record that lost its end is refused, and the file's regions keep their *)
(* sizes.                                                                   *)
EXTENDS Codec, SequenceTheorems, WellFoundedInduction, TLAPS

-----------------------------------------------------------------------------
(* The constants.                                                           *)

LEMMA ConstantsAre ==
  /\ MaxLength \in Nat /\ MaxLength <= 65535 /\ MaxLength < 65536
  /\ PageSize \in Nat /\ 31 + 8 * MaxLength <= PageSize
  /\ 0 \in Bits /\ \A b \in Bits : b \in 0..255
  BY CodecAssumption

-----------------------------------------------------------------------------
(* Counting up to n.                                                        *)

NatLess == {ss \in Nat \X Nat : ss[1] < ss[2]}

LEMMA NatLessWellFounded == IsWellFoundedOn(NatLess, Nat)
  BY NatLessThanWellFounded DEF OpToRel, NatLess

LEMMA LeastOf ==
  ASSUME NEW S \in SUBSET Nat, S # {}
  PROVE  \E m \in S : \A i \in S : m <= i
<1>1. PICK m \in S : \A i \in S : ~ (<<i, m>> \in NatLess)
  BY NatLessWellFounded, WFMin, Zenon
<1>2. ASSUME NEW i \in S PROVE m <= i
  <2>1. <<i, m>> \in Nat \X Nat /\ <<i, m>>[1] = i /\ <<i, m>>[2] = m
    OBVIOUS
  <2>2. ~ (i < m)
    BY <1>1, <2>1 DEF NatLess
  <2> QED BY <2>2
<1> QED BY <1>2

\* A set with 0 and the successor of its members has every number up to n.
LEMMA UpTo ==
  ASSUME NEW n \in Nat, NEW S, 0 \in S, \A i \in 1..n : i - 1 \in S => i \in S
  PROVE  \A i \in 0..n : i \in S
<1> DEFINE R == (0..n) \ S
<1> SUFFICES ASSUME R # {} PROVE FALSE
  OBVIOUS
<1>1. PICK k \in R : \A i \in R : k <= i
  <2>1. R \in SUBSET Nat
    OBVIOUS
  <2> HIDE DEF R
  <2> QED BY <2>1, LeastOf
<1>2. k \in 1..n /\ k - 1 \in 0..n /\ k - 1 \notin R
  BY <1>1
<1> QED BY <1>1, <1>2

-----------------------------------------------------------------------------
(* Sequences of anything.                                                   *)

Seqs(s) == s \in Seq({s[i] : i \in DOMAIN s})

LEMMA SeqsOf ==
  ASSUME NEW T, NEW s \in Seq(T)
  PROVE  Seqs(s) /\ Len(s) \in Nat /\ DOMAIN s = 1 .. Len(s)
<1>1. Len(s) \in Nat /\ DOMAIN s = 1 .. Len(s) /\ s = [i \in 1 .. Len(s) |-> s[i]]
  OBVIOUS
<1> DEFINE R == {s[i] : i \in DOMAIN s}
<1>2. \A i \in 1 .. Len(s) : s[i] \in R
  BY <1>1
<1> HIDE DEF R
<1>3. s \in Seq(R)
  BY <1>1, <1>2
<1> QED BY <1>1, <1>3 DEF Seqs, R

LEMMA SeqsMade ==
  ASSUME NEW n \in Nat, NEW s, s = [i \in 1..n |-> s[i]]
  PROVE  Seqs(s) /\ Len(s) = n /\ DOMAIN s = 1..n
<1> DEFINE R == {s[i] : i \in 1..n}
<1>1. \A i \in 1..n : s[i] \in R
  OBVIOUS
<1> HIDE DEF R
<1>2. s \in Seq(R) /\ Len(s) = n
  BY <1>1
<1> QED BY <1>2, SeqsOf

LEMMA SeqsHave ==
  ASSUME NEW s, Seqs(s)
  PROVE  Len(s) \in Nat /\ DOMAIN s = 1 .. Len(s) /\ s = [i \in 1 .. Len(s) |-> s[i]]
<1> DEFINE R == {s[i] : i \in DOMAIN s}
<1>1. s \in Seq(R)
  BY DEF Seqs
<1> HIDE DEF R
<1> QED BY <1>1

\* Two sequences of the same length and items are one.
LEMMA SeqsSame ==
  ASSUME NEW s, NEW t, Seqs(s), Seqs(t), Len(s) = Len(t), \A i \in 1 .. Len(s) : s[i] = t[i]
  PROVE  s = t
BY SeqsHave

\* One sequence after the other.
Cat(s, t) == s \o t

LEMMA SeqsCat ==
  ASSUME NEW s, NEW t, Seqs(s), Seqs(t)
  PROVE  /\ Seqs(Cat(s, t)) /\ Len(Cat(s, t)) = Len(s) + Len(t)
         /\ \A i \in 1 .. Len(s) : Cat(s, t)[i] = s[i]
         /\ \A i \in 1 .. Len(t) : Cat(s, t)[Len(s) + i] = t[i]
<1> DEFINE R == {s[i] : i \in DOMAIN s} \cup {t[i] : i \in DOMAIN t}
<1>1. s \in Seq(R) /\ t \in Seq(R)
  <2>1. /\ \A i \in 1 .. Len(s) : s[i] \in R
        /\ \A i \in 1 .. Len(t) : t[i] \in R
    BY SeqsHave
  <2> HIDE DEF R
  <2> QED BY <2>1, SeqsHave
<1> HIDE DEF R
<1>2. Cat(s, t) \in Seq(R) /\ Len(Cat(s, t)) = Len(s) + Len(t)
  BY <1>1 DEF Cat
<1>3. Seqs(Cat(s, t))
  BY <1>2, SeqsOf
<1> QED BY <1>1, <1>2, <1>3 DEF Cat

LEMMA SeqsCatEmpty ==
  ASSUME NEW s, Seqs(s)
  PROVE  Cat(<<>>, s) = s /\ Cat(s, <<>>) = s
<1>1. Seqs(<<>>) /\ Len(<<>>) = 0
  BY SeqsOf, <<>> \in Seq({})
<1> QED BY <1>1, SeqsCat, SeqsSame, SeqsHave

LEMMA SeqsCatAssoc ==
  ASSUME NEW s, NEW t, NEW u, Seqs(s), Seqs(t), Seqs(u)
  PROVE  Cat(Cat(s, t), u) = Cat(s, Cat(t, u))
<1> DEFINE R == {s[i] : i \in DOMAIN s} \cup {t[i] : i \in DOMAIN t} \cup {u[i] : i \in DOMAIN u}
<1>1. s \in Seq(R) /\ t \in Seq(R) /\ u \in Seq(R)
  <2>1. /\ \A i \in 1 .. Len(s) : s[i] \in R
        /\ \A i \in 1 .. Len(t) : t[i] \in R
        /\ \A i \in 1 .. Len(u) : u[i] \in R
    BY SeqsHave
  <2> HIDE DEF R
  <2> QED BY <2>1, SeqsHave, SMTT(30)
<1> HIDE DEF R
<1> QED BY <1>1 DEF Cat

-----------------------------------------------------------------------------
(* Writing one thing behind the other.  A run starts with `a` and adds p[i] *)
(* in its turn i.                                                           *)

Run(g, a, p, n) == g = [i \in 0..n |-> IF i = 0 THEN a ELSE Cat(g[i - 1], p[i])]

LEMMA RunExists ==
  ASSUME NEW n \in Nat, NEW a, NEW p
  PROVE  \E g : Run(g, a, p, n)
<1> DEFINE S == {k \in 0..n : \E g : Run(g, a, p, k)}
<1>1. 0 \in S
  <2> DEFINE g == [i \in 0..0 |-> a]
  <2>1. g = [i \in 0..0 |-> IF i = 0 THEN a ELSE Cat(g[i - 1], p[i])]
    OBVIOUS
  <2>2. Run(g, a, p, 0)
    BY ONLY <2>1 DEF Run
  <2> QED BY <2>2
<1>2. ASSUME NEW i \in 1..n, i - 1 \in S PROVE i \in S
  <2>1. PICK g : Run(g, a, p, i - 1)
    BY <1>2
  <2> DEFINE h == [j \in 0..i |-> IF j = i THEN Cat(g[i - 1], p[i]) ELSE g[j]]
  <2>2. \A j \in 0 .. i - 1 : g[j] = IF j = 0 THEN a ELSE Cat(g[j - 1], p[j])
    BY <2>1 DEF Run
  <2>3. \A j \in 0..i : h[j] = IF j = 0 THEN a ELSE Cat(h[j - 1], p[j])
    <3> SUFFICES ASSUME NEW j \in 0..i PROVE h[j] = IF j = 0 THEN a ELSE Cat(h[j - 1], p[j])
      OBVIOUS
    <3>1. CASE j = i
      <4>1. h[i] = Cat(g[i - 1], p[i]) /\ h[i - 1] = g[i - 1]
        OBVIOUS
      <4> QED BY <3>1, <4>1
    <3>2. CASE j # i
      <4>1. j \in 0 .. i - 1 /\ h[j] = g[j]
        BY <3>2
      <4>2. j # 0 => h[j - 1] = g[j - 1]
        BY <4>1
      <4> QED BY <2>2, <4>1, <4>2
    <3> QED BY <3>1, <3>2
  <2>4. h = [j \in 0..i |-> IF j = 0 THEN a ELSE Cat(h[j - 1], p[j])]
    <3>1. h = [j \in 0..i |-> h[j]]
      OBVIOUS
    <3> HIDE DEF h
    <3> QED BY <2>3, <3>1
  <2>5. Run(h, a, p, i)
    BY ONLY <2>4 DEF Run
  <2> QED BY <2>5
<1>3. n \in S
  <2> HIDE DEF S
  <2> QED BY <1>1, <1>2, UpTo
<1> QED BY <1>3


\* A run whose parts are sequences.
GoodRun(g, a, p, n) ==
  Run(g, a, p, n) /\ Seqs(a) /\ \A i \in 1..n : Seqs(p[i])

\* What a run has written are sequences.
LEMMA RunSeqs ==
  ASSUME NEW n \in Nat, NEW a, NEW p, NEW g, GoodRun(g, a, p, n)
  PROVE  \A i \in 0..n : Seqs(g[i]) /\ Len(g[i]) \in Nat
<1>0. g[0] = a /\ (\A i \in 1..n : g[i] = Cat(g[i - 1], p[i])) /\ Seqs(a) /\ \A i \in 1..n : Seqs(p[i])
  BY DEF GoodRun, Run
<1> DEFINE S == {i \in 0..n : Seqs(g[i])}
<1>1. 0 \in S
  BY <1>0
<1>2. ASSUME NEW i \in 1..n, i - 1 \in S PROVE i \in S
  BY <1>0, <1>2, SeqsCat
<1>3. \A i \in 0..n : i \in S
  <2> HIDE DEF S
  <2> QED BY <1>1, <1>2, UpTo
<1> QED BY <1>3, SeqsHave

\* Turn i of a run.
Lengthens(g, p, i) ==
  /\ Len(g[i - 1]) \in Nat /\ Len(p[i]) \in Nat /\ Len(g[i]) \in Nat
  /\ Len(g[i]) = Len(g[i - 1]) + Len(p[i])

LEMMA RunLengthens ==
  ASSUME NEW n \in Nat, NEW a, NEW p, NEW g, GoodRun(g, a, p, n), NEW i \in 1..n
  PROVE  Lengthens(g, p, i)
<1>1. g[i] = Cat(g[i - 1], p[i]) /\ Seqs(p[i])
  BY DEF GoodRun, Run
<1>2. i - 1 \in 0..n /\ i \in 0..n
  OBVIOUS
<1>3. Seqs(g[i - 1]) /\ Len(g[i - 1]) \in Nat /\ Len(g[i]) \in Nat
  BY <1>2, RunSeqs
<1>4. Len(Cat(g[i - 1], p[i])) = Len(g[i - 1]) + Len(p[i])
  BY ONLY <1>1, <1>3, SeqsCat, ZenonT(30)
<1> QED BY <1>1, <1>3, <1>4, SeqsHave DEF Lengthens

LEMMA RunEnd ==
  ASSUME NEW n \in Nat, NEW a, NEW p, NEW g, GoodRun(g, a, p, n)
  PROVE  Seqs(g[n]) /\ Len(g[n]) \in Nat
<1>1. \A i \in 0..n : Seqs(g[i]) /\ Len(g[i]) \in Nat
  BY RunSeqs
<1> QED BY <1>1

\* Where the buffer goes on behind s.
Behind(at, s) == at + Len(s)

LEMMA BehindNat ==
  ASSUME NEW at \in Nat, NEW s, Seqs(s)
  PROVE  Behind(at, s) \in Nat
<1>1. Len(s) \in Nat
  BY SeqsHave
<1> QED BY <1>1 DEF Behind

LEMMA BehindBoth ==
  ASSUME NEW at \in Nat, NEW s, NEW t, Seqs(s), Seqs(t)
  PROVE  Behind(at, Cat(s, t)) = Behind(Behind(at, s), t)
<1>1. Len(s) \in Nat /\ Len(t) \in Nat
  BY SeqsHave
<1>2. Len(Cat(s, t)) = Len(s) + Len(t)
  BY SeqsCat
<1> QED BY ONLY <1>1, <1>2, at \in Nat DEF Behind

\* The sequence s is in the buffer from `at` on.
Holds(data, at, s) ==
  at + Len(s) <= Len(data) /\ \A j \in 1 .. Len(s) : data[at + j] = s[j]

LEMMA HoldsParts ==
  ASSUME NEW data, NEW at \in Nat, NEW s, NEW t, Seqs(data), Seqs(s), Seqs(t),
         Holds(data, at, Cat(s, t))
  PROVE  Holds(data, at, s) /\ Holds(data, Behind(at, s), t)
<1>1. Len(s) \in Nat /\ Len(t) \in Nat /\ Len(data) \in Nat /\ Len(Cat(s, t)) = Len(s) + Len(t)
  BY SeqsHave, SeqsCat
<1>2. \A j \in 1 .. Len(s) : data[at + j] = s[j]
  <2> TAKE j \in 1 .. Len(s)
  <2>1. j \in 1 .. Len(Cat(s, t))
    BY <1>1
  <2> QED BY <2>1, SeqsCat DEF Holds
<1>3. \A j \in 1 .. Len(t) : data[at + Len(s) + j] = t[j]
  <2> TAKE j \in 1 .. Len(t)
  <2>1. Len(s) + j \in 1 .. Len(Cat(s, t)) /\ at + Len(s) + j = at + (Len(s) + j)
    BY <1>1
  <2>2. Cat(s, t)[Len(s) + j] = t[j]
    BY SeqsCat
  <2> QED BY <2>1, <2>2 DEF Holds
<1> QED BY <1>1, <1>2, <1>3 DEF Holds, Behind

\* Where the run is in the buffer, so is everything it wrote.
LEMMA RunHeld ==
  ASSUME NEW n \in Nat, NEW a, NEW p, NEW g, GoodRun(g, a, p, n),
         NEW data, NEW at \in Nat, Seqs(data), Holds(data, at, g[n])
  PROVE  /\ \A i \in 0..n : Holds(data, at, g[i])
         /\ \A i \in 1..n : Holds(data, Behind(at, g[i - 1]), p[i])
<1>0. (\A i \in 1..n : g[i] = Cat(g[i - 1], p[i])) /\ \A i \in 1..n : Seqs(p[i])
  BY DEF GoodRun, Run
<1> DEFINE S == {k \in 0..n : Holds(data, at, g[n - k])}
<1>1. 0 \in S
  OBVIOUS
<1>2. ASSUME NEW k \in 1..n, k - 1 \in S PROVE k \in S
  <2>1. /\ n - (k - 1) \in 1..n /\ n - (k - 1) - 1 = n - k /\ n - k \in 0..n
        /\ Holds(data, at, g[n - (k - 1)])
    BY <1>2
  <2>2. g[n - (k - 1)] = Cat(g[n - k], p[n - (k - 1)])
    BY <1>0, <2>1
  <2>3. Seqs(g[n - k]) /\ Seqs(p[n - (k - 1)])
    BY <1>0, <2>1, RunSeqs
  <2>4. Holds(data, at, g[n - k])
    BY <2>1, <2>2, <2>3, HoldsParts
  <2> QED BY <2>4
<1>3. \A k \in 0..n : k \in S
  <2> HIDE DEF S
  <2> QED BY <1>1, <1>2, UpTo
<1>4. ASSUME NEW i \in 0..n PROVE Holds(data, at, g[i])
  <2>1. n - i \in S /\ n - (n - i) = i
    BY <1>3
  <2> QED BY <2>1
<1>5. ASSUME NEW i \in 1..n PROVE Holds(data, Behind(at, g[i - 1]), p[i])
  <2>1. i - 1 \in 0..n /\ i \in 0..n /\ g[i] = Cat(g[i - 1], p[i])
    BY <1>0
  <2>2. Seqs(g[i - 1]) /\ Seqs(p[i])
    BY <1>0, <2>1, RunSeqs
  <2> QED BY <1>4, <2>1, <2>2, HoldsParts
<1> QED BY <1>4, <1>5

-----------------------------------------------------------------------------
(* Counts of two and of four bytes.                                         *)

\* The numbers that `width` bytes can say.
Limit(width) == IF width = 2 THEN 65536 ELSE 4294967296

LEMMA Powers == 256 ^ 0 = 1 /\ 256 ^ 1 = 256 /\ 256 ^ 2 = 65536 /\ 256 ^ 3 = 16777216
  OBVIOUS

LEMMA CountSeqs ==
  ASSUME NEW n, NEW width \in Nat
  PROVE  Seqs(Count(n, width)) /\ Len(Count(n, width)) = width
<1>1. Count(n, width) = [i \in 1..width |-> Count(n, width)[i]]
  BY DEF Count
<1> QED BY <1>1, SeqsMade

\* The weight of byte i, and the byte of n that has weight w.
Weight(i) == 256 ^ (i - 1)
Byte(n, w) == (n \div w) % 256

LEMMA Weights == Weight(1) = 1 /\ Weight(2) = 256 /\ Weight(3) = 65536 /\ Weight(4) = 16777216
<1>1. 1 - 1 = 0 /\ 2 - 1 = 1 /\ 3 - 1 = 2 /\ 4 - 1 = 3
  OBVIOUS
<1> QED BY <1>1, Powers DEF Weight

LEMMA CountByte ==
  ASSUME NEW n, NEW width \in Nat, NEW i \in 1..width
  PROVE  Count(n, width)[i] = Byte(n, Weight(i))
BY DEF Count, Byte, Weight

LEMMA CountBytes ==
  ASSUME NEW n \in Nat, NEW width \in Nat
  PROVE  /\ 1 <= width => Count(n, width)[1] = Byte(n, 1)
         /\ 2 <= width => Count(n, width)[2] = Byte(n, 256)
         /\ 3 <= width => Count(n, width)[3] = Byte(n, 65536)
         /\ 4 <= width => Count(n, width)[4] = Byte(n, 16777216)
<1>1. \A i \in 1..width : Count(n, width)[i] = Byte(n, Weight(i))
  BY CountByte
<1> QED BY <1>1, Weights

\* The turns of Number, each of which adds one byte.
Sums(f, b, n) == f = [i \in 0..n |-> IF i = 0 THEN 0 ELSE f[i - 1] + b[i] * 256 ^ (i - 1)]

LEMMA SumsUnfold ==
  ASSUME NEW b, \E f : Sums(f, b, Len(b))
  PROVE  \E f : Sums(f, b, Len(b)) /\ Number(b) = f[Len(b)]
BY DEF Sums, Number

LEMMA NumberTwo ==
  ASSUME NEW b, Len(b) = 2, b[1] \in Nat, b[2] \in Nat
  PROVE  Number(b) = b[1] + b[2] * 256
<1> DEFINE e == [i \in 0..2 |->
                   IF i = 0 THEN 0
                   ELSE IF i = 1 THEN b[1]
                   ELSE b[1] + b[2] * 256]
<1>0. /\ e = [i \in 0..2 |-> e[i]] /\ e[0] = 0 /\ e[1] = b[1]
      /\ e[2] = e[1] + b[2] * 256
  OBVIOUS
<1> HIDE DEF e
<1>1. ASSUME NEW i \in 0..2 PROVE e[i] = IF i = 0 THEN 0 ELSE e[i - 1] + b[i] * 256 ^ (i - 1)
  <2>1. CASE i = 0
    BY <1>0, <2>1
  <2>2. CASE i = 1
    <3>1. i - 1 = 0 /\ 256 ^ (i - 1) = 1 /\ b[1] * 1 = b[1]
      BY <2>2, Powers
    <3> QED BY <1>0, <2>2, <3>1
  <2>3. CASE i = 2
    <3>1. i - 1 = 1 /\ 256 ^ (i - 1) = 256
      BY <2>3, Powers
    <3> QED BY <1>0, <2>3, <3>1
  <2> QED BY <2>1, <2>2, <2>3
<1>2. Sums(e, b, 2)
  BY <1>0, <1>1 DEF Sums
<1>3. PICK f : Sums(f, b, 2) /\ Number(b) = f[2]
  BY <1>2, SumsUnfold
<1>4. ASSUME NEW i \in 0..2 PROVE f[i] = IF i = 0 THEN 0 ELSE f[i - 1] + b[i] * 256 ^ (i - 1)
  BY <1>3 DEF Sums
<1>5. f[0] = 0
  BY <1>4
<1>6. f[1] = b[1]
  <2>1. f[1] = f[1 - 1] + b[1] * 256 ^ (1 - 1) /\ 1 - 1 = 0
    BY <1>4
  <2> QED BY <1>5, <2>1, Powers
<1>7. f[2] = b[1] + b[2] * 256
  <2>1. f[2] = f[2 - 1] + b[2] * 256 ^ (2 - 1) /\ 2 - 1 = 1
    BY <1>4
  <2> QED BY <1>6, <2>1, Powers
<1> QED BY <1>3, <1>7

LEMMA NumberFour ==
  ASSUME NEW b, Len(b) = 4, b[1] \in Nat, b[2] \in Nat, b[3] \in Nat, b[4] \in Nat
  PROVE  Number(b) = b[1] + b[2] * 256 + b[3] * 65536 + b[4] * 16777216
<1> DEFINE e == [i \in 0..4 |->
                   IF i = 0 THEN 0
                   ELSE IF i = 1 THEN b[1]
                   ELSE IF i = 2 THEN b[1] + b[2] * 256
                   ELSE IF i = 3 THEN b[1] + b[2] * 256 + b[3] * 65536
                   ELSE b[1] + b[2] * 256 + b[3] * 65536 + b[4] * 16777216]
<1>0. /\ e = [i \in 0..4 |-> e[i]] /\ e[0] = 0 /\ e[1] = b[1]
      /\ e[2] = e[1] + b[2] * 256
      /\ e[3] = e[2] + b[3] * 65536
      /\ e[4] = e[3] + b[4] * 16777216
  OBVIOUS
<1> HIDE DEF e
<1>1. ASSUME NEW i \in 0..4 PROVE e[i] = IF i = 0 THEN 0 ELSE e[i - 1] + b[i] * 256 ^ (i - 1)
  <2>1. CASE i = 0
    BY <1>0, <2>1
  <2>2. CASE i = 1
    <3>1. i - 1 = 0 /\ 256 ^ (i - 1) = 1 /\ b[1] * 1 = b[1]
      BY <2>2, Powers
    <3> QED BY <1>0, <2>2, <3>1
  <2>3. CASE i = 2
    <3>1. i - 1 = 1 /\ 256 ^ (i - 1) = 256
      BY <2>3, Powers
    <3> QED BY <1>0, <2>3, <3>1
  <2>4. CASE i = 3
    <3>1. i - 1 = 2 /\ 256 ^ (i - 1) = 65536
      BY <2>4, Powers
    <3> QED BY <1>0, <2>4, <3>1
  <2>5. CASE i = 4
    <3>1. i - 1 = 3 /\ 256 ^ (i - 1) = 16777216
      BY <2>5, Powers
    <3> QED BY <1>0, <2>5, <3>1
  <2> QED BY <2>1, <2>2, <2>3, <2>4, <2>5
<1>2. Sums(e, b, 4)
  BY <1>0, <1>1 DEF Sums
<1>3. PICK f : Sums(f, b, 4) /\ Number(b) = f[4]
  BY <1>2, SumsUnfold
<1>4. ASSUME NEW i \in 0..4 PROVE f[i] = IF i = 0 THEN 0 ELSE f[i - 1] + b[i] * 256 ^ (i - 1)
  BY <1>3 DEF Sums
<1>5. f[0] = 0
  BY <1>4
<1>6. f[1] = b[1]
  <2>1. f[1] = f[1 - 1] + b[1] * 256 ^ (1 - 1) /\ 1 - 1 = 0
    BY <1>4
  <2> QED BY <1>5, <2>1, Powers
<1>7. f[2] = b[1] + b[2] * 256
  <2>1. f[2] = f[2 - 1] + b[2] * 256 ^ (2 - 1) /\ 2 - 1 = 1
    BY <1>4
  <2> QED BY <1>6, <2>1, Powers
<1>8. f[3] = b[1] + b[2] * 256 + b[3] * 65536
  <2>1. f[3] = f[3 - 1] + b[3] * 256 ^ (3 - 1) /\ 3 - 1 = 2
    BY <1>4
  <2> QED BY <1>7, <2>1, Powers
<1>9. f[4] = b[1] + b[2] * 256 + b[3] * 65536 + b[4] * 16777216
  <2>1. f[4] = f[4 - 1] + b[4] * 256 ^ (4 - 1) /\ 4 - 1 = 3
    BY <1>4
  <2> QED BY <1>8, <2>1, Powers
<1> QED BY <1>3, <1>9

LEMMA SplitTwo ==
  ASSUME NEW n \in Nat, n < 65536
  PROVE  n = Byte(n, 1) + Byte(n, 256) * 256
<1>1. n = (n % 256) + ((n \div 256) % 256) * 256
  OBVIOUS
<1>2. n \div 1 = n
  OBVIOUS
<1> QED BY <1>1, <1>2 DEF Byte

LEMMA SplitFour ==
  ASSUME NEW n \in Nat, n < 4294967296
  PROVE  n = Byte(n, 1) + Byte(n, 256) * 256 + Byte(n, 65536) * 65536 + Byte(n, 16777216) * 16777216
<1>1. n = (n % 256) + ((n \div 256) % 256) * 256 + ((n \div 65536) % 256) * 65536
            + ((n \div 16777216) % 256) * 16777216
  OBVIOUS
<1>2. n \div 1 = n
  OBVIOUS
<1> QED BY <1>1, <1>2 DEF Byte

LEMMA ByteNat ==
  ASSUME NEW n \in Nat, NEW w \in {1, 256, 65536, 16777216}
  PROVE  Byte(n, w) \in Nat
BY DEF Byte

\* A count that its width can say is read as it was written.
LEMMA CountRead ==
  ASSUME NEW width \in {2, 4}, NEW n \in Nat, n < Limit(width)
  PROVE  Number(Count(n, width)) = n
<1> DEFINE b == Count(n, width)
           b1 == Byte(n, 1)
           b2 == Byte(n, 256)
           b3 == Byte(n, 65536)
           b4 == Byte(n, 16777216)
<1>1. b1 \in Nat /\ b2 \in Nat /\ b3 \in Nat /\ b4 \in Nat
  BY ByteNat
<1>2. Len(b) = width
  BY CountSeqs
<1>3. b[1] = b1 /\ b[2] = b2 /\ (width = 4 => b[3] = b3 /\ b[4] = b4)
  BY CountBytes
<1>4. width = 2 => n = b1 + b2 * 256
  BY SplitTwo DEF Limit
<1>5. width = 4 => n = b1 + b2 * 256 + b3 * 65536 + b4 * 16777216
  BY SplitFour DEF Limit
<1> HIDE DEF b, b1, b2, b3, b4
<1>6. CASE width = 2
  <2>1. Number(b) = b[1] + b[2] * 256
    BY <1>1, <1>2, <1>3, <1>6, NumberTwo
  <2> QED BY <1>3, <1>4, <1>6, <2>1 DEF b
<1>7. CASE width = 4
  <2>1. Number(b) = b[1] + b[2] * 256 + b[3] * 65536 + b[4] * 16777216
    BY <1>1, <1>2, <1>3, <1>7, NumberFour
  <2>2. Number(b) = n
    BY <1>3, <1>5, <1>7, <2>1
  <2> QED BY <2>2 DEF b
<1> QED BY <1>6, <1>7

-----------------------------------------------------------------------------
(* Fields and the values they hold.                                         *)

Names(fields) == {fields[i].name : i \in DOMAIN fields}

FlatField(field) ==
  /\ field.form \in {"fixed", "text"} /\ field.width \in Nat
  /\ field.form = "text" => field.width = 4

FlatFits(field, value) ==
  /\ Seqs(value)
  /\ field.form = "fixed" => Len(value) = field.width
  /\ field.form = "text" => Len(value) < Limit(4)

\* An item of a list has the item's members and no others.
ItemFits(item, value) ==
  /\ value = [name \in Names(item) |-> value[name]]
  /\ \A i \in 1 .. Len(item) : FlatFits(item[i], value[item[i].name])

ListField(field) ==
  /\ field.form = "list" /\ field.width \in {2, 4}
  /\ Seqs(field.item) /\ \A i \in 1 .. Len(field.item) : FlatField(field.item[i])

ListFits(field, value) ==
  /\ Seqs(value) /\ Len(value) < Limit(field.width)
  /\ \A i \in 1 .. Len(value) : ItemFits(field.item, value[i])

Fits(field, value) ==
  (FlatField(field) /\ FlatFits(field, value)) \/ (ListField(field) /\ ListFits(field, value))

\* A reader that has read without an error.
Reader(at, got) == [at |-> at, got |-> got, ok |-> TRUE]

\* What the reader has after i fields of the object o.
Gathered(got, fields, o, i) ==
  [name \in DOMAIN got \cup {fields[j].name : j \in 1..i} |->
     IF name \in {fields[j].name : j \in 1..i} THEN o[name] ELSE got[name]]

LEMMA ReaderFields ==
  ASSUME NEW at, NEW got
  PROVE  Reader(at, got).at = at /\ Reader(at, got).got = got /\ Reader(at, got).ok
BY DEF Reader

LEMMA ReaderChange ==
  ASSUME NEW at, NEW got, NEW new
  PROVE  [Reader(at, got) EXCEPT !.got = new] = Reader(at, new)
<1>1. ASSUME NEW o PROVE [[at |-> at, got |-> got, ok |-> o] EXCEPT !.got = new] = [at |-> at, got |-> new, ok |-> o]
  OBVIOUS
<1> QED BY <1>1, Zenon DEF Reader

LEMMA WithWith ==
  ASSUME NEW got, NEW name, NEW a, NEW b
  PROVE  With(With(got, name, a), name, b) = With(got, name, b) /\ With(got, name, a)[name] = a
BY DEF With

\* What a reader has is a function.
Members(got) == got = [name \in DOMAIN got |-> got[name]]

LEMMA GatheredNone ==
  ASSUME NEW got, NEW fields, NEW o, Members(got)
  PROVE  Gathered(got, fields, o, 0) = got
<1>1. {fields[j].name : j \in 1..0} = {}
  OBVIOUS
<1> QED BY <1>1 DEF Gathered, Members

LEMMA GatheredNext ==
  ASSUME NEW got, NEW fields, NEW o, NEW i \in Nat \ {0}
  PROVE  Gathered(got, fields, o, i)
           = With(Gathered(got, fields, o, i - 1), fields[i].name, o[fields[i].name])
<1> DEFINE A == {fields[j].name : j \in 1 .. i - 1}
           B == {fields[j].name : j \in 1..i}
<1>1. B = A \cup {fields[i].name}
  OBVIOUS
<1> HIDE DEF A, B
<1>2. Gathered(got, fields, o, i) = [name \in DOMAIN got \cup B |-> IF name \in B THEN o[name] ELSE got[name]]
  BY DEF Gathered, B
<1>3. Gathered(got, fields, o, i - 1)
        = [name \in DOMAIN got \cup A |-> IF name \in A THEN o[name] ELSE got[name]]
  BY DEF Gathered, A
<1> QED BY <1>1, <1>2, <1>3 DEF With

LEMMA TakeHeld ==
  ASSUME NEW data, Seqs(data), NEW at \in Nat, NEW v, Seqs(v), Holds(data, at, v),
         NEW got, NEW name, NEW width, width = Len(v)
  PROVE  Take(data, Reader(at, got), name, width) = Reader(Behind(at, v), With(got, name, v))
<1>1. Len(v) \in Nat /\ Len(data) \in Nat /\ at + Len(v) <= Len(data)
  BY SeqsHave DEF Holds
<1>2. SubSeq(data, at + 1, at + Len(v)) = v
  <2> DEFINE R == {data[i] : i \in DOMAIN data}
             u == SubSeq(data, at + 1, at + Len(v))
  <2>1. data \in Seq(R)
    BY DEF Seqs
  <2> HIDE DEF R
  <2> DEFINE n == Len(v)
             m == at + n
  <2>5. n \in Nat /\ m \in Nat /\ m <= Len(data) /\ m - (at + 1) + 1 = n
    BY <1>1
  <2> HIDE DEF m, n
  <2>6. SubSeq(data, at + 1, m) \in Seq(R) /\ Len(SubSeq(data, at + 1, m)) = n
    BY ONLY <2>1, <2>5, at \in Nat, SubSeqProperties
  <2>7. \A i \in 1..n : SubSeq(data, at + 1, m)[i] = data[at + i]
    BY ONLY <2>1, <2>5, at \in Nat, SubSeqProperties
  <2>2. u \in Seq(R) /\ Len(u) = Len(v) /\ \A i \in 1 .. Len(v) : u[i] = data[at + i]
    BY <2>6, <2>7 DEF m, n
  <2> HIDE DEF u
  <2>3. Seqs(u) /\ \A i \in 1 .. Len(v) : u[i] = v[i]
    BY <2>2, SeqsOf DEF Holds
  <2>4. u = v
    BY <2>2, <2>3, SeqsSame
  <2> QED BY <2>4 DEF u
<1> QED BY <1>1, <1>2, ReaderFields DEF Take, Reader, Behind

\* A member that is not a list reads what was written.
LEMMA ReadHeld ==
  ASSUME NEW data, Seqs(data), NEW at \in Nat, NEW field, FlatField(field),
         NEW v, FlatFits(field, v), Holds(data, at, Prefixed(field, v)), NEW got
  PROVE  Read(data, Reader(at, got), field)
           = Reader(Behind(at, Prefixed(field, v)), With(got, field.name, v))
<1> DEFINE n == Len(v)
<1>1. Seqs(v) /\ n \in Nat
  BY SeqsHave DEF FlatFits
<1>2. CASE field.form = "fixed"
  <2>1. Prefixed(field, v) = v /\ n = field.width
    BY <1>2 DEF Prefixed, FlatFits
  <2>2. Take(data, Reader(at, got), field.name, n) = Reader(Behind(at, v), With(got, field.name, v))
    BY <1>1, <2>1, TakeHeld
  <2> QED BY <1>2, <2>1, <2>2 DEF Read
<1>3. CASE field.form = "text"
  <2> DEFINE c == Count(n, 4)
             here == Behind(at, c)
             r == Reader(here, With(got, field.name, c))
  <2>1. Prefixed(field, v) = Cat(c, v) /\ field.width = 4 /\ n < Limit(4)
    BY <1>3 DEF Prefixed, FlatFits, FlatField, Cat
  <2>2. Seqs(c) /\ Len(c) = 4
    BY CountSeqs
  <2>3. Number(c) = n
    BY <1>1, <2>1, CountRead
  <2> HIDE DEF c, n
  <2>4. Holds(data, at, c) /\ Holds(data, here, v) /\ here \in Nat
    BY <1>1, <2>1, <2>2, HoldsParts, BehindNat
  <2>5. Take(data, Reader(at, got), field.name, 4) = r
    <3>1. Seqs(data) /\ at \in Nat /\ Seqs(c) /\ Holds(data, at, c)
      BY <2>2, <2>4
    <3>2. ASSUME NEW w, w = Len(c) PROVE Take(data, Reader(at, got), field.name, w) = r
      BY ONLY <3>1, <3>2, TakeHeld
    <3> QED BY ONLY <2>2, <3>2
  <2>6. TakeCounted(data, r, field.name) = Take(data, r, field.name, n)
    <3>1. r.ok /\ r.got[field.name] = c
      BY ReaderFields, WithWith
    <3> HIDE DEF r
    <3> QED BY <2>3, <3>1 DEF TakeCounted
  <2>7. Take(data, r, field.name, n) = Reader(Behind(here, v), With(With(got, field.name, c), field.name, v))
    <3>1. Seqs(data) /\ here \in Nat /\ Seqs(v) /\ Holds(data, here, v) /\ n = Len(v)
      BY <1>1, <2>4 DEF n
    <3> HIDE DEF here
    <3> QED BY ONLY <3>1, TakeHeld
  <2>8. Read(data, Reader(at, got), field)
          = Reader(Behind(here, v), With(With(got, field.name, c), field.name, v))
    BY <1>3, <2>1, <2>5, <2>6, <2>7 DEF Read
  <2>9. Behind(here, v) = Behind(at, Prefixed(field, v))
    BY <1>1, <2>1, <2>2, BehindBoth
  <2> QED BY <2>8, <2>9, WithWith
<1> QED BY <1>2, <1>3 DEF FlatField

-----------------------------------------------------------------------------
(* What the writers write, as runs.                                         *)

\* The empty sequence, where what it is made of does not matter.
Empty == <<>>

LEMMA NoBytes ==
  Seqs(Empty) /\ Len(Empty) = 0 /\ DOMAIN Empty = {} /\ Members(Empty)
<1>1. Seqs(Empty) /\ Len(Empty) = 0
  BY SeqsOf, <<>> \in Seq({}) DEF Empty
<1>2. DOMAIN Empty = 1..0 /\ Empty = [i \in 1..0 |-> Empty[i]]
  BY <1>1, SeqsHave
<1>3. Members(Empty)
  BY <1>2 DEF Members
<1> QED BY <1>1, <1>2, <1>3

ItemParts(item, value) == [i \in 1 .. Len(item) |-> Prefixed(item[i], value[item[i].name])]
ListParts(field, value) == [i \in 1 .. Len(value) |-> WriteItem(field.item, value[i])]
FieldParts(fields, o) == [i \in 1 .. Len(fields) |-> WriteField(fields[i], o[fields[i].name])]

ItemWritten(out, item, value) ==
  out = [i \in 0 .. Len(item) |->
           IF i = 0 THEN <<>> ELSE out[i - 1] \o Prefixed(item[i], value[item[i].name])]

ListWritten(out, field, value) ==
  out = [i \in 0 .. Len(value) |->
           IF i = 0 THEN Count(Len(value), field.width)
           ELSE out[i - 1] \o WriteItem(field.item, value[i])]

FieldsWritten(out, fields, o) ==
  out = [i \in 0 .. Len(fields) |->
           IF i = 0 THEN <<>> ELSE out[i - 1] \o WriteField(fields[i], o[fields[i].name])]

LEMMA WriteItemRun ==
  ASSUME NEW item, NEW value, Len(item) \in Nat
  PROVE  \E g : Run(g, Empty, ItemParts(item, value), Len(item)) /\ WriteItem(item, value) = g[Len(item)]
<1> DEFINE p == ItemParts(item, value)
<1>1. ASSUME NEW out PROVE Run(out, Empty, p, Len(item)) <=> ItemWritten(out, item, value)
  <2>1. \A i \in 0 .. Len(item) :
          (IF i = 0 THEN <<>> ELSE Cat(out[i - 1], p[i]))
            = (IF i = 0 THEN <<>> ELSE Cat(out[i - 1], Prefixed(item[i], value[item[i].name])))
    BY DEF ItemParts
  <2>2. [i \in 0 .. Len(item) |-> IF i = 0 THEN <<>> ELSE Cat(out[i - 1], p[i])]
          = [i \in 0 .. Len(item) |->
               IF i = 0 THEN <<>> ELSE Cat(out[i - 1], Prefixed(item[i], value[item[i].name]))]
    BY <2>1
  <2> QED BY <2>2, Zenon DEF Run, ItemWritten, Cat, Empty
<1>2. PICK f : Run(f, Empty, p, Len(item))
  BY RunExists
<1>3. \E f2 : ItemWritten(f2, item, value)
  BY <1>1, <1>2
<1>4. PICK g : ItemWritten(g, item, value) /\ WriteItem(item, value) = g[Len(item)]
  BY <1>3 DEF WriteItem, ItemWritten
<1> QED BY <1>1, <1>4

LEMMA WriteListRun ==
  ASSUME NEW field, NEW value, field.form = "list", Len(value) \in Nat
  PROVE  \E g : /\ Run(g, Count(Len(value), field.width), ListParts(field, value), Len(value))
                /\ WriteField(field, value) = g[Len(value)]
<1> DEFINE p == ListParts(field, value)
           c == Count(Len(value), field.width)
<1>1. ASSUME NEW out PROVE Run(out, c, p, Len(value)) <=> ListWritten(out, field, value)
  <2> HIDE DEF c
  <2>1. \A i \in 0 .. Len(value) :
          (IF i = 0 THEN c ELSE Cat(out[i - 1], p[i]))
            = (IF i = 0 THEN c ELSE Cat(out[i - 1], WriteItem(field.item, value[i])))
    BY DEF ListParts
  <2>2. [i \in 0 .. Len(value) |-> IF i = 0 THEN c ELSE Cat(out[i - 1], p[i])]
          = [i \in 0 .. Len(value) |->
               IF i = 0 THEN c ELSE Cat(out[i - 1], WriteItem(field.item, value[i]))]
    BY <2>1
  <2> QED BY <2>2, Zenon DEF Run, ListWritten, Cat, c
<1>2. PICK f : Run(f, c, p, Len(value))
  BY RunExists
<1>3. \E f2 : ListWritten(f2, field, value)
  BY <1>1, <1>2
<1>4. PICK g : ListWritten(g, field, value) /\ WriteField(field, value) = g[Len(value)]
  BY <1>3 DEF WriteField, ListWritten
<1> QED BY <1>1, <1>4

LEMMA SerializeRun ==
  ASSUME NEW fields, NEW o, Len(fields) \in Nat
  PROVE  \E g : Run(g, Empty, FieldParts(fields, o), Len(fields)) /\ Serialize(fields, o) = g[Len(fields)]
<1> DEFINE p == FieldParts(fields, o)
<1>1. ASSUME NEW out PROVE Run(out, Empty, p, Len(fields)) <=> FieldsWritten(out, fields, o)
  <2>1. \A i \in 0 .. Len(fields) :
          (IF i = 0 THEN <<>> ELSE Cat(out[i - 1], p[i]))
            = (IF i = 0 THEN <<>> ELSE Cat(out[i - 1], WriteField(fields[i], o[fields[i].name])))
    BY DEF FieldParts
  <2>2. [i \in 0 .. Len(fields) |-> IF i = 0 THEN <<>> ELSE Cat(out[i - 1], p[i])]
          = [i \in 0 .. Len(fields) |->
               IF i = 0 THEN <<>> ELSE Cat(out[i - 1], WriteField(fields[i], o[fields[i].name]))]
    BY <2>1
  <2> QED BY <2>2, Zenon DEF Run, FieldsWritten, Cat, Empty
<1>2. PICK f : Run(f, Empty, p, Len(fields))
  BY RunExists
<1>3. \E f2 : FieldsWritten(f2, fields, o)
  BY <1>1, <1>2
<1>4. PICK g : FieldsWritten(g, fields, o) /\ Serialize(fields, o) = g[Len(fields)]
  BY <1>3 DEF Serialize, FieldsWritten
<1> QED BY <1>1, <1>4

LEMMA PrefixedSeqs ==
  ASSUME NEW field, FlatField(field), NEW v, FlatFits(field, v)
  PROVE  /\ Seqs(Prefixed(field, v))
         /\ Len(Prefixed(field, v)) = IF field.form = "fixed" THEN field.width ELSE 4 + Len(v)
<1>1. CASE field.form = "fixed"
  BY <1>1 DEF Prefixed, FlatFits
<1>2. CASE field.form = "text"
  <2> DEFINE c == Count(Len(v), 4)
  <2>1. Seqs(c) /\ Len(c) = 4 /\ Seqs(v) /\ Prefixed(field, v) = Cat(c, v)
    BY <1>2, CountSeqs DEF Prefixed, FlatFits, FlatField, Cat
  <2> HIDE DEF c
  <2>2. Seqs(Cat(c, v)) /\ Len(Cat(c, v)) = Len(c) + Len(v)
    BY ONLY <2>1, SeqsCat
  <2> QED BY <1>2, <2>1, <2>2
<1> QED BY <1>1, <1>2 DEF FlatField

LEMMA ItemPartsSeqs ==
  ASSUME NEW item, Len(item) \in Nat, \A i \in 1 .. Len(item) : FlatField(item[i]),
         NEW v, ItemFits(item, v)
  PROVE  \A i \in 1 .. Len(item) : Seqs(ItemParts(item, v)[i])
<1> TAKE i \in 1 .. Len(item)
<1>1. FlatField(item[i]) /\ FlatFits(item[i], v[item[i].name])
  BY DEF ItemFits
<1>2. Seqs(Prefixed(item[i], v[item[i].name]))
  BY <1>1, PrefixedSeqs
<1> QED BY <1>2 DEF ItemParts

LEMMA ItemSeqs ==
  ASSUME NEW item, Len(item) \in Nat, \A i \in 1 .. Len(item) : FlatField(item[i]),
         NEW v, ItemFits(item, v)
  PROVE  Seqs(WriteItem(item, v)) /\ Len(WriteItem(item, v)) \in Nat
<1> DEFINE p == ItemParts(item, v)
<1>1. \A i \in 1 .. Len(item) : Seqs(p[i])
  BY ItemPartsSeqs
<1>2. PICK g : Run(g, Empty, p, Len(item)) /\ WriteItem(item, v) = g[Len(item)]
  BY WriteItemRun
<1> HIDE DEF p
<1>3. Seqs(g[Len(item)])
  BY ONLY <1>1, <1>2, NoBytes, RunEnd, Len(item) \in Nat DEF GoodRun
<1> QED BY <1>2, <1>3, SeqsHave

LEMMA ListPartsSeqs ==
  ASSUME NEW field, ListField(field), NEW v, ListFits(field, v)
  PROVE  /\ Len(v) \in Nat /\ \A i \in 1 .. Len(v) : Seqs(ListParts(field, v)[i])
         /\ Seqs(Count(Len(v), field.width)) /\ Len(Count(Len(v), field.width)) = field.width
<1>1. Len(field.item) \in Nat /\ Len(v) \in Nat
  BY SeqsHave DEF ListField, ListFits
<1>2. ASSUME NEW i \in 1 .. Len(v) PROVE Seqs(ListParts(field, v)[i])
  <2>1. ItemFits(field.item, v[i]) /\ \A j \in 1 .. Len(field.item) : FlatField(field.item[j])
    BY DEF ListFits, ListField
  <2>2. Seqs(WriteItem(field.item, v[i]))
    BY <1>1, <2>1, ItemSeqs
  <2> QED BY <2>2 DEF ListParts
<1>3. field.width \in Nat
  BY DEF ListField
<1> QED BY <1>1, <1>2, <1>3, CountSeqs

LEMMA FieldSeqs ==
  ASSUME NEW field, NEW v, Fits(field, v)
  PROVE  Seqs(WriteField(field, v)) /\ Len(WriteField(field, v)) \in Nat
<1>1. CASE FlatField(field) /\ FlatFits(field, v)
  <2>1. WriteField(field, v) = Prefixed(field, v)
    BY <1>1 DEF WriteField, FlatField
  <2> QED BY <1>1, <2>1, PrefixedSeqs, SeqsHave
<1>2. CASE ListField(field) /\ ListFits(field, v)
  <2> DEFINE p == ListParts(field, v)
             c == Count(Len(v), field.width)
  <2>1. Len(v) \in Nat /\ (\A i \in 1 .. Len(v) : Seqs(p[i])) /\ Seqs(c)
    BY <1>2, ListPartsSeqs
  <2>2. PICK g : Run(g, c, p, Len(v)) /\ WriteField(field, v) = g[Len(v)]
    BY <1>2, <2>1, WriteListRun DEF ListField
  <2> HIDE DEF c, p
  <2>3. Seqs(g[Len(v)])
    BY ONLY <2>1, <2>2, RunEnd DEF GoodRun
  <2> QED BY <2>2, <2>3, SeqsHave
<1> QED BY <1>1, <1>2 DEF Fits

ObjectFits(fields, o) ==
  Seqs(fields) /\ \A i \in 1 .. Len(fields) : Fits(fields[i], o[fields[i].name])

LEMMA FieldPartsSeqs ==
  ASSUME NEW fields, NEW o, ObjectFits(fields, o)
  PROVE  Len(fields) \in Nat /\ \A i \in 1 .. Len(fields) : Seqs(FieldParts(fields, o)[i])
<1>1. Len(fields) \in Nat
  BY SeqsHave DEF ObjectFits
<1>2. ASSUME NEW i \in 1 .. Len(fields) PROVE Seqs(FieldParts(fields, o)[i])
  <2>1. Seqs(WriteField(fields[i], o[fields[i].name]))
    BY FieldSeqs DEF ObjectFits
  <2> QED BY <2>1 DEF FieldParts
<1> QED BY <1>1, <1>2

LEMMA ObjectSeqs ==
  ASSUME NEW fields, NEW o, ObjectFits(fields, o)
  PROVE  Seqs(Serialize(fields, o)) /\ Len(Serialize(fields, o)) \in Nat
<1> DEFINE p == FieldParts(fields, o)
<1>1. Len(fields) \in Nat /\ \A i \in 1 .. Len(fields) : Seqs(p[i])
  BY FieldPartsSeqs
<1>2. PICK g : Run(g, Empty, p, Len(fields)) /\ Serialize(fields, o) = g[Len(fields)]
  BY <1>1, SerializeRun
<1> HIDE DEF p
<1>3. Seqs(g[Len(fields)])
  BY ONLY <1>1, <1>2, NoBytes, RunEnd DEF GoodRun
<1> QED BY <1>2, <1>3, SeqsHave

-----------------------------------------------------------------------------
(* Reading is walking the buffer along what the writer's run wrote: after   *)
(* i fields the reader stands behind g[i] and has the members so far.       *)

Walk(at, got, fields, o, g, n) ==
  [i \in 0..n |-> Reader(Behind(at, g[i]), Gathered(got, fields, o, i))]

LEMMA WalkStart ==
  ASSUME NEW at \in Nat, NEW got, Members(got),
         NEW fields, NEW o, NEW n \in Nat, NEW p, NEW g, GoodRun(g, Empty, p, n)
  PROVE  Walk(at, got, fields, o, g, n)[0] = Reader(at, got)
<1>1. g[0] = Empty
  BY DEF GoodRun, Run
<1>2. Gathered(got, fields, o, 0) = got
  BY GatheredNone
<1>3. Behind(at, g[0]) = at
  BY <1>1, NoBytes DEF Behind
<1> QED BY <1>2, <1>3 DEF Walk

\* A step of the walk reads one field and stands behind its part.
WalkTurn(at, got, fields, o, g, p, n, i) ==
  LET before == Gathered(got, fields, o, i - 1)
      here   == Behind(at, g[i - 1])
      e      == Walk(at, got, fields, o, g, n)
  IN  /\ here \in Nat
      /\ e[i - 1] = Reader(here, before)
      /\ e[i] = Reader(Behind(here, p[i]), With(before, fields[i].name, o[fields[i].name]))

LEMMA WalkStep ==
  ASSUME NEW at \in Nat, NEW got, NEW fields, NEW o, NEW n \in Nat, NEW p, NEW g,
         GoodRun(g, Empty, p, n), NEW i \in 1..n
  PROVE  WalkTurn(at, got, fields, o, g, p, n, i)
<1> DEFINE before == Gathered(got, fields, o, i - 1)
           here   == Behind(at, g[i - 1])
           e      == Walk(at, got, fields, o, g, n)
           name   == fields[i].name
<1>1. i - 1 \in 0..n /\ i \in 0..n /\ i \in Nat \ {0}
  OBVIOUS
<1>2. Seqs(g[i - 1]) /\ Seqs(p[i]) /\ g[i] = Cat(g[i - 1], p[i])
  BY <1>1, RunSeqs DEF GoodRun, Run
<1>3. Gathered(got, fields, o, i) = With(before, name, o[name])
  BY <1>1, GatheredNext
<1>4. here \in Nat /\ Behind(at, g[i]) = Behind(here, p[i])
  BY <1>2, BehindNat, BehindBoth
<1>5. e[i - 1] = Reader(here, before)
  BY <1>1 DEF Walk
<1>6. e[i] = Reader(Behind(at, g[i]), Gathered(got, fields, o, i))
  BY <1>1 DEF Walk
<1>7. e[i] = Reader(Behind(here, p[i]), With(before, name, o[name]))
  BY <1>3, <1>4, <1>6, Zenon
<1> QED BY <1>4, <1>5, <1>7, Zenon DEF WalkTurn

ItemRead(read, data, r, item) ==
  read = [i \in 0 .. Len(item) |->
            IF i = 0 THEN [r EXCEPT !.got = <<>>] ELSE Read(data, read[i - 1], item[i])]

\* Every function with these turns is the one ReadItem chooses.
LEMMA ReadItemUnfold ==
  ASSUME NEW data, NEW r, NEW field, NEW e, ItemRead(e, data, r, field.item)
  PROVE  \E read : /\ ItemRead(read, data, r, field.item)
                   /\ ReadItem(data, r, field) = Appended(r, field.name, read[Len(field.item)])
BY DEF ReadItem, ItemRead

LEMMA ItemReadOne ==
  ASSUME NEW data, NEW r, NEW item, Len(item) \in Nat, NEW e, NEW f,
         ItemRead(e, data, r, item), ItemRead(f, data, r, item)
  PROVE  e = f
<1> DEFINE n == Len(item)
           S == {i \in 0..n : e[i] = f[i]}
           turn(h, i) == IF i = 0 THEN [r EXCEPT !.got = <<>>] ELSE Read(data, h[i - 1], item[i])
<1>1. \A i \in 0..n : e[i] = turn(e, i) /\ f[i] = turn(f, i)
  BY DEF ItemRead
<1>2. 0 \in S
  BY <1>1
<1>3. ASSUME NEW i \in 1..n, i - 1 \in S PROVE i \in S
  BY <1>1, <1>3
<1>4. \A i \in 0..n : i \in S
  <2> HIDE DEF S
  <2> QED BY <1>2, <1>3, UpTo
<1>5. e = [i \in 0..n |-> e[i]] /\ f = [i \in 0..n |-> f[i]]
  BY DEF ItemRead
<1> QED BY <1>4, <1>5

\* An item of a list reads what was written.
LEMMA ReadItemHeld ==
  ASSUME NEW data, Seqs(data), NEW at \in Nat, NEW field, ListField(field),
         NEW v, ItemFits(field.item, v), Holds(data, at, WriteItem(field.item, v)), NEW got
  PROVE  ReadItem(data, Reader(at, got), field)
           = Reader(Behind(at, WriteItem(field.item, v)), With(got, field.name, Append(got[field.name], v)))
<1> DEFINE item == field.item
           n == Len(item)
           p == ItemParts(item, v)
           r == Reader(at, got)
<1>1. n \in Nat /\ DOMAIN item = 1..n /\ \A i \in 1..n : FlatField(item[i])
  BY SeqsHave DEF ListField
<1>2. PICK g : Run(g, Empty, p, n) /\ WriteItem(item, v) = g[n]
  BY <1>1, WriteItemRun
<1>3. \A i \in 1..n : Seqs(p[i])
  BY <1>1, ItemPartsSeqs
<1>11. GoodRun(g, Empty, p, n)
  BY <1>2, <1>3, NoBytes DEF GoodRun
<1>4. \A i \in 1..n : Holds(data, Behind(at, g[i - 1]), p[i])
  <2> HIDE DEF p, n, item
  <2>1. Holds(data, at, g[n])
    BY <1>2 DEF item
  <2> QED BY ONLY <1>1, <1>11, <2>1, RunHeld, at \in Nat, Seqs(data)
<1> DEFINE e == Walk(at, Empty, item, v, g, n)
<1>5. e[0] = [r EXCEPT !.got = <<>>]
  <2>1. e[0] = Reader(at, Empty)
    <3> HIDE DEF p, n, item
    <3> QED BY ONLY <1>1, <1>11, NoBytes, WalkStart, at \in Nat
  <2> QED BY <2>1, ReaderChange DEF Empty
<1>6. ASSUME NEW i \in 1..n PROVE e[i] = Read(data, e[i - 1], item[i])
  <2> DEFINE here == Behind(at, g[i - 1])
             before == Gathered(Empty, item, v, i - 1)
             val == v[item[i].name]
  <2>1. /\ here \in Nat /\ e[i - 1] = Reader(here, before)
        /\ e[i] = Reader(Behind(here, p[i]), With(before, item[i].name, val))
    <3> HIDE DEF p, n, item
    <3>1. WalkTurn(at, Empty, item, v, g, p, n, i)
      BY ONLY <1>1, <1>11, <1>6, WalkStep, at \in Nat
    <3> QED BY ONLY <3>1, Zenon DEF WalkTurn
  <2>2. FlatField(item[i]) /\ FlatFits(item[i], val) /\ p[i] = Prefixed(item[i], val)
    BY <1>1 DEF ItemFits, ItemParts
  <2>3. Holds(data, here, Prefixed(item[i], val))
    BY <1>4, <2>2
  <2> HIDE DEF e, p, n, item, here, before, val
  <2>4. Read(data, Reader(here, before), item[i])
          = Reader(Behind(here, Prefixed(item[i], val)), With(before, item[i].name, val))
    BY ONLY <2>1, <2>2, <2>3, ReadHeld, Seqs(data)
  <2> QED BY <2>1, <2>2, <2>4
<1>7. ItemRead(e, data, r, item)
  <2>1. e = [i \in 0..n |-> e[i]]
    BY DEF Walk
  <2> HIDE DEF e, r, item
  <2>2. \A i \in 0..n : e[i] = IF i = 0 THEN [r EXCEPT !.got = <<>>] ELSE Read(data, e[i - 1], item[i])
    BY <1>5, <1>6
  <2> QED BY <2>1, <2>2 DEF ItemRead
<1>8. ReadItem(data, r, field) = Appended(r, field.name, e[n])
  <2> HIDE DEF e, r
  <2>1. PICK read : /\ ItemRead(read, data, r, item)
                    /\ ReadItem(data, r, field) = Appended(r, field.name, read[n])
    BY <1>7, ReadItemUnfold
  <2>2. read = e
    BY <1>1, <1>7, <2>1, ItemReadOne
  <2> QED BY <2>1, <2>2
<1>9. e[n] = Reader(Behind(at, WriteItem(item, v)), v)
  <2>1. e[n] = Reader(Behind(at, g[n]), Gathered(Empty, item, v, n))
    BY <1>1 DEF Walk
  <2>2. Gathered(Empty, item, v, n) = v
    <3>1. {item[j].name : j \in 1..n} = Names(item)
      BY <1>1 DEF Names
    <3>2. Gathered(Empty, item, v, n) = [name \in Names(item) |-> v[name]]
      BY <3>1, NoBytes DEF Gathered
    <3> QED BY <3>2 DEF ItemFits
  <2> QED BY <1>2, <2>1, <2>2
<1>10. Appended(r, field.name, Reader(Behind(at, WriteItem(item, v)), v))
         = Reader(Behind(at, WriteItem(item, v)), With(got, field.name, Append(got[field.name], v)))
  BY ReaderFields, ReaderChange DEF Appended
<1> HIDE DEF e
<1> QED BY ONLY <1>8, <1>9, <1>10

\* The first i items of a list.
Front(v, i) == [k \in 1..i |-> v[k]]

LEMMA FrontNone ==
  ASSUME NEW v
  PROVE  Front(v, 0) = Empty
<1>1. Front(v, 0) = [k \in 1..0 |-> Front(v, 0)[k]]
  BY DEF Front
<1>2. Seqs(Front(v, 0)) /\ Len(Front(v, 0)) = 0
  BY <1>1, SeqsMade
<1> QED BY <1>2, NoBytes, SeqsSame

LEMMA FrontNext ==
  ASSUME NEW v, NEW i \in Nat \ {0}
  PROVE  Front(v, i) = Append(Front(v, i - 1), v[i])
<1> DEFINE f == Front(v, i - 1)
           R == {v[k] : k \in 1..i}
<1>1. f = [k \in 1 .. i - 1 |-> f[k]] /\ \A k \in 1 .. i - 1 : f[k] = v[k]
  BY DEF Front
<1>2. \A k \in 1..i : v[k] \in R
  OBVIOUS
<1> HIDE DEF f, R
<1>3. f \in Seq(R) /\ Len(f) = i - 1 /\ v[i] \in R
  BY <1>1, <1>2
<1>4. /\ Append(f, v[i]) \in Seq(R) /\ Len(Append(f, v[i])) = i
      /\ \A k \in 1..i : Append(f, v[i])[k] = IF k = i THEN v[i] ELSE f[k]
  BY <1>3
<1>5. \A k \in 1..i : Append(f, v[i])[k] = v[k]
  BY <1>1, <1>4
<1>6. Append(f, v[i]) = [k \in 1..i |-> Append(f, v[i])[k]]
  BY <1>4
<1>7. Append(f, v[i]) = [k \in 1..i |-> v[k]]
  BY <1>5, <1>6
<1> QED BY <1>7 DEF f, Front

LEMMA FrontAll ==
  ASSUME NEW v, Seqs(v)
  PROVE  Front(v, Len(v)) = v
BY SeqsHave DEF Front

ItemsRead(read, data, counted, field, count) ==
  read = [i \in 0..count |->
            IF i = 0 THEN [counted EXCEPT !.got[field.name] = <<>>]
            ELSE IF read[i - 1].ok THEN ReadItem(data, read[i - 1], field) ELSE read[i - 1]]

LEMMA ReadItemsUnfold ==
  ASSUME NEW data, NEW counted, NEW field, NEW count, NEW e, ItemsRead(e, data, counted, field, count)
  PROVE  \E read : /\ ItemsRead(read, data, counted, field, count)
                   /\ ReadItems(data, counted, field, count) = read[count]
BY DEF ReadItems, ItemsRead

LEMMA ItemsReadOne ==
  ASSUME NEW data, NEW r, NEW field, NEW n \in Nat, NEW e, NEW f,
         ItemsRead(e, data, r, field, n), ItemsRead(f, data, r, field, n)
  PROVE  e = f
<1> DEFINE S == {i \in 0..n : e[i] = f[i]}
           turn(h, i) == IF i = 0 THEN [r EXCEPT !.got[field.name] = <<>>]
                         ELSE IF h[i - 1].ok THEN ReadItem(data, h[i - 1], field) ELSE h[i - 1]
<1>1. \A i \in 0..n : e[i] = turn(e, i) /\ f[i] = turn(f, i)
  BY DEF ItemsRead
<1>2. 0 \in S
  BY <1>1
<1>3. ASSUME NEW i \in 1..n, i - 1 \in S PROVE i \in S
  BY <1>1, <1>3
<1>4. \A i \in 0..n : i \in S
  <2> HIDE DEF S
  <2> QED BY <1>2, <1>3, UpTo
<1>5. e = [i \in 0..n |-> e[i]] /\ f = [i \in 0..n |-> f[i]]
  BY DEF ItemsRead
<1> QED BY <1>4, <1>5

LEMMA ReaderClear ==
  ASSUME NEW at, NEW got, NEW name, NEW a
  PROVE  [Reader(at, With(got, name, a)) EXCEPT !.got[name] = <<>>] = Reader(at, With(got, name, Empty))
<1>1. [With(got, name, a) EXCEPT ![name] = Empty] = With(got, name, Empty)
  BY DEF With
<1>2. [Reader(at, With(got, name, a)) EXCEPT !.got[name] = Empty]
        = [Reader(at, With(got, name, a)) EXCEPT !.got = [With(got, name, a) EXCEPT ![name] = Empty]]
  BY ReaderFields
<1> QED BY <1>1, <1>2, ReaderChange DEF Empty

\* A list reads what was written.
LEMMA ReadListHeld ==
  ASSUME NEW data, Seqs(data), NEW at \in Nat, NEW field, ListField(field),
         NEW v, ListFits(field, v), Holds(data, at, WriteField(field, v)), NEW got
  PROVE  ReadField(data, Reader(at, got), field)
           = Reader(Behind(at, WriteField(field, v)), With(got, field.name, v))
<1> DEFINE n == Len(v)
           p == ListParts(field, v)
           c == Count(n, field.width)
           here == Behind(at, c)
           counted == Reader(here, With(got, field.name, c))
<1>1. n \in Nat /\ Seqs(c) /\ Len(c) = field.width /\ \A i \in 1..n : Seqs(p[i])
  BY ListPartsSeqs
<1>2. PICK g : Run(g, c, p, n) /\ WriteField(field, v) = g[n]
  BY <1>1, WriteListRun DEF ListField
<1>3. GoodRun(g, c, p, n)
  BY <1>1, <1>2 DEF GoodRun
<1>4. Number(c) = n
  BY <1>1, CountRead DEF ListField, ListFits
<1> DEFINE e == [i \in 0..n |-> Reader(Behind(at, g[i]), With(got, field.name, Front(v, i)))]
<1> HIDE DEF n, p, c
<1>5. /\ \A i \in 0..n : Holds(data, at, g[i])
      /\ \A i \in 1..n : Holds(data, Behind(at, g[i - 1]), p[i])
  <2>1. Holds(data, at, g[n])
    BY <1>2
  <2> QED BY ONLY <1>1, <1>3, <2>1, RunHeld, at \in Nat, Seqs(data)
<1>6. g[0] = c
  BY <1>1, <1>2 DEF Run
<1>7. Take(data, Reader(at, got), field.name, field.width) = counted
  <2>1. Holds(data, at, c) /\ field.width = Len(c)
    BY <1>1, <1>5, <1>6, 0 \in 0..n
  <2> QED BY ONLY <1>1, <2>1, TakeHeld, at \in Nat, Seqs(data)
<1>8. e[0] = [counted EXCEPT !.got[field.name] = <<>>]
  <2>1. e[0] = Reader(here, With(got, field.name, Empty))
    BY <1>1, <1>6, FrontNone
  <2> QED BY <2>1, ReaderClear
<1>9. ASSUME NEW i \in 1..n PROVE e[i] = ReadItem(data, e[i - 1], field) /\ e[i - 1].ok
  <2> DEFINE there == Behind(at, g[i - 1])
             so == With(got, field.name, Front(v, i - 1))
             name == field.name
  <2>1. i - 1 \in 0..n /\ i \in 0..n /\ i \in Nat \ {0} /\ i \in 1 .. Len(v)
    BY <1>1 DEF n
  <2>2. Seqs(g[i - 1]) /\ Seqs(p[i]) /\ g[i] = Cat(g[i - 1], p[i])
    BY <1>1, <1>2, <1>3, <2>1, RunSeqs DEF Run
  <2>3. there \in Nat /\ Behind(at, g[i]) = Behind(there, p[i])
    BY <2>2, BehindNat, BehindBoth
  <2>4. p[i] = WriteItem(field.item, v[i]) /\ ItemFits(field.item, v[i])
    BY <2>1 DEF p, ListParts, ListFits
  <2>5. Holds(data, there, WriteItem(field.item, v[i]))
    BY <1>5, <2>4
  <2>6. so[name] = Front(v, i - 1) /\ With(so, name, Front(v, i)) = With(got, name, Front(v, i))
    BY WithWith
  <2>7. e[i - 1] = Reader(there, so) /\ e[i] = Reader(Behind(at, g[i]), With(got, name, Front(v, i)))
    BY <2>1
  <2> HIDE DEF e, there, so, name
  <2>8. ReadItem(data, Reader(there, so), field)
          = Reader(Behind(there, WriteItem(field.item, v[i])), With(so, name, Append(so[name], v[i])))
    BY ONLY <2>3, <2>4, <2>5, ReadItemHeld, ListField(field), Seqs(data) DEF name
  <2>9. Append(so[name], v[i]) = Front(v, i)
    BY <2>1, <2>6, FrontNext
  <2>10. e[i - 1].ok
    BY <2>7, ReaderFields
  <2> QED BY ONLY <2>3, <2>4, <2>6, <2>7, <2>8, <2>9, <2>10
<1>10. ItemsRead(e, data, counted, field, n)
  <2>1. e = [i \in 0..n |-> e[i]]
    OBVIOUS
  <2> HIDE DEF e, counted
  <2>2. \A i \in 0..n :
          e[i] = IF i = 0 THEN [counted EXCEPT !.got[field.name] = <<>>]
                 ELSE IF e[i - 1].ok THEN ReadItem(data, e[i - 1], field) ELSE e[i - 1]
    BY <1>8, <1>9
  <2> QED BY <2>1, <2>2 DEF ItemsRead
<1>11. ReadItems(data, counted, field, n) = e[n]
  <2> HIDE DEF e, counted
  <2>1. PICK read : /\ ItemsRead(read, data, counted, field, n)
                    /\ ReadItems(data, counted, field, n) = read[n]
    BY <1>10, ReadItemsUnfold
  <2>2. read = e
    BY <1>1, <1>10, <2>1, ItemsReadOne
  <2> QED BY <2>1, <2>2
<1>12. e[n] = Reader(Behind(at, WriteField(field, v)), With(got, field.name, v))
  <2>1. Front(v, n) = v
    BY FrontAll DEF ListFits, n
  <2>2. e[n] = Reader(Behind(at, g[n]), With(got, field.name, Front(v, n)))
    BY <1>1
  <2> QED BY <1>2, <2>1, <2>2
<1>13. ReadList(data, counted, field) = ReadItems(data, counted, field, n)
  <2>1. counted.ok /\ counted.got[field.name] = c
    BY ReaderFields, WithWith
  <2> HIDE DEF counted
  <2> QED BY <1>4, <2>1 DEF ReadList
<1>14. ReadField(data, Reader(at, got), field) = ReadList(data, counted, field)
  <2> HIDE DEF counted
  <2> QED BY <1>7 DEF ReadField, ListField
<1> HIDE DEF e, counted
<1> QED BY <1>11, <1>12, <1>13, <1>14

\* Every field reads what was written.
LEMMA ReadFieldHeld ==
  ASSUME NEW data, Seqs(data), NEW at \in Nat, NEW field, NEW v, Fits(field, v),
         Holds(data, at, WriteField(field, v)), NEW got
  PROVE  ReadField(data, Reader(at, got), field)
           = Reader(Behind(at, WriteField(field, v)), With(got, field.name, v))
<1>1. CASE FlatField(field) /\ FlatFits(field, v)
  <2>1. /\ WriteField(field, v) = Prefixed(field, v)
        /\ ReadField(data, Reader(at, got), field) = Read(data, Reader(at, got), field)
    BY <1>1 DEF WriteField, ReadField, FlatField
  <2> QED BY <1>1, <2>1, ReadHeld
<1>2. CASE ListField(field) /\ ListFits(field, v)
  BY <1>2, ReadListHeld
<1> QED BY <1>1, <1>2 DEF Fits

FieldsRead(read, data, r, fields, n) ==
  read = [i \in 0..n |-> IF i = 0 THEN r ELSE ReadField(data, read[i - 1], fields[i])]

LEMMA FieldsReadExists ==
  ASSUME NEW data, NEW r, NEW fields, NEW n \in Nat
  PROVE  \E read : FieldsRead(read, data, r, fields, n)
<1> DEFINE S == {k \in 0..n : \E g : FieldsRead(g, data, r, fields, k)}
<1>1. 0 \in S
  <2> DEFINE g == [i \in 0..0 |-> r]
  <2>1. g = [i \in 0..0 |-> IF i = 0 THEN r ELSE ReadField(data, g[i - 1], fields[i])]
    OBVIOUS
  <2>2. FieldsRead(g, data, r, fields, 0)
    BY ONLY <2>1 DEF FieldsRead
  <2> QED BY <2>2
<1>2. ASSUME NEW i \in 1..n, i - 1 \in S PROVE i \in S
  <2>1. PICK g : FieldsRead(g, data, r, fields, i - 1)
    BY <1>2
  <2> DEFINE h == [j \in 0..i |-> IF j = i THEN ReadField(data, g[i - 1], fields[i]) ELSE g[j]]
  <2>2. \A j \in 0 .. i - 1 : g[j] = IF j = 0 THEN r ELSE ReadField(data, g[j - 1], fields[j])
    BY <2>1 DEF FieldsRead
  <2>3. ASSUME NEW j \in 0..i PROVE h[j] = IF j = 0 THEN r ELSE ReadField(data, h[j - 1], fields[j])
    <3>1. CASE j = i
      <4>1. h[i] = ReadField(data, g[i - 1], fields[i]) /\ h[i - 1] = g[i - 1]
        OBVIOUS
      <4> QED BY <3>1, <4>1
    <3>2. CASE j # i
      <4>1. j \in 0 .. i - 1 /\ h[j] = g[j]
        BY <3>2
      <4>2. j # 0 => h[j - 1] = g[j - 1]
        BY <4>1
      <4> QED BY <2>2, <4>1, <4>2
    <3> QED BY <3>1, <3>2
  <2>4. h = [j \in 0..i |-> IF j = 0 THEN r ELSE ReadField(data, h[j - 1], fields[j])]
    <3>1. h = [j \in 0..i |-> h[j]]
      OBVIOUS
    <3> HIDE DEF h
    <3> QED BY <2>3, <3>1
  <2>5. FieldsRead(h, data, r, fields, i)
    BY ONLY <2>4 DEF FieldsRead
  <2> QED BY <2>5
<1>3. n \in S
  <2> HIDE DEF S
  <2> QED BY <1>1, <1>2, UpTo
<1> QED BY <1>3

LEMMA DeserializeTurns ==
  ASSUME NEW data, NEW r, NEW fields, Len(fields) \in Nat
  PROVE  \E h : /\ h[0] = r
                /\ \A i \in 1 .. Len(fields) : h[i] = ReadField(data, h[i - 1], fields[i])
                /\ Deserialize(fields, data, r) = h[Len(fields)]
<1>1. \E e : FieldsRead(e, data, r, fields, Len(fields))
  BY FieldsReadExists
<1>2. PICK h : FieldsRead(h, data, r, fields, Len(fields)) /\ Deserialize(fields, data, r) = h[Len(fields)]
  BY <1>1 DEF Deserialize, FieldsRead
<1>3. h[0] = r /\ \A i \in 1 .. Len(fields) : h[i] = ReadField(data, h[i - 1], fields[i])
  BY <1>2 DEF FieldsRead
<1> QED BY <1>2, <1>3

(* Whatever the fields and whatever stands behind them in the buffer, the   *)
(* object that is read is the one that was written: deserialize... undoes   *)
(* serialize... for every list of fields and all values of their widths.    *)
THEOREM WrittenIsRead ==
  ASSUME NEW fields, NEW o, ObjectFits(fields, o),
         NEW data, Seqs(data), NEW at \in Nat, Holds(data, at, Serialize(fields, o)),
         NEW got, Members(got)
  PROVE  Deserialize(fields, data, Reader(at, got))
           = Reader(Behind(at, Serialize(fields, o)), Gathered(got, fields, o, Len(fields)))
<1> DEFINE n == Len(fields)
           p == FieldParts(fields, o)
           r == Reader(at, got)
<1>1. n \in Nat /\ \A i \in 1..n : Seqs(p[i])
  BY FieldPartsSeqs
<1>2. PICK g : Run(g, Empty, p, n) /\ Serialize(fields, o) = g[n]
  BY <1>1, SerializeRun
<1>3. GoodRun(g, Empty, p, n)
  BY <1>1, <1>2, NoBytes DEF GoodRun
<1>4. PICK h : /\ h[0] = r
               /\ \A i \in 1..n : h[i] = ReadField(data, h[i - 1], fields[i])
               /\ Deserialize(fields, data, r) = h[n]
  BY <1>1, DeserializeTurns
<1> DEFINE e == Walk(at, got, fields, o, g, n)
           S == {i \in 0..n : h[i] = e[i]}
<1>5. \A i \in 1..n : p[i] = WriteField(fields[i], o[fields[i].name]) /\ Fits(fields[i], o[fields[i].name])
  BY DEF FieldParts, ObjectFits
<1> HIDE DEF n, p, e
<1>6. \A i \in 1..n : Holds(data, Behind(at, g[i - 1]), p[i])
  <2>1. Holds(data, at, g[n])
    BY <1>2
  <2> QED BY ONLY <1>1, <1>3, <2>1, RunHeld, at \in Nat, Seqs(data)
<1>7. 0 \in S
  <2>1. e[0] = r
    BY ONLY <1>1, <1>3, WalkStart, at \in Nat, Members(got) DEF e
  <2> QED BY <1>1, <1>4, <2>1
<1>8. ASSUME NEW i \in 1..n, i - 1 \in S PROVE i \in S
  <2> DEFINE here == Behind(at, g[i - 1])
             before == Gathered(got, fields, o, i - 1)
             val == o[fields[i].name]
  <2>1. /\ here \in Nat /\ e[i - 1] = Reader(here, before)
        /\ e[i] = Reader(Behind(here, p[i]), With(before, fields[i].name, val))
    <3>1. WalkTurn(at, got, fields, o, g, p, n, i)
      BY ONLY <1>1, <1>3, <1>8, WalkStep, at \in Nat
    <3> QED BY ONLY <3>1, Zenon DEF WalkTurn, e
  <2>2. h[i - 1] = e[i - 1] /\ h[i] = ReadField(data, h[i - 1], fields[i])
    BY <1>4, <1>8
  <2>3. Fits(fields[i], val) /\ p[i] = WriteField(fields[i], val) /\ Holds(data, here, p[i])
    BY <1>5, <1>6, <1>8
  <2> HIDE DEF here, before, val
  <2>4. ReadField(data, Reader(here, before), fields[i])
          = Reader(Behind(here, WriteField(fields[i], val)), With(before, fields[i].name, val))
    BY ONLY <2>1, <2>3, ReadFieldHeld, Seqs(data)
  <2>5. h[i] = e[i]
    BY ONLY <2>1, <2>2, <2>3, <2>4
  <2> QED BY <2>5, <1>8
<1>9. \A i \in 0..n : i \in S
  <2> HIDE DEF S
  <2> QED BY <1>1, <1>7, <1>8, UpTo
<1>10. h[n] = e[n]
  BY <1>1, <1>9
<1>11. e[n] = Reader(Behind(at, g[n]), Gathered(got, fields, o, n))
  BY <1>1 DEF e, Walk
<1> QED BY <1>2, <1>4, <1>10, <1>11 DEF n

-----------------------------------------------------------------------------
(* The formats: no two members of one have the same name, and each is a     *)
(* fixed one, a text, or one of the three lists.                            *)

Lists == {ListOf("urls", 4, Url), ListOf("pageSlots", 2, Slot), ListOf("freePages", 2, FreePageId)}

\* A member that the formats have: only the bytes of a page are more than 32,
\* and a tag is one byte.
Known(field) ==
  /\ FlatField(field) \/ field \in Lists
  /\ field.form = "fixed" /\ field.name # "data" => field.width <= 32
  /\ field.name \in Tags => field = Fixed(field.name, 1)

Distinct(fields) ==
  \A i, j \in 1 .. Len(fields) : fields[i].name = fields[j].name => i = j

Sound(fields) ==
  Seqs(fields) /\ Distinct(fields) /\ \A i \in 1 .. Len(fields) : Known(fields[i])

LEMMA FixedField ==
  ASSUME NEW name, NEW width \in Nat
  PROVE  /\ FlatField(Fixed(name, width)) /\ Fixed(name, width).name = name
         /\ Fixed(name, width).form = "fixed" /\ Fixed(name, width).width = width
BY DEF Fixed, FlatField

LEMMA TextField ==
  ASSUME NEW name
  PROVE  /\ FlatField(Text(name)) /\ Text(name).name = name
         /\ Text(name).form = "text" /\ Text(name).width = 4
BY DEF Text, FlatField

LEMMA ListOfField ==
  ASSUME NEW name, NEW width, NEW item
  PROVE  /\ ListOf(name, width, item).name = name /\ ListOf(name, width, item).form = "list"
         /\ ListOf(name, width, item).width = width /\ ListOf(name, width, item).item = item
BY DEF ListOf

LEMMA FixedKnown ==
  ASSUME NEW name, NEW width \in Nat, name \in Tags => width = 1, name = "data" \/ width <= 32
  PROVE  Known(Fixed(name, width)) /\ Fixed(name, width).name = name
BY FixedField DEF Known

LEMMA TextKnown ==
  ASSUME NEW name, name \notin Tags
  PROVE  Known(Text(name)) /\ Text(name).name = name
BY TextField DEF Known

LEMMA ListKnown ==
  ASSUME NEW field \in Lists
  PROVE  Known(field) /\ field.name \in {"urls", "pageSlots", "freePages"}
BY ListOfField DEF Known, Lists, Tags

LEMMA SoundCat ==
  ASSUME NEW A, NEW B, Sound(A), Sound(B), Names(A) \cap Names(B) = {}
  PROVE  Sound(Cat(A, B)) /\ Names(Cat(A, B)) = Names(A) \cup Names(B)
         /\ Len(Cat(A, B)) = Len(A) + Len(B)
<1> DEFINE C == Cat(A, B)
           n == Len(A)
           m == Len(B)
<1>1. n \in Nat /\ m \in Nat /\ DOMAIN A = 1..n /\ DOMAIN B = 1..m
  BY SeqsHave DEF Sound
<1>2. /\ Seqs(C) /\ Len(C) = n + m /\ \A i \in 1..n : C[i] = A[i]
      /\ \A i \in 1..m : C[n + i] = B[i]
  BY SeqsCat DEF Sound
<1>3. DOMAIN C = 1 .. n + m
  BY <1>2, SeqsHave
<1> HIDE DEF C
<1>4. ASSUME NEW k \in 1 .. n + m
      PROVE  (k \in 1..n /\ C[k] = A[k]) \/ (k - n \in 1..m /\ C[k] = B[k - n] /\ k \notin 1..n)
  <2>1. CASE k <= n
    BY <1>1, <1>2, <2>1
  <2>2. CASE ~ (k <= n)
    <3>1. k - n \in 1..m /\ n + (k - n) = k
      BY <1>1, <2>2
    <3> QED BY <1>2, <2>2, <3>1
  <2> QED BY <2>1, <2>2
<1>5. \A k \in 1 .. n + m : Known(C[k])
  BY <1>4 DEF Sound
<1>6. Distinct(C)
  <2> SUFFICES ASSUME NEW i \in 1 .. n + m, NEW j \in 1 .. n + m, C[i].name = C[j].name PROVE i = j
    BY <1>2 DEF Distinct
  <2>1. \A k \in 1..n, l \in 1..m : A[k].name # B[l].name
    BY <1>1 DEF Names
  <2>2. CASE i \in 1..n /\ j \in 1..n
    BY <1>4, <2>2 DEF Sound, Distinct
  <2>3. CASE i \notin 1..n /\ j \notin 1..n
    <3>1. i - n \in 1..m /\ j - n \in 1..m /\ B[i - n].name = B[j - n].name
      BY <1>4, <2>3
    <3>2. i - n = j - n
      BY <3>1 DEF Sound, Distinct
    <3> QED BY <1>1, <3>2
  <2> QED BY <1>4, <2>1, <2>2, <2>3
<1>7. Names(C) = Names(A) \cup Names(B)
  <2>1. ASSUME NEW i \in 1..n PROVE A[i].name \in Names(C)
    <3>1. i \in DOMAIN C /\ C[i] = A[i]
      BY <1>1, <1>2, <1>3
    <3> QED BY <3>1 DEF Names
  <2>2. ASSUME NEW i \in 1..m PROVE B[i].name \in Names(C)
    <3>1. n + i \in DOMAIN C /\ C[n + i] = B[i]
      BY <1>1, <1>2, <1>3
    <3> QED BY <3>1 DEF Names
  <2>3. ASSUME NEW i \in 1 .. n + m PROVE C[i].name \in Names(A) \cup Names(B)
    BY <1>1, <1>4 DEF Names
  <2>4. Names(C) = {C[i].name : i \in 1 .. n + m}
    BY <1>3 DEF Names
  <2>5. Names(A) = {A[i].name : i \in 1..n} /\ Names(B) = {B[i].name : i \in 1..m}
    BY <1>1 DEF Names
  <2> QED BY <2>1, <2>2, <2>3, <2>4, <2>5, ZenonT(30)
<1>8. Sound(C)
  BY <1>2, <1>5, <1>6 DEF Sound
<1> QED BY <1>2, <1>7, <1>8 DEF C

LEMMA EntryHeadSound ==
  /\ Sound(EntryHead) /\ Len(EntryHead) = 7
  /\ Names(EntryHead)
       = {"id", "name", "notes", "folderId", "createdAt", "updatedAt", "type"}
<1> DEFINE L == EntryHead
<1>1. Seqs(L) /\ Len(L) = 7 /\ DOMAIN L = 1..7
  BY DEF Seqs, EntryHead
<1>2. /\ Known(L[1]) /\ Known(L[2]) /\ Known(L[3]) /\ Known(L[4]) /\ Known(L[5]) /\ Known(L[6]) /\ Known(L[7])
      /\ L[1].name = "id"
      /\ L[2].name = "name"
      /\ L[3].name = "notes"
      /\ L[4].name = "folderId"
      /\ L[5].name = "createdAt"
      /\ L[6].name = "updatedAt"
      /\ L[7].name = "type"
  BY FixedKnown, TextKnown, ListKnown DEF Tags, EntryHead
<1> HIDE DEF L
<1>3. Distinct(L)
  BY <1>1, <1>2 DEF Distinct
<1>4. Names(L) = {"id", "name", "notes", "folderId", "createdAt", "updatedAt", "type"}
  BY <1>1, <1>2 DEF Names
<1>5. \A i \in 1..7 : Known(L[i])
  BY <1>2
<1> QED BY <1>1, <1>3, <1>4, <1>5 DEF Sound, L

LEMMA FolderSound ==
  /\ Sound(FolderWritten) /\ Len(FolderWritten) = 5
  /\ Names(FolderWritten)
       = {"id", "name", "description", "createdAt", "updatedAt"}
<1> DEFINE L == FolderWritten
<1>1. Seqs(L) /\ Len(L) = 5 /\ DOMAIN L = 1..5
  BY DEF Seqs, FolderWritten
<1>2. /\ Known(L[1]) /\ Known(L[2]) /\ Known(L[3]) /\ Known(L[4]) /\ Known(L[5])
      /\ L[1].name = "id"
      /\ L[2].name = "name"
      /\ L[3].name = "description"
      /\ L[4].name = "createdAt"
      /\ L[5].name = "updatedAt"
  BY FixedKnown, TextKnown, ListKnown DEF Tags, FolderWritten
<1> HIDE DEF L
<1>3. Distinct(L)
  BY <1>1, <1>2 DEF Distinct
<1>4. Names(L) = {"id", "name", "description", "createdAt", "updatedAt"}
  BY <1>1, <1>2 DEF Names
<1>5. \A i \in 1..5 : Known(L[i])
  BY <1>2
<1> QED BY <1>1, <1>3, <1>4, <1>5 DEF Sound, L

LEMMA IndexHeadSound ==
  /\ Sound(IndexHead) /\ Len(IndexHead) = 4
  /\ Names(IndexHead)
       = {"id", "type", "pageId", "slotId"}
<1> DEFINE L == IndexHead
<1>1. Seqs(L) /\ Len(L) = 4 /\ DOMAIN L = 1..4
  BY DEF Seqs, IndexHead
<1>2. /\ Known(L[1]) /\ Known(L[2]) /\ Known(L[3]) /\ Known(L[4])
      /\ L[1].name = "id"
      /\ L[2].name = "type"
      /\ L[3].name = "pageId"
      /\ L[4].name = "slotId"
  BY FixedKnown, TextKnown, ListKnown DEF Tags, IndexHead
<1> HIDE DEF L
<1>3. Distinct(L)
  BY <1>1, <1>2 DEF Distinct
<1>4. Names(L) = {"id", "type", "pageId", "slotId"}
  BY <1>1, <1>2 DEF Names
<1>5. \A i \in 1..4 : Known(L[i])
  BY <1>2
<1> QED BY <1>1, <1>3, <1>4, <1>5 DEF Sound, L

LEMMA EntryIndexSound ==
  /\ Sound(IndexPayloadWritten(EntryIndex)) /\ Len(IndexPayloadWritten(EntryIndex)) = 2
  /\ Names(IndexPayloadWritten(EntryIndex))
       = {"folderId", "name"}
<1> DEFINE L == IndexPayloadWritten(EntryIndex)
<1>1. Seqs(L) /\ Len(L) = 2 /\ DOMAIN L = 1..2
  BY DEF Seqs, IndexPayloadWritten, EntryIndex
<1>2. /\ Known(L[1]) /\ Known(L[2])
      /\ L[1].name = "folderId"
      /\ L[2].name = "name"
  BY FixedKnown, TextKnown, ListKnown DEF Tags, IndexPayloadWritten, EntryIndex
<1> HIDE DEF L
<1>3. Distinct(L)
  BY <1>1, <1>2 DEF Distinct
<1>4. Names(L) = {"folderId", "name"}
  BY <1>1, <1>2 DEF Names
<1>5. \A i \in 1..2 : Known(L[i])
  BY <1>2
<1> QED BY <1>1, <1>3, <1>4, <1>5 DEF Sound, L

LEMMA FolderIndexSound ==
  /\ Sound(IndexPayloadWritten(FolderIndex)) /\ Len(IndexPayloadWritten(FolderIndex)) = 1
  /\ Names(IndexPayloadWritten(FolderIndex))
       = {"name"}
<1> DEFINE L == IndexPayloadWritten(FolderIndex)
<1>1. Seqs(L) /\ Len(L) = 1 /\ DOMAIN L = 1..1
  BY DEF Seqs, IndexPayloadWritten, FolderIndex, EntryIndex
<1>2. /\ Known(L[1])
      /\ L[1].name = "name"
  BY FixedKnown, TextKnown, ListKnown DEF Tags, IndexPayloadWritten, FolderIndex, EntryIndex
<1> HIDE DEF L
<1>3. Distinct(L)
  BY <1>1, <1>2 DEF Distinct
<1>4. Names(L) = {"name"}
  BY <1>1, <1>2 DEF Names
<1>5. \A i \in 1..1 : Known(L[i])
  BY <1>2
<1> QED BY <1>1, <1>3, <1>4, <1>5 DEF Sound, L

LEMMA PreambleSound ==
  /\ Sound(PreambleWritten) /\ Len(PreambleWritten) = 7
  /\ Names(PreambleWritten)
       = {"magic", "version", "uuid", "salt", "keyCheck", "pageSize", "headerSize"}
<1> DEFINE L == PreambleWritten
<1>1. Seqs(L) /\ Len(L) = 7 /\ DOMAIN L = 1..7
  BY DEF Seqs, PreambleWritten
<1>2. /\ Known(L[1]) /\ Known(L[2]) /\ Known(L[3]) /\ Known(L[4]) /\ Known(L[5]) /\ Known(L[6]) /\ Known(L[7])
      /\ L[1].name = "magic"
      /\ L[2].name = "version"
      /\ L[3].name = "uuid"
      /\ L[4].name = "salt"
      /\ L[5].name = "keyCheck"
      /\ L[6].name = "pageSize"
      /\ L[7].name = "headerSize"
  BY FixedKnown, TextKnown, ListKnown DEF Tags, PreambleWritten
<1> HIDE DEF L
<1>3. Distinct(L)
  BY <1>1, <1>2 DEF Distinct
<1>4. Names(L) = {"magic", "version", "uuid", "salt", "keyCheck", "pageSize", "headerSize"}
  BY <1>1, <1>2 DEF Names
<1>5. \A i \in 1..7 : Known(L[i])
  BY <1>2
<1> QED BY <1>1, <1>3, <1>4, <1>5 DEF Sound, L

LEMMA BlobSound ==
  /\ Sound(BlobWritten) /\ Len(BlobWritten) = 4
  /\ Names(BlobWritten)
       = {"compressionType", "originalSize", "nonce", "ciphertext"}
<1> DEFINE L == BlobWritten
<1>1. Seqs(L) /\ Len(L) = 4 /\ DOMAIN L = 1..4
  BY DEF Seqs, BlobWritten
<1>2. /\ Known(L[1]) /\ Known(L[2]) /\ Known(L[3]) /\ Known(L[4])
      /\ L[1].name = "compressionType"
      /\ L[2].name = "originalSize"
      /\ L[3].name = "nonce"
      /\ L[4].name = "ciphertext"
  BY FixedKnown, TextKnown, ListKnown DEF Tags, BlobWritten
<1> HIDE DEF L
<1>3. Distinct(L)
  BY <1>1, <1>2 DEF Distinct
<1>4. Names(L) = {"compressionType", "originalSize", "nonce", "ciphertext"}
  BY <1>1, <1>2 DEF Names
<1>5. \A i \in 1..4 : Known(L[i])
  BY <1>2
<1> QED BY <1>1, <1>3, <1>4, <1>5 DEF Sound, L

LEMMA PageHeaderSound ==
  /\ Sound(PageHeaderWritten) /\ Len(PageHeaderWritten) = 4
  /\ Names(PageHeaderWritten)
       = {"pageId", "pageType", "nextPage", "prevPage"}
<1> DEFINE L == PageHeaderWritten
<1>1. Seqs(L) /\ Len(L) = 4 /\ DOMAIN L = 1..4
  BY DEF Seqs, PageHeaderWritten
<1>2. /\ Known(L[1]) /\ Known(L[2]) /\ Known(L[3]) /\ Known(L[4])
      /\ L[1].name = "pageId"
      /\ L[2].name = "pageType"
      /\ L[3].name = "nextPage"
      /\ L[4].name = "prevPage"
  BY FixedKnown, TextKnown, ListKnown DEF Tags, PageHeaderWritten
<1> HIDE DEF L
<1>3. Distinct(L)
  BY <1>1, <1>2 DEF Distinct
<1>4. Names(L) = {"pageId", "pageType", "nextPage", "prevPage"}
  BY <1>1, <1>2 DEF Names
<1>5. \A i \in 1..4 : Known(L[i])
  BY <1>2
<1> QED BY <1>1, <1>3, <1>4, <1>5 DEF Sound, L

LEMMA HeaderSound ==
  /\ Sound(HeaderRead) /\ Len(HeaderRead) = 7
  /\ Names(HeaderRead)
       = {"indexRootPage", "dataRootPage", "freelistRootPage", "entryCount", "folderCount", "createdAt", "updatedAt"}
<1> DEFINE L == HeaderRead
<1>1. Seqs(L) /\ Len(L) = 7 /\ DOMAIN L = 1..7
  BY DEF Seqs, HeaderRead, FixedFields
<1>2. /\ Known(L[1]) /\ Known(L[2]) /\ Known(L[3]) /\ Known(L[4]) /\ Known(L[5]) /\ Known(L[6]) /\ Known(L[7])
      /\ L[1].name = "indexRootPage"
      /\ L[2].name = "dataRootPage"
      /\ L[3].name = "freelistRootPage"
      /\ L[4].name = "entryCount"
      /\ L[5].name = "folderCount"
      /\ L[6].name = "createdAt"
      /\ L[7].name = "updatedAt"
  BY FixedKnown, TextKnown, ListKnown DEF Tags, HeaderRead, FixedFields
<1> HIDE DEF L
<1>3. Distinct(L)
  BY <1>1, <1>2 DEF Distinct
<1>4. Names(L) = {"indexRootPage", "dataRootPage", "freelistRootPage", "entryCount", "folderCount", "createdAt", "updatedAt"}
  BY <1>1, <1>2 DEF Names
<1>5. \A i \in 1..7 : Known(L[i])
  BY <1>2
<1> QED BY <1>1, <1>3, <1>4, <1>5 DEF Sound, L

-----------------------------------------------------------------------------
(* Two lists of the same fields in the same order are one list.             *)

LEMMA CatIs ==
  ASSUME NEW s, NEW t, NEW u, Seqs(s), Seqs(t), Seqs(u), Len(u) = Len(s) + Len(t),
         \A i \in 1 .. Len(s) : u[i] = s[i], \A i \in 1 .. Len(t) : u[Len(s) + i] = t[i]
  PROVE  Cat(s, t) = u
<1>1. Seqs(Cat(s, t)) /\ Len(Cat(s, t)) = Len(u)
  BY SeqsCat
<1>2. Len(s) \in Nat /\ Len(t) \in Nat
  BY SeqsHave
<1>3. ASSUME NEW i \in 1 .. Len(u) PROVE Cat(s, t)[i] = u[i]
  <2>1. CASE i <= Len(s)
    <3>1. i \in 1 .. Len(s)
      BY <2>1
    <3> QED BY <3>1, SeqsCat
  <2>2. CASE ~ (i <= Len(s))
    <3>1. i - Len(s) \in 1 .. Len(t) /\ Len(s) + (i - Len(s)) = i
      BY <1>2, <2>2
    <3>2. Cat(s, t)[Len(s) + (i - Len(s))] = t[i - Len(s)] /\ u[Len(s) + (i - Len(s))] = t[i - Len(s)]
      BY ONLY <3>1, SeqsCat, Seqs(s), Seqs(t), \A k \in 1 .. Len(t) : u[Len(s) + k] = t[k]
    <3> QED BY <3>1, <3>2
  <2> QED BY <2>1, <2>2
<1> QED BY <1>1, <1>3, SeqsSame


\* The m items behind the first k.
Part(w, k, m) == [i \in 1..m |-> w[k + i]]

LEMMA PartsCat ==
  ASSUME NEW w, NEW k, NEW m, NEW n, NEW h, NEW l, k \in Nat, m \in Nat, n \in Nat,
         h = k + m, l = m + n
  PROVE  Cat(Part(w, k, m), Part(w, h, n)) = Part(w, k, l)
<1> DEFINE s == Part(w, k, m)
           t == Part(w, k + m, n)
           u == Part(w, k, m + n)
<1>1. s = [i \in 1..m |-> s[i]] /\ t = [i \in 1..n |-> t[i]] /\ u = [i \in 1 .. m + n |-> u[i]]
  BY DEF Part
<1>2. (\A i \in 1..m : u[i] = s[i]) /\ \A i \in 1..n : u[m + i] = t[i]
  <2>1. ASSUME NEW i \in 1..n PROVE u[m + i] = t[i]
    <3>1. m + i \in 1 .. m + n /\ k + (m + i) = k + m + i
      OBVIOUS
    <3> QED BY <3>1 DEF Part
  <2> QED BY <2>1 DEF Part
<1> HIDE DEF s, t, u
<1>3. /\ Seqs(s) /\ Len(s) = m
      /\ Seqs(t) /\ Len(t) = n
      /\ Seqs(u) /\ Len(u) = m + n
  BY <1>1, SeqsMade
<1>4. /\ Len(u) = Len(s) + Len(t)
      /\ (\A i \in 1 .. Len(s) : u[i] = s[i]) /\ \A i \in 1 .. Len(t) : u[Len(s) + i] = t[i]
  BY <1>2, <1>3
<1>5. Cat(s, t) = u
  BY ONLY <1>3, <1>4, CatIs
<1> QED BY <1>5 DEF s, t, u

LEMMA PartAll ==
  ASSUME NEW w, Seqs(w), NEW n, n = Len(w)
  PROVE  Part(w, 0, n) = w
BY SeqsHave DEF Part

LEMMA EntryHeadSame == EntryHeadRead = EntryHead
<1> DEFINE w == EntryHead
<1>1. /\ <<Fixed("id", 16), Text("name"), Text("notes"), Fixed("folderId", 16)>> = Part(w, 0, 4)
      /\ FixedFields(<<"createdAt", "updatedAt">>, 8) = Part(w, 4, 2)
      /\ <<Fixed("type", 1)>> = Part(w, 6, 1)
  BY DEF Part, FixedFields, EntryHead
<1>2. EntryHeadRead = Cat(Cat(Part(w, 0, 4), Part(w, 4, 2)), Part(w, 6, 1))
  BY <1>1 DEF EntryHeadRead, Cat
<1>3. Part(w, 0, 7) = w
  BY PartAll, EntryHeadSound DEF Sound
<1> HIDE DEF w
<1>4. /\ Cat(Part(w, 0, 4), Part(w, 4, 2)) = Part(w, 0, 6)
      /\ Cat(Part(w, 0, 6), Part(w, 6, 1)) = Part(w, 0, 7)
  BY PartsCat
<1> QED BY <1>2, <1>3, <1>4 DEF w

LEMMA FolderSame == FolderRead = FolderWritten
<1> DEFINE w == FolderWritten
<1>1. /\ <<Fixed("id", 16)>> = Part(w, 0, 1)
      /\ Texts(<<"name", "description">>) = Part(w, 1, 2)
      /\ FixedFields(<<"createdAt", "updatedAt">>, 8) = Part(w, 3, 2)
  BY DEF Part, FixedFields, Texts, FolderWritten
<1>2. FolderRead = Cat(Cat(Part(w, 0, 1), Part(w, 1, 2)), Part(w, 3, 2))
  BY <1>1 DEF FolderRead, Cat
<1>3. Part(w, 0, 5) = w
  BY PartAll, FolderSound DEF Sound
<1> HIDE DEF w
<1>4. /\ Cat(Part(w, 0, 1), Part(w, 1, 2)) = Part(w, 0, 3)
      /\ Cat(Part(w, 0, 3), Part(w, 3, 2)) = Part(w, 0, 5)
  BY PartsCat
<1> QED BY <1>2, <1>3, <1>4 DEF w

LEMMA IndexHeadSame == IndexHeadRead = IndexHead
<1> DEFINE w == IndexHead
<1>1. /\ FixedFields(<<"id">>, 16) = Part(w, 0, 1)
      /\ <<Fixed("type", 1), Fixed("pageId", 8), Fixed("slotId", 2)>> = Part(w, 1, 3)
  BY DEF Part, FixedFields, IndexHead
<1>2. IndexHeadRead = Cat(Part(w, 0, 1), Part(w, 1, 3))
  BY <1>1 DEF IndexHeadRead, Cat
<1>3. Part(w, 0, 4) = w
  BY PartAll, IndexHeadSound DEF Sound
<1> HIDE DEF w
<1>4. /\ Cat(Part(w, 0, 1), Part(w, 1, 3)) = Part(w, 0, 4)
  BY PartsCat
<1> QED BY <1>2, <1>3, <1>4 DEF w

LEMMA PreambleSame == PreambleRead = PreambleWritten
<1> DEFINE w == PreambleWritten
<1>1. /\ FixedFields(<<"magic", "version">>, 4) = Part(w, 0, 2)
      /\ FixedFields(<<"uuid", "salt">>, 16) = Part(w, 2, 2)
      /\ <<Fixed("keyCheck", 32)>> = Part(w, 4, 1)
      /\ FixedFields(<<"pageSize", "headerSize">>, 4) = Part(w, 5, 2)
  BY DEF Part, FixedFields, PreambleWritten
<1>2. PreambleRead = Cat(Cat(Cat(Part(w, 0, 2), Part(w, 2, 2)), Part(w, 4, 1)), Part(w, 5, 2))
  BY <1>1 DEF PreambleRead, Cat
<1>3. Part(w, 0, 7) = w
  BY PartAll, PreambleSound DEF Sound
<1> HIDE DEF w
<1>4. /\ Cat(Part(w, 0, 2), Part(w, 2, 2)) = Part(w, 0, 4)
      /\ Cat(Part(w, 0, 4), Part(w, 4, 1)) = Part(w, 0, 5)
      /\ Cat(Part(w, 0, 5), Part(w, 5, 2)) = Part(w, 0, 7)
  BY PartsCat
<1> QED BY <1>2, <1>3, <1>4 DEF w

LEMMA HeaderSame == HeaderWritten = HeaderRead
<1> DEFINE w == HeaderRead
<1>1. /\ FixedFields(<<"indexRootPage", "dataRootPage", "freelistRootPage">>, 8) = Part(w, 0, 3)
      /\ FixedFields(<<"entryCount", "folderCount", "createdAt", "updatedAt">>, 8) = Part(w, 3, 4)
  BY DEF Part, FixedFields, HeaderRead
<1>2. HeaderWritten = Cat(Part(w, 0, 3), Part(w, 3, 4))
  BY <1>1 DEF HeaderWritten, Cat
<1>3. Part(w, 0, 7) = w
  BY PartAll, HeaderSound DEF Sound
<1> HIDE DEF w
<1>4. /\ Cat(Part(w, 0, 3), Part(w, 3, 4)) = Part(w, 0, 7)
  BY PartsCat
<1> QED BY <1>2, <1>3, <1>4 DEF w

LEMMA BlobSame == BlobRead = BlobWritten
<1> DEFINE w == BlobWritten
<1>1. /\ <<Fixed("compressionType", 1), Fixed("originalSize", 4), Fixed("nonce", 12)>> = Part(w, 0, 3)
      /\ Texts(<<"ciphertext">>) = Part(w, 3, 1)
  BY DEF Part, Texts, BlobWritten
<1>2. BlobRead = Cat(Part(w, 0, 3), Part(w, 3, 1))
  BY <1>1 DEF BlobRead, Cat
<1>3. Part(w, 0, 4) = w
  BY PartAll, BlobSound DEF Sound
<1> HIDE DEF w
<1>4. /\ Cat(Part(w, 0, 3), Part(w, 3, 1)) = Part(w, 0, 4)
  BY PartsCat
<1> QED BY <1>2, <1>3, <1>4 DEF w

LEMMA PageHeaderSame == PageHeaderRead = PageHeaderWritten
<1> DEFINE w == PageHeaderWritten
<1>1. /\ <<Fixed("pageId", 8), Fixed("pageType", 1)>> = Part(w, 0, 2)
      /\ FixedFields(<<"nextPage", "prevPage">>, 8) = Part(w, 2, 2)
  BY DEF Part, FixedFields, PageHeaderWritten
<1>2. PageHeaderRead = Cat(Part(w, 0, 2), Part(w, 2, 2))
  BY <1>1 DEF PageHeaderRead, Cat
<1>3. Part(w, 0, 4) = w
  BY PartAll, PageHeaderSound DEF Sound
<1> HIDE DEF w
<1>4. /\ Cat(Part(w, 0, 2), Part(w, 2, 2)) = Part(w, 0, 4)
  BY PartsCat
<1> QED BY <1>2, <1>3, <1>4 DEF w

LEMMA LoginSound ==
  /\ Sound(EntryDataRead(Login)) /\ Len(EntryDataRead(Login)) = 3
  /\ Names(EntryDataRead(Login))
       = {"username", "password", "urls"}
<1> DEFINE L == EntryDataRead(Login)
<1>1. Seqs(L) /\ Len(L) = 3 /\ DOMAIN L = 1..3
  BY DEF Seqs, EntryDataRead, Login, Card, Identity, Note
<1>2. /\ L[1] = Text("username")
      /\ L[2] = Text("password")
      /\ L[3] = ListOf("urls", 4, Url)
  BY DEF EntryDataRead, Login, Card, Identity, Note
<1>3. /\ \A i \in 1..3 : Known(L[i])
      /\ L[1].name = "username"
      /\ L[2].name = "password"
      /\ L[3].name = "urls"
  <2>1. ListOf("urls", 4, Url) \in Lists /\ ListOf("urls", 4, Url).name = "urls"
    BY ListOfField DEF Lists
  <2> HIDE DEF L
  <2>2. Known(L[3]) /\ L[3].name = "urls"
    BY ONLY <1>2, <2>1, ListKnown
  <2>3. /\ Known(L[1]) /\ L[1].name = "username"
        /\ Known(L[2]) /\ L[2].name = "password"
    BY <1>2, FixedKnown, TextKnown DEF Tags
  <2> QED BY <2>2, <2>3
<1> HIDE DEF L
<1>4. Distinct(L)
  BY <1>1, <1>3 DEF Distinct
<1>5. Names(L) = {"username", "password", "urls"}
  BY <1>1, <1>3 DEF Names
<1> QED BY <1>1, <1>3, <1>4, <1>5 DEF Sound, L

LEMMA CardSound ==
  /\ Sound(EntryDataRead(Card)) /\ Len(EntryDataRead(Card)) = 5
  /\ Names(EntryDataRead(Card))
       = {"card", "holder", "number", "expiry", "cvv"}
<1> DEFINE L == EntryDataRead(Card)
<1>1. Seqs(L) /\ Len(L) = 5 /\ DOMAIN L = 1..5
  BY DEF Seqs, EntryDataRead, Login, Card, Identity, Note
<1>2. /\ \A i \in 1..5 : Known(L[i])
      /\ L[1].name = "card"
      /\ L[2].name = "holder"
      /\ L[3].name = "number"
      /\ L[4].name = "expiry"
      /\ L[5].name = "cvv"
  BY FixedKnown, TextKnown, ListKnown DEF Tags, Lists, EntryDataRead, Login, Card, Identity, Note
<1> HIDE DEF L
<1>3. Distinct(L)
  BY <1>1, <1>2 DEF Distinct
<1>4. Names(L) = {"card", "holder", "number", "expiry", "cvv"}
  BY <1>1, <1>2 DEF Names
<1> QED BY <1>1, <1>2, <1>3, <1>4 DEF Sound, L

LEMMA IdentitySound ==
  /\ Sound(EntryDataRead(Identity)) /\ Len(EntryDataRead(Identity)) = 15
  /\ Names(EntryDataRead(Identity))
       = {"sex", "firstName", "middleName", "lastName", "username", "company",
        "ssn", "passportNumber", "licenseNumber", "email", "phone", "city",
        "state", "zip", "country"}
<1> DEFINE L == EntryDataRead(Identity)
<1>1. Seqs(L) /\ Len(L) = 15 /\ DOMAIN L = 1..15
  BY DEF Seqs, EntryDataRead, Texts, Login, Card, Identity, Note
<1>2. /\ \A i \in 1..15 : Known(L[i])
      /\ L[1].name = "sex"
      /\ L[2].name = "firstName"
      /\ L[3].name = "middleName"
      /\ L[4].name = "lastName"
      /\ L[5].name = "username"
      /\ L[6].name = "company"
      /\ L[7].name = "ssn"
      /\ L[8].name = "passportNumber"
      /\ L[9].name = "licenseNumber"
      /\ L[10].name = "email"
      /\ L[11].name = "phone"
      /\ L[12].name = "city"
      /\ L[13].name = "state"
      /\ L[14].name = "zip"
      /\ L[15].name = "country"
  BY FixedKnown, TextKnown, ListKnown DEF Tags, Lists, EntryDataRead, Texts, Login, Card, Identity, Note
<1> HIDE DEF L
<1>3. Distinct(L)
  BY <1>1, <1>2 DEF Distinct
<1>4. Names(L) = {"sex", "firstName", "middleName", "lastName", "username", "company",
        "ssn", "passportNumber", "licenseNumber", "email", "phone", "city",
        "state", "zip", "country"}
  BY <1>1, <1>2 DEF Names
<1> QED BY <1>1, <1>2, <1>3, <1>4 DEF Sound, L

LEMMA NoteSound ==
  /\ Sound(EntryDataRead(Note)) /\ Len(EntryDataRead(Note)) = 1
  /\ Names(EntryDataRead(Note))
       = {"content"}
<1> DEFINE L == EntryDataRead(Note)
<1>1. Seqs(L) /\ Len(L) = 1 /\ DOMAIN L = 1..1
  BY DEF Seqs, EntryDataRead, Texts, Login, Card, Identity, Note
<1>2. /\ \A i \in 1..1 : Known(L[i])
      /\ L[1].name = "content"
  BY FixedKnown, TextKnown, ListKnown DEF Tags, Lists, EntryDataRead, Texts, Login, Card, Identity, Note
<1> HIDE DEF L
<1>3. Distinct(L)
  BY <1>1, <1>2 DEF Distinct
<1>4. Names(L) = {"content"}
  BY <1>1, <1>2 DEF Names
<1> QED BY <1>1, <1>2, <1>3, <1>4 DEF Sound, L

LEMMA SlotsSound ==
  /\ Sound(LayoutWritten(DataPage)) /\ Len(LayoutWritten(DataPage)) = 3
  /\ Names(LayoutWritten(DataPage))
       = {"lower", "upper", "pageSlots"}
<1> DEFINE L == LayoutWritten(DataPage)
<1>1. Seqs(L) /\ Len(L) = 3 /\ DOMAIN L = 1..3
  BY DEF Seqs, LayoutWritten, FixedFields, DataPage, IndexPage, FreelistPage, FreePage
<1>2. /\ L[1] = Fixed("lower", 2)
      /\ L[2] = Fixed("upper", 2)
      /\ L[3] = ListOf("pageSlots", 2, Slot)
  BY DEF LayoutWritten, FixedFields, DataPage, IndexPage, FreelistPage, FreePage
<1>3. /\ \A i \in 1..3 : Known(L[i])
      /\ L[1].name = "lower"
      /\ L[2].name = "upper"
      /\ L[3].name = "pageSlots"
  <2>1. ListOf("pageSlots", 2, Slot) \in Lists /\ ListOf("pageSlots", 2, Slot).name = "pageSlots"
    BY ListOfField DEF Lists
  <2> HIDE DEF L
  <2>2. Known(L[3]) /\ L[3].name = "pageSlots"
    BY ONLY <1>2, <2>1, ListKnown
  <2>3. /\ Known(L[1]) /\ L[1].name = "lower"
        /\ Known(L[2]) /\ L[2].name = "upper"
    BY <1>2, FixedKnown, TextKnown DEF Tags
  <2> QED BY <2>2, <2>3
<1> HIDE DEF L
<1>4. Distinct(L)
  BY <1>1, <1>3 DEF Distinct
<1>5. Names(L) = {"lower", "upper", "pageSlots"}
  BY <1>1, <1>3 DEF Names
<1> QED BY <1>1, <1>3, <1>4, <1>5 DEF Sound, L

LEMMA FreelistSound ==
  /\ Sound(LayoutWritten(FreelistPage)) /\ Len(LayoutWritten(FreelistPage)) = 1
  /\ Names(LayoutWritten(FreelistPage))
       = {"freePages"}
<1> DEFINE L == LayoutWritten(FreelistPage)
<1>1. Seqs(L) /\ Len(L) = 1 /\ DOMAIN L = 1..1
  BY DEF Seqs, LayoutWritten, FixedFields, DataPage, IndexPage, FreelistPage, FreePage
<1>2. /\ L[1] = ListOf("freePages", 2, FreePageId)
  BY DEF LayoutWritten, FixedFields, DataPage, IndexPage, FreelistPage, FreePage
<1>3. /\ \A i \in 1..1 : Known(L[i])
      /\ L[1].name = "freePages"
  <2>1. ListOf("freePages", 2, FreePageId) \in Lists /\ ListOf("freePages", 2, FreePageId).name = "freePages"
    BY ListOfField DEF Lists
  <2> HIDE DEF L
  <2>2. Known(L[1]) /\ L[1].name = "freePages"
    BY ONLY <1>2, <2>1, ListKnown
  <2> QED BY <2>2
<1> HIDE DEF L
<1>4. Distinct(L)
  BY <1>1, <1>3 DEF Distinct
<1>5. Names(L) = {"freePages"}
  BY <1>1, <1>3 DEF Names
<1> QED BY <1>1, <1>3, <1>4, <1>5 DEF Sound, L

LEMMA FreeSound ==
  Sound(LayoutWritten(FreePage)) /\ Len(LayoutWritten(FreePage)) = 0 /\ Names(LayoutWritten(FreePage)) = {}
<1>1. LayoutWritten(FreePage) = Empty
  BY DEF LayoutWritten, DataPage, IndexPage, FreelistPage, FreePage, Empty
<1> QED BY <1>1, NoBytes DEF Sound, Distinct, Names

LEMMA Kinds ==
  /\ Login # Card /\ Login # Identity /\ Login # Note
  /\ Card # Identity /\ Card # Note /\ Identity # Note
BY DEF Login, Card, Identity, Note

LEMMA LoginSame == EntryWritten(Login) = Cat(EntryHead, EntryDataRead(Login))
<1> DEFINE w == EntryDataRead(Login)
<1>1. /\ Texts(<<"username", "password">>) = Part(w, 0, 2)
      /\ <<ListOf("urls", 4, Url)>> = Part(w, 2, 1)
  BY DEF Part, Texts, EntryDataRead, Login, Card, Identity, Note
<1>2. Part(w, 0, 3) = w
  BY PartAll, LoginSound DEF Sound
<1> HIDE DEF w
<1>3. EntryWritten(Login) = EntryHead \o (Texts(<<"username", "password">>) \o <<ListOf("urls", 4, Url)>>)
  BY Kinds DEF EntryWritten
<1>4. EntryWritten(Login) = Cat(EntryHead, Cat(Part(w, 0, 2), Part(w, 2, 1)))
  BY <1>1, <1>3 DEF Cat
<1>5. /\ Cat(Part(w, 0, 2), Part(w, 2, 1)) = Part(w, 0, 3)
  BY PartsCat
<1> QED BY <1>4, <1>2, <1>5 DEF w

LEMMA CardSame == EntryWritten(Card) = Cat(EntryHead, EntryDataRead(Card))
<1> DEFINE w == EntryDataRead(Card)
<1>1. /\ <<Fixed("card", 1)>> = Part(w, 0, 1)
      /\ Texts(<<"holder", "number", "expiry", "cvv">>) = Part(w, 1, 4)
  BY DEF Part, Texts, EntryDataRead, Login, Card, Identity, Note
<1>2. Part(w, 0, 5) = w
  BY PartAll, CardSound DEF Sound
<1> HIDE DEF w
<1>3. EntryWritten(Card) = EntryHead \o (<<Fixed("card", 1)>> \o Texts(<<"holder", "number", "expiry", "cvv">>))
  BY Kinds DEF EntryWritten
<1>4. EntryWritten(Card) = Cat(EntryHead, Cat(Part(w, 0, 1), Part(w, 1, 4)))
  BY <1>1, <1>3 DEF Cat
<1>5. /\ Cat(Part(w, 0, 1), Part(w, 1, 4)) = Part(w, 0, 5)
  BY PartsCat
<1> QED BY <1>4, <1>2, <1>5 DEF w

LEMMA IdentitySame == EntryWritten(Identity) = Cat(EntryHead, EntryDataRead(Identity))
<1> DEFINE w == EntryDataRead(Identity)
<1>1. /\ <<Fixed("sex", 1)>> = Part(w, 0, 1)
      /\ Texts(<<"firstName", "middleName", "lastName", "username", "company",
                 "ssn", "passportNumber", "licenseNumber", "email", "phone",
                 "city", "state", "zip", "country">>) = Part(w, 1, 14)
  BY DEF Part, Texts, EntryDataRead, Login, Card, Identity, Note
<1>2. Part(w, 0, 15) = w
  BY PartAll, IdentitySound DEF Sound
<1> HIDE DEF w
<1>3. EntryWritten(Identity) = EntryHead \o (<<Fixed("sex", 1)>> \o Texts(<<"firstName", "middleName", "lastName", "username", "company",
                 "ssn", "passportNumber", "licenseNumber", "email", "phone",
                 "city", "state", "zip", "country">>))
  BY Kinds DEF EntryWritten
<1>4. EntryWritten(Identity) = Cat(EntryHead, Cat(Part(w, 0, 1), Part(w, 1, 14)))
  BY <1>1, <1>3 DEF Cat
<1>5. /\ Cat(Part(w, 0, 1), Part(w, 1, 14)) = Part(w, 0, 15)
  BY PartsCat
<1> QED BY <1>4, <1>2, <1>5 DEF w

LEMMA NoteSame == EntryWritten(Note) = Cat(EntryHead, EntryDataRead(Note))
<1>1. Texts(<<"content">>) = <<Text("content")>>
  BY DEF Texts
<1> QED BY <1>1, SMTT(30) DEF EntryWritten, EntryDataRead, Cat, Login, Card, Identity, Note

LEMMA IndexSame ==
  ASSUME NEW type \in {EntryIndex, FolderIndex}
  PROVE  IndexPayloadRead(type) = IndexPayloadWritten(type)
BY DEF IndexPayloadRead, IndexPayloadWritten, EntryIndex, FolderIndex

LEMMA SlotSame == FixedFields(<<"offset", "size">>, 2) \o <<Fixed("state", 1)>> = Slot
<1> DEFINE w == Slot
<1>1. /\ FixedFields(<<"offset", "size">>, 2) = Part(w, 0, 2)
      /\ <<Fixed("state", 1)>> = Part(w, 2, 1)
  BY DEF Part, FixedFields, Slot
<1>2. Seqs(w) /\ Len(w) = 3
  BY DEF Seqs, Slot
<1>3. Part(w, 0, 3) = w
  BY <1>2, PartAll
<1> HIDE DEF w
<1>4. Cat(Part(w, 0, 2), Part(w, 2, 1)) = Part(w, 0, 3)
  BY PartsCat
<1> QED BY <1>1, <1>3, <1>4 DEF w, Cat

LEMMA LayoutSame ==
  ASSUME NEW type \in {DataPage, IndexPage, FreelistPage, FreePage}
  PROVE  LayoutRead(type) = LayoutWritten(type)
<1>1. CASE type \in {DataPage, IndexPage}
  <2> DEFINE lower == FixedFields(<<"lower", "upper">>, 2)
             item  == FixedFields(<<"offset", "size">>, 2) \o <<Fixed("state", 1)>>
             w     == <<Fixed("lower", 2), Fixed("upper", 2), ListOf("pageSlots", 2, Slot)>>
  <2>1. type # FreelistPage /\ type # FreePage
    BY <1>1 DEF DataPage, IndexPage, FreelistPage, FreePage
  <2>2. LayoutRead(type) = <<Fixed("lower", 2), Fixed("upper", 2), ListOf("pageSlots", 2, item)>>
    BY <1>1, <2>1, Zenon DEF LayoutRead
  <2>3. LayoutWritten(type) = Cat(lower, <<ListOf("pageSlots", 2, Slot)>>)
    BY <1>1, <2>1, Zenon DEF LayoutWritten, Cat
  <2>4. Seqs(w) /\ Len(w) = 3 /\ lower = Part(w, 0, 2) /\ <<ListOf("pageSlots", 2, Slot)>> = Part(w, 2, 1)
    BY DEF Seqs, Part, FixedFields
  <2>5. item = Slot
    BY SlotSame
  <2> HIDE DEF lower, item
  <2>6. LayoutRead(type) = w
    BY <2>2, <2>5
  <2> HIDE DEF w
  <2>7. Part(w, 0, 3) = w
    BY ONLY <2>4, PartAll
  <2>8. Cat(Part(w, 0, 2), Part(w, 2, 1)) = Part(w, 0, 3)
    BY ONLY PartsCat
  <2> QED BY <2>3, <2>4, <2>6, <2>7, <2>8
<1>2. CASE type = FreelistPage
  BY <1>2 DEF LayoutRead, LayoutWritten, DataPage, IndexPage, FreelistPage, FreePage
<1>3. CASE type = FreePage
  BY <1>3 DEF LayoutRead, LayoutWritten, DataPage, IndexPage, FreelistPage, FreePage
<1> QED BY <1>1, <1>2, <1>3

-----------------------------------------------------------------------------
(* The members of each object, and the values they may have.                *)

LEMMA TagsAre ==
  /\ TagOf("login") = Login /\ TagOf("card") = Card /\ TagOf("identity") = Identity /\ TagOf("note") = Note
  /\ TagOf("entryIndex") = EntryIndex /\ TagOf("folderIndex") = FolderIndex
  /\ TagOf("slottedPage") = DataPage /\ TagOf("freelistPage") = FreelistPage /\ TagOf("freePage") = FreePage
BY DEF TagOf, Login, Card, Identity, Note, EntryIndex, FolderIndex, DataPage, FreelistPage, FreePage

LEMMA FieldsAre ==
  ASSUME NEW f \in Formats
  PROVE  /\ f \in Entries => Fields(f) = EntryWritten(TagOf(f))
         /\ f = "folder" => Fields(f) = FolderWritten
         /\ f \in IndexEntries => Fields(f) = Cat(IndexHead, IndexPayloadWritten(TagOf(f)))
         /\ f = "header" => Fields(f) = HeaderWritten
         /\ f = "preamble" => Fields(f) = PreambleWritten
         /\ f \in Images =>
              Fields(f) = Cat(Cat(PageHeaderWritten, LayoutWritten(TagOf(f))), <<Fixed("data", PageSize)>>)
         /\ f = "uuid" => Fields(f) = <<Fixed("id", UUID_SIZE)>>
<1>1. /\ f \in Entries => f # "folder" /\ f \notin IndexEntries /\ f # "header" /\ f # "preamble"
                          /\ f \notin Images /\ f # "uuid"
      /\ f = "folder" => f \notin IndexEntries /\ f # "header" /\ f # "preamble"
                         /\ f \notin Images /\ f # "uuid"
      /\ f \in IndexEntries => f # "header" /\ f # "preamble" /\ f \notin Images /\ f # "uuid"
      /\ f = "header" => f # "preamble" /\ f \notin Images /\ f # "uuid"
      /\ f = "preamble" => f \notin Images /\ f # "uuid"
      /\ f \in Images => f # "uuid"
  BY DEF Entries, IndexEntries, Images
<1>2. CASE f \in Entries
  BY <1>1, <1>2, Zenon DEF Fields
<1>3. CASE f = "folder"
  BY <1>1, <1>3, Zenon DEF Fields
<1>4. CASE f \in IndexEntries
  BY <1>1, <1>4, Zenon DEF Fields, Cat
<1>5. CASE f = "header"
  BY <1>1, <1>5, Zenon DEF Fields
<1>6. CASE f = "preamble"
  BY <1>1, <1>6, Zenon DEF Fields
<1>7. CASE f \in Images
  BY <1>1, <1>7, Zenon DEF Fields, Cat
<1>8. CASE f = "uuid"
  BY <1>1, <1>8, Zenon DEF Fields
<1> QED BY <1>2, <1>3, <1>4, <1>5, <1>6, <1>7, <1>8 DEF Formats, Encrypted, Records

LEMMA EntrySame ==
  ASSUME NEW type \in {Login, Card, Identity, Note}
  PROVE  EntryWritten(type) = Cat(EntryHead, EntryDataRead(type))
BY LoginSame, CardSame, IdentitySame, NoteSame

LEMMA EntrySound ==
  ASSUME NEW type \in {Login, Card, Identity, Note}
  PROVE  /\ Sound(EntryHead) /\ Sound(EntryDataRead(type)) /\ Sound(EntryWritten(type))
         /\ Names(EntryWritten(type)) = Names(EntryHead) \cup Names(EntryDataRead(type))
         /\ Names(EntryHead) \cap Names(EntryDataRead(type)) = {}
         /\ Len(EntryWritten(type)) <= 22 /\ "type" \in Names(EntryHead)
<1>1. /\ Sound(EntryHead) /\ Sound(EntryDataRead(type)) /\ "type" \in Names(EntryHead)
      /\ Len(EntryHead) = 7 /\ Len(EntryDataRead(type)) \in 1..15
  BY EntryHeadSound, LoginSound, CardSound, IdentitySound, NoteSound
<1>2. Names(EntryHead) \cap Names(EntryDataRead(type)) = {}
  BY EntryHeadSound, LoginSound, CardSound, IdentitySound, NoteSound
<1>3. LET all == Cat(EntryHead, EntryDataRead(type))
      IN  /\ Sound(all) /\ Names(all) = Names(EntryHead) \cup Names(EntryDataRead(type))
          /\ Len(all) = Len(EntryHead) + Len(EntryDataRead(type))
  BY ONLY <1>1, <1>2, SoundCat
<1>4. Len(EntryHead) + Len(EntryDataRead(type)) <= 22
  <2>1. \A n : n \in 1..15 => 7 + n <= 22
    OBVIOUS
  <2> QED BY <1>1, <2>1
<1> QED BY <1>1, <1>2, <1>3, <1>4, EntrySame

LEMMA IndexSound ==
  ASSUME NEW type \in {EntryIndex, FolderIndex}
  PROVE  /\ Sound(IndexHead) /\ Sound(IndexPayloadWritten(type)) /\ Sound(Cat(IndexHead, IndexPayloadWritten(type)))
         /\ Names(Cat(IndexHead, IndexPayloadWritten(type)))
              = Names(IndexHead) \cup Names(IndexPayloadWritten(type))
         /\ Names(IndexHead) \cap Names(IndexPayloadWritten(type)) = {}
         /\ Len(Cat(IndexHead, IndexPayloadWritten(type))) <= 22 /\ "type" \in Names(IndexHead)
<1>1. /\ Sound(IndexHead) /\ Sound(IndexPayloadWritten(type)) /\ "type" \in Names(IndexHead)
      /\ Len(IndexHead) = 4 /\ Len(IndexPayloadWritten(type)) \in 1..2
  BY IndexHeadSound, EntryIndexSound, FolderIndexSound
<1>2. Names(IndexHead) \cap Names(IndexPayloadWritten(type)) = {}
  BY IndexHeadSound, EntryIndexSound, FolderIndexSound
<1>3. LET all == Cat(IndexHead, IndexPayloadWritten(type))
      IN  /\ Sound(all) /\ Names(all) = Names(IndexHead) \cup Names(IndexPayloadWritten(type))
          /\ Len(all) = Len(IndexHead) + Len(IndexPayloadWritten(type))
  BY ONLY <1>1, <1>2, SoundCat
<1>4. Len(IndexHead) + Len(IndexPayloadWritten(type)) <= 22
  <2>1. \A n : n \in 1..2 => 4 + n <= 22
    OBVIOUS
  <2> QED BY <1>1, <2>1
<1> QED BY <1>1, <1>2, <1>3, <1>4

LEMMA LayoutSound ==
  ASSUME NEW type \in {DataPage, FreelistPage, FreePage}
  PROVE  /\ Sound(LayoutWritten(type))
         /\ Names(LayoutWritten(type)) \subseteq {"lower", "upper", "pageSlots", "freePages"}
BY SlotsSound, FreelistSound, FreeSound

LEMMA OneSound ==
  ASSUME NEW field, Known(field)
  PROVE  Sound(<<field>>) /\ Names(<<field>>) = {field.name} /\ Len(<<field>>) = 1
<1>1. Seqs(<<field>>) /\ Len(<<field>>) = 1 /\ DOMAIN <<field>> = 1..1 /\ <<field>>[1] = field
  BY DEF Seqs
<1> QED BY <1>1 DEF Sound, Names, Distinct

LEMMA PageSound ==
  ASSUME NEW type \in {DataPage, FreelistPage, FreePage}
  PROVE  LET head == Cat(PageHeaderWritten, LayoutWritten(type))
             all  == Cat(head, <<Fixed("data", PageSize)>>)
         IN  /\ Sound(all)
             /\ Names(all) = Names(PageHeaderWritten) \cup Names(LayoutWritten(type)) \cup {"data"}
             /\ Names(PageHeaderWritten) \cap Names(LayoutWritten(type)) = {}
             /\ "data" \notin Names(PageHeaderWritten) \cup Names(LayoutWritten(type))
             /\ "pageType" \in Names(PageHeaderWritten)
<1>1. /\ Sound(PageHeaderWritten) /\ Sound(LayoutWritten(type))
      /\ Names(PageHeaderWritten) = {"pageId", "pageType", "nextPage", "prevPage"}
      /\ Names(LayoutWritten(type)) \subseteq {"lower", "upper", "pageSlots", "freePages"}
  BY PageHeaderSound, LayoutSound
<1>2. Names(PageHeaderWritten) \cap Names(LayoutWritten(type)) = {}
  BY <1>1
<1> DEFINE d == <<Fixed("data", PageSize)>>
<1>3. Sound(d) /\ Names(d) = {"data"}
  <2>1. PageSize \in Nat /\ "data" \notin Tags
    BY ConstantsAre DEF Tags
  <2>2. Known(Fixed("data", PageSize)) /\ Fixed("data", PageSize).name = "data"
    BY <2>1, FixedKnown
  <2> QED BY <2>2, OneSound
<1> HIDE DEF d
<1>4. /\ Sound(Cat(PageHeaderWritten, LayoutWritten(type)))
      /\ Names(Cat(PageHeaderWritten, LayoutWritten(type))) = Names(PageHeaderWritten) \cup Names(LayoutWritten(type))
  BY <1>1, <1>2, SoundCat
<1>5. "data" \notin Names(PageHeaderWritten) \cup Names(LayoutWritten(type))
  BY <1>1
<1>6. LET all == Cat(Cat(PageHeaderWritten, LayoutWritten(type)), d)
      IN  Sound(all) /\ Names(all) = Names(PageHeaderWritten) \cup Names(LayoutWritten(type)) \cup {"data"}
  BY <1>3, <1>4, <1>5, SoundCat
<1> QED BY <1>1, <1>2, <1>5, <1>6 DEF d

LEMMA FormatSound ==
  ASSUME NEW f \in Formats
  PROVE  Sound(Fields(f)) /\ (f \in Encrypted => Len(Fields(f)) <= 22 /\ "data" \notin Names(Fields(f)))
<1>1. CASE f \in Entries
  <2>1. TagOf(f) \in {Login, Card, Identity, Note}
    BY <1>1, TagsAre DEF Entries
  <2> DEFINE type == TagOf(f)
  <2> HIDE DEF type
  <2>2. "data" \notin Names(EntryHead) \cup Names(EntryDataRead(type))
    BY <2>1, EntryHeadSound, LoginSound, CardSound, IdentitySound, NoteSound DEF type
  <2>3. Fields(f) = EntryWritten(type)
    BY <1>1, FieldsAre DEF type
  <2> QED BY <2>1, <2>2, <2>3, EntrySound DEF type
<1>2. CASE f = "folder"
  <2>1. Fields(f) = FolderWritten
    BY <1>2, FieldsAre
  <2> QED BY <2>1, FolderSound
<1>3. CASE f \in IndexEntries
  <2>1. TagOf(f) \in {EntryIndex, FolderIndex}
    BY <1>3, TagsAre DEF IndexEntries
  <2> DEFINE type == TagOf(f)
  <2> HIDE DEF type
  <2>2. "data" \notin Names(IndexHead) \cup Names(IndexPayloadWritten(type))
    BY <2>1, IndexHeadSound, EntryIndexSound, FolderIndexSound DEF type
  <2>3. Fields(f) = Cat(IndexHead, IndexPayloadWritten(type))
    BY <1>3, FieldsAre DEF type
  <2> QED BY <2>1, <2>2, <2>3, IndexSound DEF type
<1>4. CASE f = "header"
  <2>1. Fields(f) = HeaderRead
    BY <1>4, FieldsAre, HeaderSame
  <2> QED BY <2>1, HeaderSound
<1>5. CASE f = "preamble"
  <2>1. f \notin Encrypted
    BY <1>5 DEF Encrypted, Records, Entries, IndexEntries
  <2>2. Fields(f) = PreambleWritten
    BY <1>5, FieldsAre
  <2> QED BY <2>1, <2>2, PreambleSound
<1>6. CASE f \in Images
  <2>1. TagOf(f) \in {DataPage, FreelistPage, FreePage}
    BY <1>6, TagsAre DEF Images
  <2>2. f \notin Encrypted
    BY <1>6 DEF Encrypted, Records, Entries, IndexEntries, Images
  <2>3. Fields(f) = Cat(Cat(PageHeaderWritten, LayoutWritten(TagOf(f))), <<Fixed("data", PageSize)>>)
    BY <1>6, FieldsAre
  <2> QED BY <2>1, <2>2, <2>3, PageSound
<1>7. CASE f = "uuid"
  <2>1. Sound(<<Fixed("id", UUID_SIZE)>>)
    BY FixedKnown, OneSound DEF Tags, UUID_SIZE
  <2>2. f \notin Encrypted
    BY <1>7 DEF Encrypted, Records, Entries, IndexEntries
  <2>3. Fields(f) = <<Fixed("id", UUID_SIZE)>>
    BY <1>7, FieldsAre
  <2> QED BY <2>1, <2>2, <2>3
<1> QED BY <1>1, <1>2, <1>3, <1>4, <1>5, <1>6, <1>7 DEF Formats, Encrypted, Records

\* The two tags: a format whose fields have one knows its value.
LEMMA TagFits ==
  ASSUME NEW f \in Formats, NEW i \in 1 .. Len(Fields(f)), Fields(f)[i].name \in Tags
  PROVE  Seqs(TagOf(f)) /\ Len(TagOf(f)) = 1
<1>1. CASE f \in Entries \cup IndexEntries \cup Images
  <2>1. TagOf(f) \in {<<0>>, <<1>>, <<2>>, <<3>>}
    BY <1>1, TagsAre DEF Entries, IndexEntries, Images, Login, Card, Identity, Note,
       EntryIndex, FolderIndex, DataPage, FreelistPage, FreePage
  <2>2. \A t \in {<<0>>, <<1>>, <<2>>, <<3>>} : Seqs(t) /\ Len(t) = 1
    BY DEF Seqs
  <2> QED BY ONLY <2>1, <2>2
<1>2. CASE f \in {"folder", "header", "preamble", "uuid"}
  <2>1. Names(Fields(f)) \cap Tags = {}
    <3>1. CASE f = "folder"
      BY <3>1, FieldsAre, FolderSound DEF Tags
    <3>2. CASE f = "header"
      BY <3>2, FieldsAre, HeaderSound, HeaderSame DEF Tags
    <3>3. CASE f = "preamble"
      BY <3>3, FieldsAre, PreambleSound DEF Tags
    <3>4. CASE f = "uuid"
      <4>1. Names(<<Fixed("id", UUID_SIZE)>>) = {"id"}
        BY FixedKnown, OneSound DEF Tags, UUID_SIZE
      <4> QED BY <3>4, <4>1, FieldsAre DEF Tags
    <3> QED BY <1>2, <3>1, <3>2, <3>3, <3>4
  <2>2. i \in DOMAIN Fields(f)
    BY FormatSound, SeqsHave DEF Sound
  <2> QED BY <2>1, <2>2 DEF Names
<1> QED BY <1>1, <1>2 DEF Formats, Encrypted, Records

-----------------------------------------------------------------------------
(* A value of a field fits it.                                              *)

LEMMA SampleFits ==
  ASSUME NEW field, FlatField(field), NEW b \in Bits
  PROVE  FlatFits(field, Sample(field, b)) /\ (field.form = "text" => Len(Sample(field, b)) <= 2)
<1> DEFINE v == Sample(field, b)
<1>1. CASE field.form = "fixed"
  <2>1. v = [i \in 1 .. field.width |-> v[i]]
    BY <1>1 DEF Sample
  <2> HIDE DEF v
  <2>2. Seqs(v) /\ Len(v) = field.width
    BY ONLY <2>1, SeqsMade, FlatField(field) DEF FlatField
  <2> QED BY <1>1, <2>2 DEF v, FlatFits
<1>2. CASE field.form = "text"
  <2>1. CASE b = 0
    <3>1. v = Empty
      BY <1>2, <2>1 DEF Sample, Empty
    <3> QED BY <1>2, <3>1, NoBytes DEF FlatFits, Limit
  <2>2. CASE b # 0
    <3>1. v = <<b, 0>>
      BY <1>2, <2>2 DEF Sample
    <3>2. Seqs(v) /\ Len(v) = 2
      BY <3>1 DEF Seqs
    <3> QED BY <1>2, <3>2 DEF FlatFits, Limit
  <2> QED BY <2>1, <2>2
<1> QED BY <1>1, <1>2 DEF FlatField

LEMMA NamedValue ==
  ASSUME NEW fields, Seqs(fields), Distinct(fields), NEW values, NEW i \in 1 .. Len(fields)
  PROVE  /\ DOMAIN Named(fields, values) = Names(fields)
         /\ Named(fields, values) = [name \in Names(fields) |-> Named(fields, values)[name]]
         /\ fields[i].name \in Names(fields)
         /\ Named(fields, values)[fields[i].name] = values[i]
<1>1. DOMAIN fields = 1 .. Len(fields)
  BY SeqsHave
<1>2. (CHOOSE j \in DOMAIN fields : fields[j].name = fields[i].name) = i
  BY <1>1 DEF Distinct
<1>3. fields[i].name \in Names(fields)
  BY <1>1 DEF Names
<1>4. Named(fields, values)
        = [name \in Names(fields) |-> values[CHOOSE j \in DOMAIN fields : fields[j].name = name]]
  BY DEF Named, Names
<1> QED BY <1>2, <1>3, <1>4

LEMMA ListItems ==
  ASSUME NEW field \in Lists
  PROVE  ListField(field) /\ Distinct(field.item) /\ Len(field.item) \in 1..3
<1>1. /\ Seqs(Url) /\ Len(Url) = 1 /\ Url[1] = Text("url")
      /\ Seqs(Slot) /\ Len(Slot) = 3 /\ Slot[1] = Fixed("offset", 2) /\ Slot[2] = Fixed("size", 2)
      /\ Slot[3] = Fixed("state", 1)
      /\ Seqs(FreePageId) /\ Len(FreePageId) = 1 /\ FreePageId[1] = Fixed("id", 8)
  BY DEF Url, Slot, FreePageId, Seqs
<1>2. /\ \A i \in 1 .. Len(Url) : FlatField(Url[i])
      /\ \A i \in 1 .. Len(Slot) : FlatField(Slot[i])
      /\ \A i \in 1 .. Len(FreePageId) : FlatField(FreePageId[i])
  BY <1>1, FixedField, TextField
<1>3. Distinct(Url) /\ Distinct(FreePageId)
  BY <1>1 DEF Distinct
<1>4. Distinct(Slot)
  <2>1. Slot[1].name = "offset" /\ Slot[2].name = "size" /\ Slot[3].name = "state"
    BY <1>1, FixedField
  <2> QED BY <1>1, <2>1 DEF Distinct
<1>5. CASE field = ListOf("urls", 4, Url)
  BY <1>1, <1>2, <1>3, <1>5, ListOfField DEF ListField
<1>6. CASE field = ListOf("pageSlots", 2, Slot)
  BY <1>1, <1>2, <1>4, <1>6, ListOfField DEF ListField
<1>7. CASE field = ListOf("freePages", 2, FreePageId)
  BY <1>1, <1>2, <1>3, <1>7, ListOfField DEF ListField
<1> QED BY <1>5, <1>6, <1>7 DEF Lists

LEMMA ItemValue ==
  ASSUME NEW field \in Lists, NEW v \in Items(field)
  PROVE  /\ ItemFits(field.item, v)
         /\ \E b \in Bits : \A i \in 1 .. Len(field.item) : v[field.item[i].name] = Sample(field.item[i], b)
<1> DEFINE item == field.item
<1>1. Seqs(item) /\ Distinct(item) /\ \A i \in 1 .. Len(item) : FlatField(item[i])
  BY ListItems DEF ListField
<1>2. DOMAIN item = 1 .. Len(item)
  BY <1>1, SeqsHave
<1>3. PICK b \in Bits : v = Named(item, [i \in DOMAIN item |-> Sample(item[i], b)])
  BY DEF Items
<1> DEFINE values == [i \in DOMAIN item |-> Sample(item[i], b)]
<1>4. \A i \in 1 .. Len(item) : values[i] = Sample(item[i], b)
  BY <1>2
<1> HIDE DEF item, values
<1>5. Len(item) \in 1..3
  BY ListItems DEF item
<1>6. /\ v = [name \in Names(item) |-> v[name]]
      /\ \A i \in 1 .. Len(item) : v[item[i].name] = values[i]
  <2>1. v = Named(item, values)
    BY <1>3 DEF values
  <2>2. ASSUME NEW i \in 1 .. Len(item)
        PROVE  v = [name \in Names(item) |-> v[name]] /\ v[item[i].name] = values[i]
    BY ONLY <1>1, <2>1, NamedValue, i \in 1 .. Len(item)
  <2>3. 1 \in 1 .. Len(item)
    BY <1>5
  <2> QED BY <2>2, <2>3
<1>7. \A i \in 1 .. Len(item) : FlatFits(item[i], v[item[i].name])
  BY <1>1, <1>4, <1>6, SampleFits
<1>8. \A i \in 1 .. Len(item) : v[item[i].name] = Sample(item[i], b)
  BY <1>4, <1>6
<1>9. b \in Bits
  OBVIOUS
<1>10. ItemFits(item, v)
  BY <1>6, <1>7 DEF ItemFits
<1> QED BY <1>8, <1>9, <1>10 DEF item

LEMMA ListValue ==
  ASSUME NEW field \in Lists, NEW v \in Values(field)
  PROVE  Seqs(v) /\ Len(v) \in 0..MaxLength /\ \A i \in 1 .. Len(v) : v[i] \in Items(field)
<1>1. field.form = "list"
  BY ListItems DEF ListField
<1>2. PICK n \in 0..MaxLength : v \in [1..n -> Items(field)]
  BY <1>1 DEF Values
<1>3. n \in Nat
  BY ConstantsAre
<1>4. v = [i \in 1..n |-> v[i]] /\ \A i \in 1..n : v[i] \in Items(field)
  BY <1>2
<1>5. Seqs(v) /\ Len(v) = n
  BY ONLY <1>3, <1>4, SeqsMade
<1> QED BY <1>4, <1>5

LEMMA ValueFits ==
  ASSUME NEW field, Known(field), NEW v \in Values(field)
  PROVE  Fits(field, v)
<1>1. CASE FlatField(field)
  <2>1. PICK b \in Bits : v = Sample(field, b)
    BY <1>1 DEF Values, FlatField
  <2>2. FlatFits(field, v)
    BY <1>1, <2>1, SampleFits
  <2> QED BY <1>1, <2>2 DEF Fits
<1>2. CASE field \in Lists
  <2>1. ListField(field)
    BY <1>2, ListItems
  <2>2. Seqs(v) /\ Len(v) \in 0..MaxLength /\ \A i \in 1 .. Len(v) : v[i] \in Items(field)
    BY <1>2, ListValue
  <2>3. Len(v) < Limit(field.width)
    <3>1. \A w \in {2, 4} : Limit(w) \in Nat /\ 65536 <= Limit(w)
      BY DEF Limit
    <3>2. field.width \in {2, 4}
      BY <2>1 DEF ListField
    <3>3. MaxLength \in Nat /\ MaxLength < 65536
      BY ConstantsAre
    <3>4. Limit(field.width) \in Nat /\ 65536 <= Limit(field.width)
      BY <3>1, <3>2
    <3>5. Len(v) \in Nat /\ Len(v) <= MaxLength
      BY <2>2, <3>3
    <3> QED BY ONLY <3>3, <3>4, <3>5
  <2>4. \A i \in 1 .. Len(v) : ItemFits(field.item, v[i])
    BY <1>2, <2>2, ItemValue
  <2> QED BY <2>1, <2>2, <2>3, <2>4 DEF Fits, ListFits
<1> QED BY <1>1, <1>2 DEF Known

-----------------------------------------------------------------------------
(* The objects of a format: their members, each with one of its values.     *)

Member(f, field, v) ==
  IF field.name \in Tags THEN v = TagOf(f) ELSE v \in Values(field)

Typed(f, o) ==
  /\ o = [name \in Names(Fields(f)) |-> o[name]]
  /\ \A i \in 1 .. Len(Fields(f)) : Member(f, Fields(f)[i], o[Fields(f)[i].name])

LEMMA TypedFits ==
  ASSUME NEW f \in Formats, NEW o, Typed(f, o)
  PROVE  ObjectFits(Fields(f), o)
<1>1. Sound(Fields(f))
  BY FormatSound
<1>2. ASSUME NEW i \in 1 .. Len(Fields(f)) PROVE Fits(Fields(f)[i], o[Fields(f)[i].name])
  <2> DEFINE field == Fields(f)[i]
             v == o[field.name]
  <2>1. Known(field) /\ Member(f, field, v)
    BY <1>1 DEF Sound, Typed
  <2>2. CASE field.name \in Tags
    <3>1. v = TagOf(f) /\ Seqs(TagOf(f)) /\ Len(TagOf(f)) = 1
      BY <2>1, <2>2, TagFits DEF Member
    <3>2. field = Fixed(field.name, 1)
      BY <2>1, <2>2 DEF Known
    <3> HIDE DEF field, v
    <3>3. FlatField(field) /\ field.form = "fixed" /\ field.width = 1
      BY <3>2, FixedField
    <3> QED BY <3>1, <3>3 DEF Fits, FlatFits, field, v
  <2>3. CASE field.name \notin Tags
    BY <2>1, <2>3, ValueFits DEF Member
  <2> QED BY <2>2, <2>3
<1> QED BY <1>1, <1>2 DEF Sound, ObjectFits

LEMMA SampleValue ==
  ASSUME NEW field, Known(field)
  PROVE  (IF field.form = "list" THEN <<>> ELSE Sample(field, 0)) \in Values(field)
<1>1. 0 \in Bits /\ MaxLength \in Nat
  BY ConstantsAre
<1>2. CASE field.form = "list"
  <2>1. <<>> \in [1..0 -> Items(field)]
    OBVIOUS
  <2>2. 0 \in 0..MaxLength
    BY <1>1
  <2> QED BY <1>2, <2>1, <2>2 DEF Values
<1>3. CASE field.form # "list"
  BY <1>1, <1>3 DEF Values
<1> QED BY <1>2, <1>3

LEMMA TypedFirst ==
  ASSUME NEW f \in Formats
  PROVE  Typed(f, First(f))
<1> DEFINE L == Fields(f)
           values == [i \in DOMAIN L |->
                        IF L[i].name \in Tags THEN TagOf(f)
                        ELSE IF L[i].form = "list" THEN <<>> ELSE Sample(L[i], 0)]
<1>1. Sound(L) /\ DOMAIN L = 1 .. Len(L)
  BY FormatSound, SeqsHave DEF Sound
<1>2. First(f) = Named(L, values)
  BY DEF First
<1>3. ASSUME NEW i \in 1 .. Len(L) PROVE Member(f, L[i], values[i])
  <2>1. Known(L[i])
    BY <1>1 DEF Sound
  <2> QED BY <1>1, <2>1, SampleValue DEF Member
<1> HIDE DEF L, values
<1>4. ASSUME NEW i \in 1 .. Len(L) PROVE Member(f, L[i], First(f)[L[i].name])
  BY <1>1, <1>2, <1>3, NamedValue DEF Sound
<1>5. First(f) = [name \in Names(L) |-> First(f)[name]]
  BY <1>2 DEF Named, Names
<1> QED BY <1>4, <1>5 DEF Typed, L

LEMMA TypedEdit ==
  ASSUME NEW f \in Formats, NEW o, Typed(f, o), NEW i \in DOMAIN Fields(f),
         Fields(f)[i].name \notin Tags, NEW v \in Values(Fields(f)[i])
  PROVE  Typed(f, [o EXCEPT ![Fields(f)[i].name] = v])
<1> DEFINE L == Fields(f)
           p == [o EXCEPT ![L[i].name] = v]
<1>1. Sound(L) /\ DOMAIN L = 1 .. Len(L)
  BY FormatSound, SeqsHave DEF Sound
<1>2. /\ o = [name \in Names(L) |-> o[name]]
      /\ \A j \in 1 .. Len(L) : Member(f, L[j], o[L[j].name])
  BY DEF Typed
<1>3. i \in 1 .. Len(L) /\ L[i].name \notin Tags /\ v \in Values(L[i])
  BY <1>1
<1> HIDE DEF L
<1>4. \A j \in 1 .. Len(L) : L[j].name \in Names(L)
  BY <1>1 DEF Names
<1>5. p = [name \in Names(L) |-> p[name]]
  BY <1>2
<1>6. ASSUME NEW j \in 1 .. Len(L) PROVE Member(f, L[j], p[L[j].name])
  <2>1. CASE j = i
    <3>1. p[L[i].name] = v
      BY <1>2, <1>4, <1>3
    <3> QED BY <1>3, <2>1, <3>1 DEF Member
  <2>2. CASE j # i
    <3>1. L[j].name # L[i].name
      BY <1>1, <1>3, <2>2 DEF Sound, Distinct
    <3>2. p[L[j].name] = o[L[j].name]
      BY <1>2, <1>4, <3>1
    <3> QED BY <1>2, <3>2
  <2> QED BY <2>1, <2>2
<1> HIDE DEF p
<1>7. Typed(f, p)
  BY <1>5, <1>6 DEF Typed, L
<1> QED BY <1>7 DEF p, L

-----------------------------------------------------------------------------
(* How many bytes are written.                                              *)

LEMMA NextTimes ==
  ASSUME NEW i \in Nat \ {0}, NEW k \in Nat
  PROVE  (i - 1) * k + k = i * k /\ i * k \in Nat /\ (i - 1) * k \in Nat
  OBVIOUS

LEMMA LongerAtMost ==
  ASSUME NEW g, NEW p, NEW i, Lengthens(g, p, i), NEW j, j = i - 1, NEW c, NEW k, NEW l,
         c \in Nat, k \in Nat, l = c + k, Len(g[j]) <= c, Len(p[i]) <= k
  PROVE  Len(g[i]) <= l
<1> DEFINE s == g[i - 1]
           t == p[i]
           u == g[i]
<1>1. Len(s) \in Nat /\ Len(t) \in Nat /\ Len(u) \in Nat /\ Len(u) = Len(s) + Len(t)
  BY Zenon DEF Lengthens
<1>2. Len(s) <= c /\ Len(t) <= k
  BY Zenon
<1> HIDE DEF s, t, u
<1>3. Len(u) <= l
  BY ONLY <1>1, <1>2, c \in Nat, k \in Nat, l = c + k
<1> QED BY <1>3 DEF u

\* A run whose parts are no longer than k.
LEMMA RunAtMost ==
  ASSUME NEW n \in Nat, NEW a, NEW p, NEW g, GoodRun(g, a, p, n), NEW k \in Nat,
         \A i \in 1..n : Len(p[i]) <= k
  PROVE  Len(a) \in Nat /\ Len(g[n]) <= Len(a) + n * k
<1> DEFINE S == {i \in 0..n : Len(g[i]) <= Len(a) + i * k}
<1>1. g[0] = a /\ Len(a) \in Nat
  BY SeqsHave DEF GoodRun, Run
<1>2. 0 \in S
  BY <1>1
<1>3. ASSUME NEW i \in 1..n, i - 1 \in S PROVE i \in S
  <2>1. Lengthens(g, p, i)
    BY RunLengthens
  <2>2. Len(g[i - 1]) <= Len(a) + (i - 1) * k /\ Len(p[i]) <= k
    BY <1>3
  <2>3. (i - 1) * k + k = i * k /\ i * k \in Nat /\ (i - 1) * k \in Nat
    BY NextTimes
  <2>4. Len(g[i]) <= Len(a) + i * k
    <3> DEFINE x == Len(a) + (i - 1) * k
               y == Len(a) + i * k
    <3>1. x + k = y /\ x \in Nat /\ Len(g[i - 1]) <= x /\ Len(p[i]) <= k
      BY <1>1, <2>2, <2>3
    <3> HIDE DEF x, y
    <3>2. Len(g[i]) <= y
      BY ONLY <2>1, <3>1, LongerAtMost, k \in Nat
    <3> QED BY <3>2 DEF y
  <2> QED BY <2>4
<1>4. \A i \in 0..n : i \in S
  <2> HIDE DEF S
  <2> QED BY <1>2, <1>3, UpTo
<1>5. n \in S
  BY <1>4
<1> QED BY <1>1, <1>5

\* The lengths of a run of at most three parts.
LEMMA FirstThree ==
  ASSUME NEW g, NEW p, Len(g[0]) = 0
  PROVE  /\ Lengthens(g, p, 1) => Len(g[1]) = Len(p[1]) /\ Len(p[1]) \in Nat
         /\ Lengthens(g, p, 2) => Len(g[2]) = Len(g[1]) + Len(p[2])
         /\ Lengthens(g, p, 3) => Len(g[3]) = Len(g[2]) + Len(p[3])
<1> DEFINE Step(a, i) == Len(g[i]) = Len(a) + Len(p[i]) /\ Len(p[i]) \in Nat
<1>1. \A i : Lengthens(g, p, i) => Step(g[i - 1], i)
  BY Zenon DEF Lengthens
<1> HIDE DEF Step
<1>2. 1 - 1 = 0 /\ 2 - 1 = 1 /\ 3 - 1 = 2
  OBVIOUS
<1>3. /\ Lengthens(g, p, 1) => Step(g[0], 1)
      /\ Lengthens(g, p, 2) => Step(g[1], 2)
      /\ Lengthens(g, p, 3) => Step(g[2], 3)
  BY ONLY Zenon, <1>1, <1>2
<1>4. /\ Lengthens(g, p, 1) => Len(g[1]) = 0 + Len(p[1]) /\ Len(p[1]) \in Nat
      /\ Lengthens(g, p, 2) => Len(g[2]) = Len(g[1]) + Len(p[2])
      /\ Lengthens(g, p, 3) => Len(g[3]) = Len(g[2]) + Len(p[3])
  BY Zenon, <1>3 DEF Step
<1> DEFINE k == Len(p[1])
<1>5. k \in Nat => 0 + k = k
  OBVIOUS
<1> QED BY Zenon, <1>4, <1>5

LEMMA ItemLength ==
  ASSUME NEW field \in Lists, NEW v \in Items(field)
  PROVE  Seqs(WriteItem(field.item, v)) /\ Len(WriteItem(field.item, v)) <= 8
<1> DEFINE item == field.item
           n == Len(item)
           p == ItemParts(item, v)
<1>1. n \in 1..3 /\ (\A i \in 1..n : FlatField(item[i])) /\ ItemFits(item, v) /\ n \in Nat
  BY ListItems, ItemValue DEF ListField
<1>2. PICK g : Run(g, Empty, p, n) /\ WriteItem(item, v) = g[n]
  BY <1>1, WriteItemRun
<1>3. GoodRun(g, Empty, p, n)
  <2>1. \A i \in 1..n : Seqs(p[i])
    BY <1>1, ItemPartsSeqs
  <2> QED BY <1>2, <2>1, NoBytes DEF GoodRun
<1>4. Len(g[0]) = 0
  BY <1>2, NoBytes DEF Run
<1>5. PICK b \in Bits : \A i \in 1..n : v[item[i].name] = Sample(item[i], b)
  BY ItemValue
<1>6. \A i \in 1..n : Len(p[i]) = IF item[i].form = "fixed" THEN item[i].width ELSE 4 + Len(v[item[i].name])
  <2> TAKE i \in 1..n
  <2>1. p[i] = Prefixed(item[i], v[item[i].name]) /\ FlatField(item[i]) /\ FlatFits(item[i], v[item[i].name])
    BY <1>1 DEF ItemParts, ItemFits
  <2> HIDE DEF p, item
  <2> QED BY <2>1, PrefixedSeqs
<1>7. Seqs(g[n]) /\ Len(g[n]) \in Nat
  <2> HIDE DEF p, n, item
  <2> QED BY <1>1, <1>3, RunEnd
<1>8. \A i \in 1..n : Lengthens(g, p, i)
  <2> HIDE DEF p, n, item
  <2> QED BY <1>1, <1>3, RunLengthens
<1>9. Len(g[n]) <= 8
  <2>1. CASE field = ListOf("urls", 4, Url)
    <3>1. n = 1 /\ item[1] = Text("url")
      BY <2>1, ListOfField DEF Url
    <3>2. Len(Sample(item[1], b)) \in Nat /\ Len(Sample(item[1], b)) <= 2
      <4>1. FlatField(item[1]) /\ item[1].form = "text"
        BY <3>1, TextField
      <4> HIDE DEF item
      <4> QED BY <4>1, SampleFits, SeqsHave DEF FlatFits
    <3>3. Len(p[1]) = 4 + Len(Sample(item[1], b))
      <4>1. item[1].form = "text" /\ 1 \in 1..n
        BY <3>1, TextField
      <4> HIDE DEF item, p, n
      <4> QED BY <1>5, <1>6, <4>1
    <3> HIDE DEF item, p, n
    <3>4. Lengthens(g, p, 1)
      BY <1>8, <3>1
    <3>5. Len(p[1]) <= 6
      BY <3>2, <3>3
    <3>6. Len(g[1]) <= 6
      BY <1>4, <3>4, <3>5, FirstThree
    <3> QED BY <3>1, <3>6, <1>7
  <2>2. CASE field = ListOf("pageSlots", 2, Slot)
    <3>1. n = 3 /\ item[1] = Fixed("offset", 2) /\ item[2] = Fixed("size", 2) /\ item[3] = Fixed("state", 1)
      BY <2>2, ListOfField DEF Slot
    <3> HIDE DEF item, p, n
    <3>2. Len(p[1]) = 2 /\ Len(p[2]) = 2 /\ Len(p[3]) = 1
      <4>1. /\ item[1].form = "fixed" /\ item[1].width = 2 /\ item[2].form = "fixed" /\ item[2].width = 2
            /\ item[3].form = "fixed" /\ item[3].width = 1
        BY <3>1, FixedField
      <4>2. 1 \in 1..n /\ 2 \in 1..n /\ 3 \in 1..n
        BY <3>1
      <4> QED BY <1>6, <4>1, <4>2
    <3>3. Lengthens(g, p, 1) /\ Lengthens(g, p, 2) /\ Lengthens(g, p, 3)
      BY <1>8, <3>1
    <3>4. Len(g[1]) = 2
      BY <1>4, <3>2, <3>3, FirstThree
    <3>5. Len(g[2]) = Len(g[1]) + Len(p[2]) /\ Len(g[3]) = Len(g[2]) + Len(p[3])
      BY <1>4, <3>3, FirstThree
    <3>6. Len(g[2]) = 2 + 2 /\ Len(g[3]) = Len(g[2]) + 1
      BY Zenon, <3>2, <3>4, <3>5
    <3>7. Len(g[2]) = 4
      BY <3>6
    <3>8. Len(g[3]) = 5
      BY <3>6, <3>7
    <3> QED BY <3>1, <3>8
  <2>3. CASE field = ListOf("freePages", 2, FreePageId)
    <3>1. n = 1 /\ item[1] = Fixed("id", 8)
      BY <2>3, ListOfField DEF FreePageId
    <3> HIDE DEF item, p, n
    <3>2. Len(p[1]) = 8
      <4>1. item[1].form = "fixed" /\ item[1].width = 8 /\ 1 \in 1..n
        BY <3>1, FixedField
      <4> QED BY <1>6, <4>1
    <3>3. Lengthens(g, p, 1)
      BY <1>8, <3>1
    <3>4. Len(g[1]) = 8
      BY <1>4, <3>2, <3>3, FirstThree
    <3> QED BY <3>1, <3>4
  <2> QED BY <2>1, <2>2, <2>3 DEF Lists
<1> QED BY <1>2, <1>7, <1>9 DEF item

LEMMA ListLength ==
  ASSUME NEW field \in Lists, NEW v \in Values(field)
  PROVE  Len(WriteField(field, v)) \in Nat /\ Len(WriteField(field, v)) <= field.width + 8 * MaxLength
<1> DEFINE n == Len(v)
           c == Count(n, field.width)
           p == ListParts(field, v)
<1>1. ListField(field) /\ ListFits(field, v) /\ field.form = "list" /\ field.width \in Nat
  <2>1. ListField(field) /\ field.form = "list" /\ field.width \in Nat
    BY ListItems DEF ListField
  <2>2. Fits(field, v)
    BY ListKnown, ValueFits
  <2> QED BY <2>1, <2>2 DEF Fits, FlatField
<1>2. n \in Nat /\ (\A i \in 1..n : Seqs(p[i])) /\ Seqs(c) /\ Len(c) = field.width
  BY <1>1, ListPartsSeqs
<1>3. PICK g : Run(g, c, p, n) /\ WriteField(field, v) = g[n]
  BY <1>1, <1>2, WriteListRun
<1>4. \A i \in 1..n : Len(p[i]) <= 8
  <2> TAKE i \in 1..n
  <2>1. v[i] \in Items(field)
    BY ListValue
  <2>2. p[i] = WriteItem(field.item, v[i])
    BY DEF ListParts
  <2> HIDE DEF p
  <2> QED BY <2>1, <2>2, ItemLength
<1>5. n <= MaxLength /\ MaxLength \in Nat
  BY ListValue, ConstantsAre
<1> HIDE DEF n, c, p
<1>6. GoodRun(g, c, p, n)
  BY <1>2, <1>3 DEF GoodRun
<1>7. Len(g[n]) \in Nat
  BY <1>2, <1>6, RunEnd
<1>8. \A k : k = 8 => Len(g[n]) <= Len(c) + n * k
  <2> TAKE k
  <2>1. k = 8 => k \in Nat
    OBVIOUS
  <2> QED BY ONLY <1>2, <1>4, <1>6, <2>1, RunAtMost
<1>9. n * 8 <= 8 * MaxLength
  BY <1>2, <1>5
<1> QED BY <1>1, <1>2, <1>3, <1>5, <1>7, <1>8, <1>9

\* No field of an encrypted object takes more than this.
Chunk == 1000000

LEMMA FieldLength ==
  ASSUME NEW field, Known(field), field.name # "data", NEW v, Fits(field, v),
         field.name \notin Tags => v \in Values(field)
  PROVE  Len(WriteField(field, v)) \in Nat /\ Len(WriteField(field, v)) <= Chunk
<1>1. CASE FlatField(field)
  <2>1. FlatFits(field, v)
    BY <1>1 DEF Fits, FlatField, ListField
  <2>2. /\ WriteField(field, v) = Prefixed(field, v)
        /\ Len(Prefixed(field, v)) = IF field.form = "fixed" THEN field.width ELSE 4 + Len(v)
    BY <1>1, <2>1, PrefixedSeqs DEF WriteField, FlatField
  <2>3. CASE field.form = "fixed"
    <3>1. field.width \in Nat /\ field.width <= 32
      BY <1>1, <2>3 DEF Known, FlatField
    <3> QED BY <2>2, <2>3, <3>1 DEF Chunk
  <2>4. CASE field.form = "text"
    <3>1. field.name \notin Tags
      BY <2>4, FixedField DEF Known
    <3>2. PICK b \in Bits : v = Sample(field, b)
      BY <2>4, <3>1 DEF Values
    <3>3. Len(v) \in Nat /\ Len(v) <= 2
      BY <1>1, <2>1, <2>4, <3>2, SampleFits, SeqsHave DEF FlatFits
    <3> QED BY <2>2, <2>4, <3>3 DEF Chunk
  <2> QED BY <1>1, <2>3, <2>4 DEF FlatField
<1>2. CASE field \in Lists
  <2>1. field.name \notin Tags /\ field.width \in {2, 4}
    BY <1>2, ListKnown, ListItems DEF Tags, ListField
  <2>2. Len(WriteField(field, v)) \in Nat /\ Len(WriteField(field, v)) <= field.width + 8 * MaxLength
    BY <1>2, <2>1, ListLength
  <2>3. MaxLength \in Nat /\ MaxLength <= 65535
    BY ConstantsAre
  <2> QED BY ONLY <2>1, <2>2, <2>3 DEF Chunk
<1> QED BY <1>1, <1>2 DEF Known

LEMMA ObjectLength ==
  ASSUME NEW f \in Encrypted, NEW o, Typed(f, o)
  PROVE  Len(Serialize(Fields(f), o)) \in Nat /\ Len(Serialize(Fields(f), o)) <= 22 * Chunk
<1> DEFINE L == Fields(f)
           n == Len(L)
           p == FieldParts(L, o)
<1>1. f \in Formats
  BY DEF Formats
<1>2. ObjectFits(L, o) /\ Sound(L) /\ n \in Nat /\ n <= 22 /\ "data" \notin Names(L)
  BY <1>1, TypedFits, FormatSound, SeqsHave DEF Sound
<1>3. \A i \in 1..n : Seqs(p[i])
  BY <1>2, FieldPartsSeqs
<1>4. PICK g : Run(g, Empty, p, n) /\ Serialize(L, o) = g[n]
  BY <1>2, SerializeRun
<1>5. ASSUME NEW i \in 1..n PROVE Len(p[i]) <= Chunk
  <2>1. i \in DOMAIN L
    BY <1>2, SeqsHave DEF Sound
  <2>2. Known(L[i]) /\ L[i].name # "data" /\ Member(f, L[i], o[L[i].name])
    BY <1>2, <2>1 DEF Sound, Names, Typed
  <2>3. Fits(L[i], o[L[i].name])
    BY <1>2 DEF ObjectFits
  <2>4. p[i] = WriteField(L[i], o[L[i].name])
    BY DEF FieldParts
  <2> HIDE DEF p, L
  <2> QED BY <2>2, <2>3, <2>4, FieldLength DEF Member
<1> HIDE DEF L, n, p
<1>6. GoodRun(g, Empty, p, n)
  BY <1>3, <1>4, NoBytes DEF GoodRun
<1>7. Len(g[n]) \in Nat
  BY <1>2, <1>6, RunEnd
<1>8. Len(g[n]) <= n * Chunk
  <2>1. Chunk \in Nat
    BY DEF Chunk
  <2>2. Len(g[n]) <= Len(Empty) + n * Chunk
    BY <1>2, <1>5, <1>6, <2>1, RunAtMost
  <2> QED BY <1>2, <2>1, <2>2, NoBytes
<1>9. n * Chunk <= 22 * Chunk
  BY <1>2 DEF Chunk
<1> QED BY <1>2, <1>4, <1>7, <1>8, <1>9 DEF L, Chunk

-----------------------------------------------------------------------------
(* A buffer that ends too early.                                            *)

\* A reader that ran into the end of the buffer.
Refused(at, got) == [at |-> at, got |-> got, ok |-> FALSE]

LEMMA RefusedFields ==
  ASSUME NEW at, NEW got
  PROVE  /\ Threw(Refused(at, got)) = Refused(at, got) /\ Refused(at, got).ok = FALSE
         /\ Threw(Reader(at, got)) = Refused(at, got)
<1>1. ASSUME NEW o, NEW new
      PROVE  [[at |-> at, got |-> got, ok |-> o] EXCEPT !.ok = new] = [at |-> at, got |-> got, ok |-> new]
  OBVIOUS
<1>2. Refused(at, got).ok = FALSE
  BY DEF Refused
<1> QED BY <1>1, <1>2, Zenon DEF Threw, Reader, Refused

\* It stays refused.
LEMMA ReadRefused ==
  ASSUME NEW data, NEW at, NEW got, NEW field, FlatField(field)
  PROVE  ReadField(data, Refused(at, got), field) = Refused(at, got)
<1> DEFINE r == Refused(at, got)
<1>1. Threw(r) = r /\ r.ok = FALSE
  BY RefusedFields
<1> HIDE DEF r
<1>2. \A width : Take(data, r, field.name, width) = r
  BY ONLY <1>1, Zenon DEF Take
<1>3. TakeCounted(data, r, field.name) = r
  BY ONLY <1>1, Zenon DEF TakeCounted
<1>4. Read(data, r, field) = r
  BY ONLY <1>2, <1>3, Zenon DEF Read
<1>5. field.form # "list"
  BY DEF FlatField
<1>6. ReadField(data, r, field) = r
  BY ONLY <1>4, <1>5, Zenon DEF ReadField
<1> QED BY <1>6 DEF r

\* As far as the buffer goes, it has s from `at` on, and it ends inside s.
EndsInside(data, at, s) ==
  /\ Len(data) < at + Len(s)
  /\ \A j \in 1 .. Len(s) : at + j <= Len(data) => data[at + j] = s[j]

LEMMA TakeShort ==
  ASSUME NEW data, NEW at, NEW got, NEW name, NEW width, ~(at + width <= Len(data))
  PROVE  Take(data, Reader(at, got), name, width) = Refused(at, got)
<1>1. Reader(at, got).at = at
  BY ReaderFields
<1> QED BY <1>1, RefusedFields, Zenon DEF Take

\* A member that lost its end is not read.
LEMMA ReadCut ==
  ASSUME NEW data, Seqs(data), NEW at \in Nat, NEW field, FlatField(field),
         NEW v, FlatFits(field, v), EndsInside(data, at, WriteField(field, v)), NEW got
  PROVE  \E a, b : ReadField(data, Reader(at, got), field) = Refused(a, b)
<1> DEFINE r == Reader(at, got)
           c == Count(Len(v), 4)
           name == field.name
<1>1. /\ WriteField(field, v) = Prefixed(field, v) /\ ReadField(data, r, field) = Read(data, r, field)
  BY DEF WriteField, ReadField, FlatField
<1>2. Len(v) \in Nat /\ Seqs(v) /\ Len(data) \in Nat
  BY SeqsHave DEF FlatFits
<1>3. CASE field.form = "fixed"
  <2>1. Read(data, r, field) = Take(data, r, name, field.width)
    BY <1>3 DEF Read
  <2>2. Len(data) < at + Len(v) /\ Len(v) = field.width
    BY <1>1, <1>3 DEF EndsInside, Prefixed, FlatFits
  <2>3. ~(at + field.width <= Len(data))
    BY <1>2, <2>2
  <2> QED BY <1>1, <2>1, <2>3, TakeShort
<1>4. CASE field.form = "text"
  <2>1. field.width = 4 /\ Prefixed(field, v) = Cat(c, v)
    BY <1>4 DEF FlatField, Prefixed, Cat
  <2>2. Read(data, r, field) = TakeCounted(data, Take(data, r, name, 4), name)
    BY <1>4, <2>1 DEF Read
  <2>3. Seqs(c) /\ Len(c) = 4
    BY <1>2, CountSeqs
  <2>4. EndsInside(data, at, Cat(c, v))
    BY <1>1, <2>1
  <2> HIDE DEF c
  <2>5. CASE ~(at + 4 <= Len(data))
    <3>1. Take(data, r, name, 4) = Refused(at, got)
      BY <2>5, TakeShort
    <3>2. TakeCounted(data, Refused(at, got), name) = Refused(at, got)
      BY RefusedFields, Zenon DEF TakeCounted
    <3> QED BY <1>1, <2>2, <3>1, <3>2, Zenon
  <2>6. CASE at + 4 <= Len(data)
    <3>1. /\ Len(Cat(c, v)) = 4 + Len(v) /\ \A j \in 1..4 : Cat(c, v)[j] = c[j]
      <4>1. Len(Cat(c, v)) = Len(c) + Len(v) /\ \A j \in 1 .. Len(c) : Cat(c, v)[j] = c[j]
        BY ONLY <1>2, <2>3, SeqsCat, ZenonT(30)
      <4> QED BY ONLY <2>3, <4>1, Zenon
    <3> DEFINE s == Cat(c, v)
    <3> HIDE DEF s
    <3>2. Len(s) = 4 + Len(v) /\ (\A j \in 1..4 : s[j] = c[j]) /\ EndsInside(data, at, s)
      BY <2>4, <3>1 DEF s
    <3>3. \A j \in 1..4 : data[at + j] = c[j]
      BY ONLY <1>2, <2>6, <3>2, at \in Nat DEF EndsInside
    <3>4. Holds(data, at, c)
      BY ONLY <2>3, <2>6, <3>3 DEF Holds
    <3>5. Take(data, r, name, 4) = Reader(Behind(at, c), With(got, name, c))
      <4>1. Seqs(data) /\ at \in Nat /\ Seqs(c) /\ Holds(data, at, c)
        BY <2>3, <3>4
      <4>2. ASSUME NEW w, w = Len(c)
            PROVE  Take(data, Reader(at, got), field.name, w) = Reader(Behind(at, c), With(got, field.name, c))
        BY ONLY <4>1, <4>2, TakeHeld
      <4> QED BY ONLY <2>3, <4>2
    <3>6. Number(c) = Len(v)
      BY <1>2, <1>4, CountRead DEF c, FlatFits
    <3>7. ~(Behind(at, c) + Len(v) <= Len(data))
      BY ONLY <1>2, <2>3, <3>2, at \in Nat DEF EndsInside, Behind
    <3>8. TakeCounted(data, Reader(Behind(at, c), With(got, name, c)), name)
            = Refused(Behind(at, c), With(got, name, c))
      <4> DEFINE here == Behind(at, c)
                 so == With(got, name, c)
      <4>1. so[name] = c /\ Reader(here, so).ok /\ Reader(here, so).got = so
        BY WithWith, ReaderFields
      <4>2. Take(data, Reader(here, so), name, Len(v)) = Refused(here, so)
        BY <3>7, TakeShort
      <4> HIDE DEF here, so
      <4>3. TakeCounted(data, Reader(here, so), name) = Refused(here, so)
        BY ONLY <3>6, <4>1, <4>2, Zenon DEF TakeCounted
      <4> QED BY <4>3 DEF here, so
    <3> QED BY <1>1, <2>2, <3>5, <3>8, Zenon
  <2> QED BY <2>5, <2>6
<1> QED BY <1>3, <1>4 DEF FlatField

\* Only the first m bytes are left of s.
CutTo(data, s, m) ==
  Seqs(data) /\ Len(data) = m /\ m < Len(s) /\ \A j \in 1..m : data[j] = s[j]

\* Where the buffer still has what the run wrote, and where not.
LEMMA CutTurn ==
  ASSUME NEW n \in Nat, NEW p, NEW g, GoodRun(g, Empty, p, n), NEW m \in Nat, NEW data,
         CutTo(data, g[n], m), NEW i \in 1..n
  PROVE  /\ Len(g[i]) <= m => Holds(data, Behind(0, g[i - 1]), p[i]) /\ Len(g[i - 1]) <= m
         /\ ~(Len(g[i]) <= m) => EndsInside(data, Behind(0, g[i - 1]), p[i])
         /\ Behind(0, g[i - 1]) \in Nat
<1> DEFINE s == g[i - 1]
           t == p[i]
           u == g[i]
           w == g[n]
           here == Behind(0, s)
<1>1. Seqs(w) /\ Len(w) \in Nat
  BY RunEnd
<1>2. Holds(w, 0, w)
  BY <1>1 DEF Holds
<1>3. Holds(w, here, t) /\ Holds(w, 0, u)
  <2> HIDE DEF w
  <2>1. \A at : at = 0 => Holds(w, at, g[n])
    BY <1>2 DEF w
  <2>2. ASSUME NEW at, at = 0 PROVE Holds(w, Behind(at, g[i - 1]), p[i]) /\ Holds(w, at, g[i])
    <3>1. at \in Nat /\ Holds(w, at, g[n]) /\ Seqs(w)
      BY <1>1, <2>1, <2>2
    <3>2. \A j \in 0..n : Holds(w, at, g[j])
      BY ONLY <3>1, RunHeld, n \in Nat, GoodRun(g, Empty, p, n)
    <3>3. \A j \in 1..n : Holds(w, Behind(at, g[j - 1]), p[j])
      BY ONLY <3>1, RunHeld, n \in Nat, GoodRun(g, Empty, p, n)
    <3> QED BY <3>2, <3>3
  <2> QED BY <2>2
<1>4. Lengthens(g, p, i)
  BY RunLengthens
<1>5. Len(s) \in Nat /\ Len(t) \in Nat /\ Len(u) = Len(s) + Len(t)
  BY <1>4, Zenon DEF Lengthens
<1>6. Seqs(data) /\ Len(data) = m /\ (\A j \in 1..m : data[j] = w[j])
  BY DEF CutTo
<1> HIDE DEF s, t, u, w
<1>7. here = Len(s)
  BY <1>5 DEF Behind
<1> HIDE DEF here
<1>8. here \in Nat
  BY <1>5, <1>7
<1>9. \A j \in 1 .. Len(t) : here + j <= m => data[here + j] = t[j]
  <2> TAKE j \in 1 .. Len(t)
  <2> HAVE here + j <= m
  <2>1. here + j \in 1..m
    BY <1>5, <1>8
  <2>2. w[here + j] = t[j]
    BY <1>3 DEF Holds
  <2> QED BY <1>6, <2>1, <2>2
<1>10. ASSUME Len(u) <= m PROVE Holds(data, here, t) /\ Len(s) <= m
  <2>1. here + Len(t) <= m /\ Len(s) <= m
    BY <1>5, <1>7, <1>10
  <2>2. \A j \in 1 .. Len(t) : here + j <= m
    BY <1>5, <1>8, <2>1
  <2> QED BY <1>6, <1>9, <2>1, <2>2 DEF Holds
<1>11. ASSUME ~(Len(u) <= m) PROVE EndsInside(data, here, t)
  <2>1. m < here + Len(t)
    BY <1>5, <1>7, <1>11
  <2> QED BY <1>6, <1>9, <2>1 DEF EndsInside
<1> QED BY <1>8, <1>10, <1>11 DEF s, t, u, here

(* Whatever the values of its members, which are fixed ones and texts, an   *)
(* object that lost its end is refused: deserialize... throws.              *)
THEOREM CutIsRefused ==
  ASSUME NEW fields, NEW o, ObjectFits(fields, o), \A i \in 1 .. Len(fields) : FlatField(fields[i]),
         NEW m \in Nat, NEW data, CutTo(data, Serialize(fields, o), m),
         NEW got, Members(got)
  PROVE  Deserialize(fields, data, Reader(0, got)).ok = FALSE
<1> DEFINE n == Len(fields)
           p == FieldParts(fields, o)
           r == Reader(0, got)
<1>1. n \in Nat /\ \A i \in 1..n : Seqs(p[i])
  BY FieldPartsSeqs
<1>2. PICK g : Run(g, Empty, p, n) /\ Serialize(fields, o) = g[n]
  BY <1>1, SerializeRun
<1>3. GoodRun(g, Empty, p, n)
  BY <1>1, <1>2, NoBytes DEF GoodRun
<1>4. PICK h : /\ h[0] = r
               /\ \A i \in 1..n : h[i] = ReadField(data, h[i - 1], fields[i])
               /\ Deserialize(fields, data, r) = h[n]
  BY <1>1, DeserializeTurns
<1> DEFINE e == Walk(0, got, fields, o, g, n)
           At(i) == IF Len(g[i]) <= m THEN h[i] = e[i] ELSE \E a, b : h[i] = Refused(a, b)
           S == {i \in 0..n : At(i)}
<1>5. /\ \A i \in 1..n : p[i] = WriteField(fields[i], o[fields[i].name]) /\ Fits(fields[i], o[fields[i].name])
      /\ \A i \in 1..n : FlatField(fields[i])
  BY DEF FieldParts, ObjectFits
<1>6. CutTo(data, g[n], m) /\ Seqs(data)
  BY <1>2 DEF CutTo
<1> HIDE DEF n, p, e
<1>7. 0 \in S
  <2>1. \A at : at = 0 => at \in Nat
    OBVIOUS
  <2>2. ASSUME NEW at, at = 0 PROVE Walk(at, got, fields, o, g, n)[0] = Reader(at, got)
    BY ONLY <1>1, <1>3, <2>1, <2>2, WalkStart, Members(got)
  <2>3. e[0] = r
    BY <2>2 DEF e
  <2>4. Len(g[0]) = 0
    <3>1. g[0] = Empty
      BY <1>1, <1>2 DEF Run
    <3> QED BY <3>1, NoBytes
  <2> QED BY <1>1, <1>4, <2>3, <2>4
<1>8. ASSUME NEW i \in 1..n, i - 1 \in S PROVE i \in S
  <2> DEFINE here == Behind(0, g[i - 1])
             before == Gathered(got, fields, o, i - 1)
             val == o[fields[i].name]
             field == fields[i]
  <2>1. /\ here \in Nat /\ e[i - 1] = Reader(here, before)
        /\ e[i] = Reader(Behind(here, p[i]), With(before, field.name, val))
    <3>1. \A at : at = 0 => at \in Nat
      OBVIOUS
    <3>2. ASSUME NEW at, at = 0 PROVE WalkTurn(at, got, fields, o, g, p, n, i)
      BY ONLY <1>1, <1>3, <1>8, <3>1, <3>2, WalkStep
    <3> QED BY ONLY <3>2, Zenon DEF WalkTurn, e
  <2>2. At(i - 1) /\ h[i] = ReadField(data, h[i - 1], field)
    BY <1>4, <1>8
  <2>3. Fits(field, val) /\ p[i] = WriteField(field, val) /\ FlatField(field) /\ FlatFits(field, val)
    BY <1>5, <1>8 DEF Fits, FlatField, ListField
  <2>4. /\ Len(g[i]) <= m => Holds(data, here, p[i]) /\ Len(g[i - 1]) <= m
        /\ ~(Len(g[i]) <= m) => EndsInside(data, here, p[i])
    BY ONLY <1>1, <1>3, <1>6, <1>8, CutTurn, m \in Nat
  <2> HIDE DEF here, before, val, field
  <2>5. CASE Len(g[i]) <= m
    <3>1. h[i - 1] = Reader(here, before) /\ Holds(data, here, WriteField(field, val))
      BY <2>1, <2>2, <2>3, <2>4, <2>5, Zenon
    <3>2. ReadField(data, Reader(here, before), field)
            = Reader(Behind(here, WriteField(field, val)), With(before, field.name, val))
      BY ONLY <1>6, <2>1, <2>3, <3>1, ReadFieldHeld
    <3>3. h[i] = e[i]
      BY ONLY <2>1, <2>2, <2>3, <3>1, <3>2, Zenon
    <3> QED BY <1>8, <2>5, <3>3
  <2>6. CASE ~(Len(g[i]) <= m)
    <3>1. \E a, b : h[i] = Refused(a, b)
      <4>1. CASE Len(g[i - 1]) <= m
        <5>1. h[i - 1] = Reader(here, before) /\ EndsInside(data, here, WriteField(field, val))
          BY <2>1, <2>2, <2>3, <2>4, <2>6, <4>1, Zenon
        <5>2. \E a, b : ReadField(data, Reader(here, before), field) = Refused(a, b)
          BY ONLY <1>6, <2>1, <2>3, <5>1, ReadCut
        <5> QED BY ONLY <2>2, <5>1, <5>2, Zenon
      <4>2. CASE ~(Len(g[i - 1]) <= m)
        <5>1. PICK a, b : h[i - 1] = Refused(a, b)
          BY <2>2, <4>2, Zenon
        <5>2. ReadField(data, Refused(a, b), field) = Refused(a, b)
          BY ONLY <2>3, ReadRefused
        <5> QED BY ONLY <2>2, <5>1, <5>2, Zenon
      <4> QED BY <4>1, <4>2
    <3> QED BY <1>8, <2>6, <3>1
  <2> QED BY <2>5, <2>6
<1>9. \A i \in 0..n : i \in S
  <2> HIDE DEF S
  <2> QED BY <1>1, <1>7, <1>8, UpTo
<1>10. ~(Len(g[n]) <= m)
  BY <1>1, <1>3, <1>6, RunEnd DEF CutTo
<1>11. PICK a, b : h[n] = Refused(a, b)
  <2>1. At(n)
    BY <1>1, <1>9
  <2> QED BY <1>10, <2>1, Zenon
<1>12. Refused(a, b).ok = FALSE
  BY RefusedFields
<1> QED BY <1>4, <1>11, <1>12, Zenon DEF n

-----------------------------------------------------------------------------
(* An object whose fields are those of A and then those of B.               *)

LEMMA FitsBoth ==
  ASSUME NEW A, NEW B, Seqs(A), Seqs(B), NEW o, ObjectFits(Cat(A, B), o)
  PROVE  ObjectFits(A, o) /\ ObjectFits(B, o)
<1> DEFINE C == Cat(A, B)
           n == Len(A)
           m == Len(B)
<1>1. /\ n \in Nat /\ m \in Nat /\ Len(C) = n + m
      /\ (\A i \in 1..n : C[i] = A[i]) /\ \A i \in 1..m : C[n + i] = B[i]
  BY SeqsHave, SeqsCat
<1>2. \A i \in 1 .. Len(C) : Fits(C[i], o[C[i].name])
  BY DEF ObjectFits
<1> HIDE DEF C
<1>3. ASSUME NEW i \in 1..n PROVE Fits(A[i], o[A[i].name])
  <2>1. i \in 1 .. Len(C) /\ C[i] = A[i]
    BY <1>1
  <2> QED BY <1>2, <2>1
<1>4. ASSUME NEW i \in 1..m PROVE Fits(B[i], o[B[i].name])
  <2>1. n + i \in 1 .. Len(C) /\ C[n + i] = B[i]
    BY <1>1
  <2> QED BY <1>2, <2>1
<1> QED BY <1>3, <1>4 DEF ObjectFits

\* Two runs that start alike and add the same parts have written the same.
LEMMA RunBehind ==
  ASSUME NEW n \in Nat, NEW m \in Nat, NEW k \in Nat, n + m <= k,
         NEW p, NEW g, GoodRun(g, Empty, p, k), NEW q, NEW h, GoodRun(h, Empty, q, m),
         \A i \in 1..m : q[i] = p[n + i]
  PROVE  g[n + m] = Cat(g[n], h[m])
<1> DEFINE S == {i \in 0..m : g[n + i] = Cat(g[n], h[i])}
<1>1. /\ \A i \in 1..m : h[i] = Cat(h[i - 1], q[i]) /\ Seqs(q[i])
      /\ \A i \in 1..k : g[i] = Cat(g[i - 1], p[i])
      /\ h[0] = Empty
  BY DEF GoodRun, Run
<1>2. Seqs(g[n]) /\ \A i \in 0..m : Seqs(h[i])
  BY RunSeqs
<1>3. 0 \in S
  <2>1. Cat(g[n], <<>>) = g[n]
    BY <1>2, SeqsCatEmpty
  <2> QED BY <1>1, <2>1 DEF Empty
<1>4. ASSUME NEW i \in 1..m, i - 1 \in S PROVE i \in S
  <2>1. n + i \in 1..k /\ n + (i - 1) = (n + i) - 1 /\ i - 1 \in 0..m
    OBVIOUS
  <2>2. g[n + i] = Cat(g[n + (i - 1)], p[n + i]) /\ g[n + (i - 1)] = Cat(g[n], h[i - 1])
    BY <1>1, <1>4, <2>1
  <2>3. q[i] = p[n + i] /\ h[i] = Cat(h[i - 1], q[i]) /\ Seqs(q[i]) /\ Seqs(h[i - 1])
    BY <1>1, <1>2, <2>1
  <2>4. Cat(Cat(g[n], h[i - 1]), q[i]) = Cat(g[n], Cat(h[i - 1], q[i]))
    BY ONLY <1>2, <2>3, SeqsCatAssoc
  <2>5. g[n + i] = Cat(g[n], h[i])
    BY ONLY <2>2, <2>3, <2>4, Zenon
  <2> QED BY <2>5
<1>5. \A i \in 0..m : i \in S
  <2> HIDE DEF S
  <2> QED BY <1>3, <1>4, UpTo
<1>6. m \in S
  BY <1>5
<1> QED BY <1>6

LEMMA SerializeCat ==
  ASSUME NEW A, NEW B, Seqs(A), Seqs(B), NEW o, ObjectFits(Cat(A, B), o)
  PROVE  Serialize(Cat(A, B), o) = Cat(Serialize(A, o), Serialize(B, o))
<1> DEFINE C == Cat(A, B)
           n == Len(A)
           m == Len(B)
           p == FieldParts(C, o)
           q == FieldParts(A, o)
           r == FieldParts(B, o)
<1>1. /\ n \in Nat /\ m \in Nat /\ Len(C) = n + m
      /\ (\A i \in 1..n : C[i] = A[i]) /\ \A i \in 1..m : C[n + i] = B[i]
  BY SeqsHave, SeqsCat
<1>2. ObjectFits(A, o) /\ ObjectFits(B, o)
  BY FitsBoth
<1>3. /\ \A i \in 1 .. n + m : Seqs(p[i])
      /\ (\A i \in 1..n : Seqs(q[i])) /\ \A i \in 1..m : Seqs(r[i])
  BY <1>1, <1>2, FieldPartsSeqs
<1>4. PICK g : Run(g, Empty, p, n + m) /\ Serialize(C, o) = g[n + m]
  <2>1. Len(C) \in Nat
    BY <1>1
  <2> QED BY <1>1, <2>1, SerializeRun
<1>5. PICK e : Run(e, Empty, q, n) /\ Serialize(A, o) = e[n]
  BY <1>1, SerializeRun
<1>6. PICK h : Run(h, Empty, r, m) /\ Serialize(B, o) = h[m]
  BY <1>1, SerializeRun
<1>7. ASSUME NEW i \in 1..n PROVE q[i] = p[0 + i]
  <2>1. C[i] = A[i] /\ i \in 1 .. Len(C) /\ 0 + i = i
    BY <1>1
  <2> QED BY <2>1 DEF FieldParts
<1>8. ASSUME NEW i \in 1..m PROVE r[i] = p[n + i]
  <2>1. C[n + i] = B[i] /\ n + i \in 1 .. Len(C)
    BY <1>1
  <2> QED BY <2>1 DEF FieldParts
<1> HIDE DEF C, n, m, p, q, r
<1>9. /\ GoodRun(g, Empty, p, n + m) /\ GoodRun(e, Empty, q, n) /\ GoodRun(h, Empty, r, m)
      /\ n + m \in Nat /\ n + m <= n + m /\ 0 + n <= n + m
  BY <1>1, <1>3, <1>4, <1>5, <1>6, NoBytes DEF GoodRun
<1>10. g[n + m] = Cat(g[n], h[m])
  BY ONLY <1>1, <1>8, <1>9, RunBehind
<1>11. g[n] = e[n]
  <2>1. ASSUME NEW z, z = 0 PROVE g[z + n] = Cat(g[z], e[n])
    <3>1. z \in Nat /\ z + n <= n + m /\ \A i \in 1..n : q[i] = p[z + i]
      BY <1>7, <1>9, <2>1
    <3> QED BY ONLY <1>1, <1>9, <3>1, RunBehind
  <2>2. g[0] = <<>>
    BY <1>1, <1>9, <1>4 DEF Run, Empty
  <2>3. Seqs(e[n])
    BY <1>1, <1>9, RunEnd
  <2>4. g[0 + n] = Cat(<<>>, e[n])
    BY ONLY <2>1, <2>2
  <2>5. 0 + n = n
    BY <1>1
  <2> QED BY ONLY <2>3, <2>4, <2>5, SeqsCatEmpty
<1> QED BY <1>4, <1>5, <1>6, <1>10, <1>11, Zenon DEF C

\* The members of A are read before those of B.
LEMMA GatheredAll ==
  ASSUME NEW L, Seqs(L), NEW o, NEW got, NEW all, all = Gathered(got, L, o, Len(L))
  PROVE  DOMAIN all = DOMAIN got \cup Names(L) /\ Members(all)
<1>1. {L[j].name : j \in 1 .. Len(L)} = Names(L)
  BY SeqsHave DEF Names
<1>2. all = [name \in DOMAIN got \cup Names(L) |-> IF name \in Names(L) THEN o[name] ELSE got[name]]
  BY <1>1, Zenon DEF Gathered
<1> HIDE DEF Names
<1> QED BY <1>2 DEF Members

LEMMA GatheredEach ==
  ASSUME NEW L, Seqs(L), NEW o, NEW got, NEW all, all = Gathered(got, L, o, Len(L)), NEW name
  PROVE  /\ name \in Names(L) => all[name] = o[name]
         /\ name \in DOMAIN got \ Names(L) => all[name] = got[name]
<1>1. {L[j].name : j \in 1 .. Len(L)} = Names(L)
  BY SeqsHave DEF Names
<1>2. all = [n \in DOMAIN got \cup Names(L) |-> IF n \in Names(L) THEN o[n] ELSE got[n]]
  BY <1>1, Zenon DEF Gathered
<1> HIDE DEF Names
<1> QED BY <1>2

\* An object has the members of its fields, and no others.
LEMMA GatheredSame ==
  ASSUME NEW f, NEW o, NEW got, Members(got), DOMAIN got = Names(Fields(f)), Typed(f, o),
         \A name \in Names(Fields(f)) : got[name] = o[name]
  PROVE  got = o
<1> DEFINE D == Names(Fields(f))
<1>1. got = [name \in D |-> got[name]] /\ o = [name \in D |-> o[name]]
  BY DEF Members, Typed
<1> HIDE DEF D
<1>2. [name \in D |-> got[name]] = [name \in D |-> o[name]]
  <2>1. \A name \in D : got[name] = o[name]
    BY DEF D
  <2> QED BY ONLY <2>1
<1> QED BY ONLY <1>1, <1>2

-----------------------------------------------------------------------------
(* What every object of the vault is read as.                               *)

\* Read without an error, as o.
ReadAs(r, o) == r.ok /\ r.got = o

LEMMA StartReader == Start(0) = Reader(0, Empty)
  BY DEF Start, Reader, Empty

\* An object whose bytes are the whole buffer.
LEMMA WholeHeld ==
  ASSUME NEW s, Seqs(s)
  PROVE  Holds(s, 0, s)
  BY SeqsHave DEF Holds

LEMMA ReadFrom ==
  ASSUME NEW L, NEW o, ObjectFits(L, o), NEW data, Seqs(data), NEW at, at = 0, Holds(data, at, Serialize(L, o))
  PROVE  Deserialize(L, data, Start(0)) = Reader(Behind(at, Serialize(L, o)), Gathered(Empty, L, o, Len(L)))
<1>1. at \in Nat /\ Members(Empty)
  BY NoBytes
<1>2. Start(0) = Reader(at, Empty)
  BY StartReader
<1>3. Deserialize(L, data, Reader(at, Empty))
        = Reader(Behind(at, Serialize(L, o)), Gathered(Empty, L, o, Len(L)))
  BY ONLY <1>1, WrittenIsRead, ObjectFits(L, o), Seqs(data), Holds(data, at, Serialize(L, o))
<1> QED BY <1>2, <1>3, Zenon

LEMMA ReadWhole ==
  ASSUME NEW f \in Formats, NEW o, Typed(f, o)
  PROVE  ReadAs(Deserialize(Fields(f), Serialize(Fields(f), o), Start(0)), o)
<1> DEFINE L == Fields(f)
           data == Serialize(L, o)
           got == Gathered(Empty, L, o, Len(L))
<1>1. ObjectFits(L, o) /\ Seqs(data) /\ Seqs(L)
  BY TypedFits, ObjectSeqs, FormatSound DEF Sound
<1>2. Deserialize(L, data, Start(0)) = Reader(Behind(0, data), got)
  <2>1. Holds(data, 0, data)
    BY <1>1, WholeHeld
  <2> HIDE DEF L
  <2> QED BY <1>1, <2>1, ReadFrom
<1>3. DOMAIN got = Names(L) /\ Members(got) /\ \A name \in Names(L) : got[name] = o[name]
  <2> HIDE DEF L
  <2>1. got = Gathered(Empty, L, o, Len(L))
    OBVIOUS
  <2> HIDE DEF got
  <2>2. DOMAIN got = DOMAIN Empty \cup Names(L) /\ Members(got)
    BY ONLY <1>1, <2>1, GatheredAll
  <2>3. \A name \in Names(L) : got[name] = o[name]
    BY ONLY <1>1, <2>1, GatheredEach
  <2> QED BY <2>2, <2>3, NoBytes
<1>4. got = o
  <2> HIDE DEF got
  <2> QED BY <1>3, GatheredSame
<1> QED BY <1>2, <1>4, ReaderFields DEF ReadAs

\* An object that is read in two steps: its head, and what the head's tag says.
LEMMA ReadTwice ==
  ASSUME NEW f \in Formats, NEW o, Typed(f, o), NEW A, NEW B, Seqs(A), Seqs(B), Fields(f) = Cat(A, B),
         Names(Fields(f)) = Names(A) \cup Names(B), Names(A) \cap Names(B) = {},
         "type" \in Names(A)
  PROVE  LET data == Serialize(Fields(f), o)
             head == Deserialize(A, data, Start(0))
         IN  head.ok /\ head.got["type"] = o["type"] /\ ReadAs(Deserialize(B, data, head), o)
<1> DEFINE data == Serialize(Fields(f), o)
           a == Serialize(A, o)
           b == Serialize(B, o)
           first == Gathered(Empty, A, o, Len(A))
           got == Gathered(first, B, o, Len(B))
<1>1. ObjectFits(Cat(A, B), o)
  BY TypedFits
<1>2. ObjectFits(A, o) /\ ObjectFits(B, o) /\ data = Cat(a, b)
  BY <1>1, FitsBoth, SerializeCat
<1>3. Seqs(a) /\ Seqs(b) /\ Seqs(data)
  BY <1>1, <1>2, ObjectSeqs
<1>4. Holds(data, 0, Cat(a, b))
  BY <1>2, <1>3, WholeHeld
<1>5. Holds(data, 0, a) /\ Holds(data, Behind(0, a), b) /\ Behind(0, a) \in Nat
  <2> HIDE DEF a, b, data
  <2>1. ASSUME NEW z, z = 0 PROVE Holds(data, z, a) /\ Holds(data, Behind(z, a), b) /\ Behind(z, a) \in Nat
    <3>1. z \in Nat /\ Holds(data, z, Cat(a, b))
      BY <1>4, <2>1
    <3> QED BY ONLY <1>3, <3>1, HoldsParts, BehindNat
  <2> QED BY <2>1
<1>6. Deserialize(A, data, Start(0)) = Reader(Behind(0, a), first)
  <2> HIDE DEF data
  <2> QED BY <1>2, <1>3, <1>5, ReadFrom
<1>7. /\ DOMAIN first = Names(A) /\ Members(first)
      /\ \A name \in Names(A) : first[name] = o[name]
  <2>1. first = Gathered(Empty, A, o, Len(A))
    OBVIOUS
  <2> HIDE DEF first
  <2>2. DOMAIN first = DOMAIN Empty \cup Names(A) /\ Members(first)
    BY ONLY <2>1, GatheredAll, Seqs(A)
  <2>3. \A name \in Names(A) : first[name] = o[name]
    BY ONLY <2>1, GatheredEach, Seqs(A)
  <2> QED BY <2>2, <2>3, NoBytes
<1> HIDE DEF a, data, first
<1>8. Deserialize(B, data, Reader(Behind(0, a), first)) = Reader(Behind(Behind(0, a), b), got)
  BY <1>2, <1>3, <1>5, <1>7, WrittenIsRead
<1>9. /\ DOMAIN got = DOMAIN first \cup Names(B) /\ Members(got)
      /\ \A name \in Names(B) : got[name] = o[name]
      /\ \A name \in DOMAIN first \ Names(B) : got[name] = first[name]
  <2>1. got = Gathered(first, B, o, Len(B))
    OBVIOUS
  <2> HIDE DEF got
  <2>2. DOMAIN got = DOMAIN first \cup Names(B) /\ Members(got)
    BY ONLY <2>1, GatheredAll, Seqs(B)
  <2>3. \A name : /\ name \in Names(B) => got[name] = o[name]
                  /\ name \in DOMAIN first \ Names(B) => got[name] = first[name]
    BY ONLY <2>1, GatheredEach, Seqs(B)
  <2> QED BY <2>2, <2>3
<1> HIDE DEF got
<1>10. got = o
  <2>1. \A name \in Names(Fields(f)) : got[name] = o[name]
    BY <1>7, <1>9
  <2>2. DOMAIN got = Names(Fields(f))
    BY <1>7, <1>9
  <2> QED BY <1>9, <2>1, <2>2, GatheredSame
<1>11. LET head == Reader(Behind(0, a), first)
       IN  head.ok /\ head.got["type"] = o["type"]
  BY <1>7, ReaderFields
<1>12. ReadAs(Reader(Behind(Behind(0, a), b), got), o)
  BY <1>10, ReaderFields DEF ReadAs
<1> QED BY <1>6, <1>8, <1>11, <1>12 DEF data

\* The tag of an object.
LEMMA TypedTag ==
  ASSUME NEW f \in Formats, NEW o, Typed(f, o), NEW name \in Tags, name \in Names(Fields(f))
  PROVE  o[name] = TagOf(f)
<1>1. PICK i \in DOMAIN Fields(f) : Fields(f)[i].name = name
  BY DEF Names
<1>2. DOMAIN Fields(f) = 1 .. Len(Fields(f))
  BY FormatSound, SeqsHave DEF Sound
<1> QED BY <1>1, <1>2 DEF Typed, Member

LEMMA EntryBack ==
  ASSUME NEW f \in Entries, NEW o, Typed(f, o)
  PROVE  /\ SerializeEntry(o) = Serialize(Fields(f), o)
         /\ ReadAs(DeserializeEntry(Serialize(Fields(f), o)), o)
<1> DEFINE t == TagOf(f)
           data == Serialize(Fields(f), o)
           head == Deserialize(EntryHead, data, Start(0))
<1>1. f \in Formats
  BY DEF Formats, Encrypted, Records
<1>2. t \in {Login, Card, Identity, Note}
  BY TagsAre DEF Entries
<1> HIDE DEF t
<1>3. Fields(f) = EntryWritten(t) /\ EntryWritten(t) = Cat(EntryHead, EntryDataRead(t))
  BY <1>1, <1>2, FieldsAre, EntrySame DEF t
<1>4. /\ Seqs(EntryHead) /\ Seqs(EntryDataRead(t)) /\ "type" \in Names(EntryHead)
      /\ Names(EntryWritten(t)) = Names(EntryHead) \cup Names(EntryDataRead(t))
      /\ Names(EntryHead) \cap Names(EntryDataRead(t)) = {}
  BY <1>2, EntrySound DEF Sound
<1>5. head.ok /\ head.got["type"] = o["type"] /\ ReadAs(Deserialize(EntryDataRead(t), data, head), o)
  BY <1>1, <1>3, <1>4, ReadTwice
<1>6. o["type"] = t
  BY <1>1, <1>3, <1>4, TypedTag DEF Tags, t
<1>7. DeserializeEntry(data) = Deserialize(EntryDataRead(t), data, head)
  <2>1. DeserializeEntry(data) = DeserializeEntryData(data, head)
    BY EntryHeadSame, Zenon DEF DeserializeEntry
  <2> HIDE DEF head
  <2>2. DeserializeEntryData(data, head) = Deserialize(EntryDataRead(t), data, head)
    BY <1>5, <1>6, Zenon DEF DeserializeEntryData
  <2> QED BY <2>1, <2>2, Zenon
<1>8. SerializeEntry(o) = data
  BY <1>3, <1>6, Zenon DEF SerializeEntry
<1> QED BY <1>5, <1>7, <1>8, Zenon

LEMMA IndexBack ==
  ASSUME NEW f \in IndexEntries, NEW o, Typed(f, o)
  PROVE  /\ SerializeIndexEntry(o) = Serialize(Fields(f), o)
         /\ ReadAs(DeserializeIndexEntry(Serialize(Fields(f), o)), o)
<1> DEFINE t == TagOf(f)
           data == Serialize(Fields(f), o)
           head == Deserialize(IndexHead, data, Start(0))
<1>1. f \in Formats
  BY DEF Formats, Encrypted, Records
<1>2. t \in {EntryIndex, FolderIndex}
  BY TagsAre DEF IndexEntries
<1> HIDE DEF t
<1>3. Fields(f) = Cat(IndexHead, IndexPayloadWritten(t)) /\ IndexPayloadRead(t) = IndexPayloadWritten(t)
  BY <1>1, <1>2, FieldsAre, IndexSame DEF t
<1>4. /\ Seqs(IndexHead) /\ Seqs(IndexPayloadWritten(t)) /\ "type" \in Names(IndexHead)
      /\ Names(Cat(IndexHead, IndexPayloadWritten(t))) = Names(IndexHead) \cup Names(IndexPayloadWritten(t))
      /\ Names(IndexHead) \cap Names(IndexPayloadWritten(t)) = {}
  BY <1>2, IndexSound DEF Sound
<1>5. head.ok /\ head.got["type"] = o["type"] /\ ReadAs(Deserialize(IndexPayloadWritten(t), data, head), o)
  BY <1>1, <1>3, <1>4, ReadTwice
<1>6. o["type"] = t
  BY <1>1, <1>3, <1>4, TypedTag DEF Tags, t
<1>7. DeserializeIndexEntry(data) = Deserialize(IndexPayloadWritten(t), data, head)
  <2>1. DeserializeIndexEntry(data) = DeserializeIndexPayload(data, head)
    BY IndexHeadSame, Zenon DEF DeserializeIndexEntry
  <2> HIDE DEF head
  <2>2. DeserializeIndexPayload(data, head) = Deserialize(IndexPayloadRead(t), data, head)
    BY <1>5, <1>6, Zenon DEF DeserializeIndexPayload
  <2> QED BY <1>3, <2>1, <2>2, Zenon
<1>8. SerializeIndexEntry(o) = data
  <2>1. SerializeIndexEntry(o) = Serialize(Cat(IndexHead, IndexPayloadWritten(t)), o)
    BY <1>6, Zenon DEF SerializeIndexEntry, Cat
  <2> QED BY <1>3, <2>1, Zenon
<1> QED BY <1>5, <1>7, <1>8, Zenon

-----------------------------------------------------------------------------
(* Blobs: what the compressor leaves, sealed, with what opens it again.     *)

BlobOf(packed, plain, nonce) ==
  [compressionType |-> packed.type, originalSize |-> Count(Len(plain), 4),
   nonce |-> nonce, ciphertext |-> Sealed(packed.data, nonce)]

\* What is encoded is short enough for every count to say.
Encodable(plain) == Seqs(plain) /\ Len(plain) <= 22 * Chunk

LEMMA ChunksSmall ==
  ASSUME NEW k \in Nat, k <= 22 * Chunk
  PROVE  k < Limit(4) /\ k + 16 < Limit(4)
  BY SMT DEF Chunk, Limit

LEMMA OneIsSmall == 1 <= 22 * Chunk
  BY SMT DEF Chunk

\* A compressor leaves the bytes as they are, or one byte that stands for them.
PackedFrom(packed, plain) ==
  \/ packed = [type |-> None, data |-> plain]
  \/ /\ 1 < Len(plain)
     /\ \E type \in {LZ4, Zstd} : packed = [type |-> type, data |-> Packed(type, plain, 1)]

LEMMA CompressedFrom ==
  ASSUME NEW plain, Encodable(plain), NEW size \in {1, Len(plain)}
  PROVE  PackedFrom(Compress(plain, size), plain)
<1>1. Len(plain) \in Nat
  BY SeqsHave DEF Encodable
<1>2. ASSUME NEW type \in {LZ4, Zstd} PROVE PackedFrom(Compressed(type, plain, size), plain)
  <2>1. CASE size >= Len(plain)
    BY <2>1 DEF Compressed, PackedFrom
  <2>2. CASE ~(size >= Len(plain))
    <3>1. size = 1 /\ 1 < Len(plain)
      BY <1>1, <2>2
    <3> QED BY <2>2, <3>1 DEF Compressed, PackedFrom
  <2> QED BY <2>1, <2>2
<1>3. PackedFrom([type |-> None, data |-> plain], plain)
  BY DEF PackedFrom
<1> QED BY <1>2, <1>3, Zenon DEF Compress

LEMMA PackedHas ==
  ASSUME NEW plain, Encodable(plain), NEW packed, PackedFrom(packed, plain)
  PROVE  /\ Seqs(packed.type) /\ Len(packed.type) = 1
         /\ Seqs(packed.data) /\ Len(packed.data) \in Nat /\ Len(packed.data) <= 22 * Chunk
<1>1. Len(plain) \in Nat /\ Seqs(plain) /\ Len(plain) <= 22 * Chunk
  BY SeqsHave DEF Encodable
<1>2. ASSUME NEW type \in {None, LZ4, Zstd} PROVE Seqs(type) /\ Len(type) = 1
  BY <1>2 DEF None, LZ4, Zstd, Seqs
<1>3. ASSUME NEW type PROVE Seqs(Packed(type, plain, 1)) /\ Len(Packed(type, plain, 1)) = 1
  <2>1. ASSUME NEW n, n = 1 PROVE Seqs(Packed(type, plain, n)) /\ Len(Packed(type, plain, n)) = n
    BY <2>1, SeqsMade DEF Packed
  <2> QED BY <2>1
<1>4. CASE packed = [type |-> None, data |-> plain]
  BY <1>1, <1>2, <1>4
<1>5. ASSUME 1 < Len(plain), NEW type \in {LZ4, Zstd}, packed = [type |-> type, data |-> Packed(type, plain, 1)]
      PROVE  /\ Seqs(packed.type) /\ Len(packed.type) = 1
             /\ Seqs(packed.data) /\ Len(packed.data) \in Nat /\ Len(packed.data) <= 22 * Chunk
  <2>1. packed.type = type /\ packed.data = Packed(type, plain, 1)
    BY <1>5
  <2>2. Seqs(Packed(type, plain, 1)) /\ Len(Packed(type, plain, 1)) = 1
    BY <1>3
  <2>3. Seqs(type) /\ Len(type) = 1
    BY <1>2
  <2>4. \A x : x = 1 => x \in Nat /\ x <= 22 * Chunk
    BY OneIsSmall
  <2> QED BY <2>1, <2>2, <2>3, <2>4, Zenon
<1> QED BY <1>4, <1>5 DEF PackedFrom

LEMMA SealedHas ==
  ASSUME NEW plain, Len(plain) \in Nat, NEW nonce
  PROVE  Seqs(Sealed(plain, nonce)) /\ Len(Sealed(plain, nonce)) = Len(plain) + 16
<1> DEFINE n == Len(plain) + 16
           s == Sealed(plain, nonce)
<1>1. n \in Nat /\ s = [i \in 1..n |-> s[i]]
  BY DEF Sealed, MAC_SIZE
<1> HIDE DEF s, n
<1>2. Seqs(s) /\ Len(s) = n
  BY <1>1, SeqsMade
<1> QED BY <1>2 DEF s, n

LEMMA NonceHas ==
  ASSUME NEW nonce \in Nonces
  PROVE  Seqs(nonce) /\ Len(nonce) = 12
<1>1. PICK b \in Bits : nonce = [i \in 1..12 |-> b]
  BY DEF Nonces
<1>2. nonce = [i \in 1..12 |-> nonce[i]]
  BY <1>1
<1> QED BY <1>2, SeqsMade

LEMMA BlobFields ==
  ASSUME NEW packed, NEW plain, NEW nonce
  PROVE  LET o == BlobOf(packed, plain, nonce)
         IN  /\ o["compressionType"] = packed.type /\ o["originalSize"] = Count(Len(plain), 4)
             /\ o["nonce"] = nonce /\ o["ciphertext"] = Sealed(packed.data, nonce)
  BY DEF BlobOf

LEMMA BlobList ==
  /\ BlobWritten[1] = Fixed("compressionType", 1) /\ BlobWritten[2] = Fixed("originalSize", 4)
  /\ BlobWritten[3] = Fixed("nonce", 12) /\ BlobWritten[4] = Text("ciphertext")
  BY DEF BlobWritten

LEMMA BlobFits ==
  ASSUME NEW plain, Encodable(plain), NEW packed, PackedFrom(packed, plain), NEW nonce \in Nonces
  PROVE  ObjectFits(BlobWritten, BlobOf(packed, plain, nonce))
<1> DEFINE o == BlobOf(packed, plain, nonce)
           L == BlobWritten
<1>1. Seqs(L) /\ Len(L) = 4
  BY BlobSound DEF Sound
<1>2. /\ o["compressionType"] = packed.type /\ o["originalSize"] = Count(Len(plain), 4)
      /\ o["nonce"] = nonce /\ o["ciphertext"] = Sealed(packed.data, nonce)
  BY BlobFields
<1>3. /\ Seqs(packed.type) /\ Len(packed.type) = 1
      /\ Len(packed.data) \in Nat /\ Len(packed.data) <= 22 * Chunk
  BY PackedHas
<1>4. Seqs(Count(Len(plain), 4)) /\ Len(Count(Len(plain), 4)) = 4
  BY CountSeqs
<1>5. Seqs(nonce) /\ Len(nonce) = 12
  BY NonceHas
<1>6. Seqs(Sealed(packed.data, nonce)) /\ Len(Sealed(packed.data, nonce)) < Limit(4)
  <2>1. Seqs(Sealed(packed.data, nonce)) /\ Len(Sealed(packed.data, nonce)) = Len(packed.data) + 16
    BY <1>3, SealedHas
  <2> QED BY <1>3, <2>1, ChunksSmall
<1> HIDE DEF o
<1>7. FlatFits(L[1], o[L[1].name]) /\ FlatField(L[1])
  <2>1. L[1] = Fixed("compressionType", 1)
    BY BlobList
  <2>2. L[1].form = "fixed" /\ L[1].width = 1 /\ L[1].name = "compressionType" /\ FlatField(L[1])
    BY <2>1, FixedField
  <2> HIDE DEF L
  <2> QED BY <1>2, <1>3, <2>2 DEF FlatFits
<1>8. FlatFits(L[2], o[L[2].name]) /\ FlatField(L[2])
  <2>1. L[2] = Fixed("originalSize", 4)
    BY BlobList
  <2>2. L[2].form = "fixed" /\ L[2].width = 4 /\ L[2].name = "originalSize" /\ FlatField(L[2])
    BY <2>1, FixedField
  <2> HIDE DEF L
  <2> QED BY <1>2, <1>4, <2>2 DEF FlatFits
<1>9. FlatFits(L[3], o[L[3].name]) /\ FlatField(L[3])
  <2>1. L[3] = Fixed("nonce", 12)
    BY BlobList
  <2>2. L[3].form = "fixed" /\ L[3].width = 12 /\ L[3].name = "nonce" /\ FlatField(L[3])
    BY <2>1, FixedField
  <2> HIDE DEF L
  <2> QED BY <1>2, <1>5, <2>2 DEF FlatFits
<1>10. FlatFits(L[4], o[L[4].name]) /\ FlatField(L[4])
  <2>1. L[4] = Text("ciphertext")
    BY BlobList
  <2>2. L[4].form = "text" /\ L[4].name = "ciphertext" /\ FlatField(L[4])
    BY <2>1, TextField
  <2> HIDE DEF L
  <2> QED BY <1>2, <1>6, <2>2 DEF FlatFits
<1> HIDE DEF L
<1>11. \A i \in 1..4 : Fits(L[i], o[L[i].name])
  BY <1>7, <1>8, <1>9, <1>10 DEF Fits
<1> QED BY <1>1, <1>11 DEF ObjectFits, L, o

LEMMA BlobIs ==
  ASSUME NEW packed, NEW plain, NEW nonce
  PROVE  Blob(packed, plain, nonce) = Serialize(BlobWritten, BlobOf(packed, plain, nonce))
  BY Zenon DEF Blob, BlobOf

\* The members that a blob is opened with.
LEMMA BlobBack ==
  ASSUME NEW plain, Encodable(plain), NEW packed, PackedFrom(packed, plain), NEW nonce \in Nonces
  PROVE  LET blob == Deserialize(BlobRead, Blob(packed, plain, nonce), Start(0))
         IN  /\ blob.ok /\ blob.got["compressionType"] = packed.type
             /\ blob.got["originalSize"] = Count(Len(plain), 4)
             /\ blob.got["nonce"] = nonce /\ blob.got["ciphertext"] = Sealed(packed.data, nonce)
<1> DEFINE L == BlobWritten
           o == BlobOf(packed, plain, nonce)
           data == Serialize(L, o)
           got == Gathered(Empty, L, o, Len(L))
<1>1. ObjectFits(L, o) /\ Seqs(data) /\ Seqs(L)
  BY BlobFits, ObjectSeqs, BlobSound DEF Sound
<1>2. Names(L) = {"compressionType", "originalSize", "nonce", "ciphertext"}
  BY BlobSound
<1>3. /\ o["compressionType"] = packed.type /\ o["originalSize"] = Count(Len(plain), 4)
      /\ o["nonce"] = nonce /\ o["ciphertext"] = Sealed(packed.data, nonce)
  BY BlobFields
<1> HIDE DEF L, o
<1>4. Deserialize(L, data, Start(0)) = Reader(Behind(0, data), got)
  BY <1>1, WholeHeld, ReadFrom
<1>5. \A name \in Names(L) : got[name] = o[name]
  <2>1. got = Gathered(Empty, L, o, Len(L))
    OBVIOUS
  <2> HIDE DEF got
  <2> QED BY ONLY <1>1, <2>1, GatheredEach
<1>6. /\ got["compressionType"] = packed.type /\ got["originalSize"] = Count(Len(plain), 4)
      /\ got["nonce"] = nonce /\ got["ciphertext"] = Sealed(packed.data, nonce)
  <2> HIDE DEF got
  <2> QED BY <1>2, <1>3, <1>5
<1> HIDE DEF data, got
<1>7. Reader(Behind(0, data), got).ok /\ Reader(Behind(0, data), got).got = got
  BY ReaderFields
<1>8. Deserialize(BlobRead, Blob(packed, plain, nonce), Start(0)) = Reader(Behind(0, data), got)
  BY <1>4, BlobSame, BlobIs, Zenon DEF L, o, data
<1> QED BY <1>6, <1>7, <1>8, Zenon

\* The key and the nonce open what they sealed.
LEMMA Opens ==
  ASSUME NEW plain, Len(plain) \in Nat, NEW nonce
  PROVE  Decrypt(Sealed(plain, nonce), nonce) = Done(plain)
<1> DEFINE s == Sealed(plain, nonce)
<1>1. s[1].sealed = plain
  <2>1. 1 \in 1 .. Len(plain) + MAC_SIZE
    BY DEF MAC_SIZE
  <2> QED BY <2>1 DEF Sealed
<1>2. s # <<>>
  <2>1. Len(s) = Len(plain) + 16
    BY SealedHas
  <2> HIDE DEF s
  <2> QED BY <2>1
<1>3. s = Sealed(plain, nonce)
  OBVIOUS
<1> HIDE DEF s
<1>4. Decrypt(s, nonce) = Done(plain)
  BY <1>1, <1>2, <1>3, Zenon DEF Decrypt
<1> QED BY <1>3, <1>4

LEMMA DoneFields ==
  ASSUME NEW b
  PROVE  Done(b).ok /\ Done(b).bytes = b
  BY DEF Done

\* What one byte stands for comes back, as long as the size that the blob keeps.
LEMMA Unpacks ==
  ASSUME NEW plain, Seqs(plain), NEW type
  PROVE  Unpacked(type, Packed(type, plain, 1), Len(plain)) = Done(plain)
<1> DEFINE n == Len(plain)
<1>1. n \in Nat /\ DOMAIN plain = 1..n /\ plain = [i \in 1..n |-> plain[i]]
  BY SeqsHave
<1>2. [i \in 1..n |-> IF i \in DOMAIN plain THEN plain[i] ELSE 0] = plain
  <2>1. [i \in 1..n |-> IF i \in DOMAIN plain THEN plain[i] ELSE 0] = [i \in 1..n |-> plain[i]]
    BY ONLY <1>1
  <2> QED BY ONLY <1>1, <2>1, Zenon
<1>3. ASSUME NEW k, k = 1
      PROVE  LET input == Packed(type, plain, k)
             IN  input # <<>> /\ input[1].packed = plain /\ Len(input) = k
  <2> DEFINE input == Packed(type, plain, k)
  <2>1. input = [i \in 1..k |-> input[i]] /\ input[1].packed = plain
    BY <1>3 DEF Packed
  <2> HIDE DEF input
  <2>2. Len(input) = k
    BY <1>3, <2>1, SeqsMade
  <2>3. input # <<>>
    BY <1>3, <2>2
  <2> QED BY <2>1, <2>2, <2>3 DEF input
<1> DEFINE input == Packed(type, plain, 1)
<1>4. input # <<>> /\ input[1].packed = plain /\ Len(input) = 1
  BY <1>3
<1>5. n <= n
  BY <1>1
<1>6. input = Packed(type, input[1].packed, Len(input))
  BY <1>4, Zenon
<1>7. Len(input[1].packed) <= n
  BY <1>4, <1>5, Zenon
<1> HIDE DEF input
<1>8. Unpacked(type, input, n) = Done([i \in 1..n |-> IF i \in DOMAIN input[1].packed THEN input[1].packed[i] ELSE 0])
  BY <1>4, <1>6, <1>7, Zenon DEF Unpacked
<1> QED BY <1>2, <1>4, <1>8, Zenon DEF input

\* Decoding undoes encoding.
LEMMA DecodesBack ==
  ASSUME NEW plain, Encodable(plain), NEW packed, PackedFrom(packed, plain), NEW nonce \in Nonces
  PROVE  /\ DecodeData(Blob(packed, plain, nonce)) = Done(plain)
         /\ DecodeIndex(Blob([type |-> None, data |-> plain], plain, nonce)) = Done(plain)
         /\ DecodeHeader(Blob([type |-> None, data |-> plain], plain, nonce)) = Done(plain)
<1>1. Seqs(plain) /\ Len(plain) \in Nat /\ Len(plain) < Limit(4)
  BY SeqsHave, ChunksSmall DEF Encodable
<1>2. ASSUME NEW some, PackedFrom(some, plain)
      PROVE  LET blob == Deserialize(BlobRead, Blob(some, plain, nonce), Start(0))
             IN  /\ blob.ok /\ OpenBlob(blob) = Done(some.data)
                 /\ blob.got["compressionType"] = some.type
                 /\ Number(blob.got["originalSize"]) = Len(plain)
  <2> DEFINE blob == Deserialize(BlobRead, Blob(some, plain, nonce), Start(0))
  <2>1. /\ blob.ok /\ blob.got["compressionType"] = some.type
        /\ blob.got["originalSize"] = Count(Len(plain), 4)
        /\ blob.got["nonce"] = nonce /\ blob.got["ciphertext"] = Sealed(some.data, nonce)
    BY <1>2, BlobBack
  <2> HIDE DEF blob
  <2>2. Len(some.data) \in Nat
    BY <1>2, PackedHas
  <2>3. Decrypt(Sealed(some.data, nonce), nonce) = Done(some.data)
    BY <2>2, Opens
  <2>4. OpenBlob(blob) = Done(some.data)
    BY <2>1, <2>3, Zenon DEF OpenBlob
  <2>5. ASSUME NEW w, w = 4 PROVE Number(Count(Len(plain), w)) = Len(plain)
    <3>1. w \in {2, 4} /\ Len(plain) < Limit(w)
      BY <1>1, <2>5
    <3> QED BY <1>1, <3>1, CountRead
  <2> QED BY <2>1, <2>4, <2>5, Zenon DEF blob
<1>3. DecodeData(Blob(packed, plain, nonce)) = Done(plain)
  <2> DEFINE blob == Deserialize(BlobRead, Blob(packed, plain, nonce), Start(0))
  <2>1. /\ blob.ok /\ OpenBlob(blob) = Done(packed.data) /\ blob.got["compressionType"] = packed.type
        /\ Number(blob.got["originalSize"]) = Len(plain)
    BY <1>2
  <2> HIDE DEF blob
  <2>2. DecodeBlob(blob) = Decompress(packed.type, Done(packed.data), Len(plain))
    BY <2>1, Zenon DEF DecodeBlob
  <2>3. Done(packed.data).ok /\ Done(packed.data).bytes = packed.data
    BY DoneFields
  <2>4. CASE packed = [type |-> None, data |-> plain]
    <3>1. packed.type = None /\ packed.data = plain
      BY <2>4
    <3> QED BY <2>2, <3>1, Zenon DEF Decompress, DecodeData, blob
  <2>5. ASSUME NEW type \in {LZ4, Zstd}, packed = [type |-> type, data |-> Packed(type, plain, 1)]
        PROVE  DecodeData(Blob(packed, plain, nonce)) = Done(plain)
    <3>1. packed.type = type /\ packed.data = Packed(type, plain, 1)
      BY <2>5
    <3>2. type # None
      BY <2>5 DEF LZ4, Zstd, None
    <3>3. Unpacked(type, Packed(type, plain, 1), Len(plain)) = Done(plain)
      BY <1>1, Unpacks
    <3>4. Decompress(type, Done(packed.data), Len(plain)) = Unpacked(type, packed.data, Len(plain))
      BY <2>3, <2>5, <3>2, Zenon DEF Decompress
    <3> QED BY <2>2, <3>1, <3>3, <3>4, Zenon DEF DecodeData, blob
  <2> QED BY <2>4, <2>5 DEF PackedFrom
<1>4. LET none == [type |-> None, data |-> plain]
      IN  OpenBlob(Deserialize(BlobRead, Blob(none, plain, nonce), Start(0))) = Done(plain)
  <2> DEFINE none == [type |-> None, data |-> plain]
  <2>1. PackedFrom(none, plain) /\ none.data = plain
    BY DEF PackedFrom
  <2> HIDE DEF none
  <2>2. OpenBlob(Deserialize(BlobRead, Blob(none, plain, nonce), Start(0))) = Done(none.data)
    BY <1>2, <2>1
  <2> QED BY <2>1, <2>2, Zenon DEF none
<1> QED BY <1>3, <1>4, Zenon DEF DecodeIndex, DecodeHeader

\* A blob that lost its end is refused before anything is decrypted.
LEMMA CutBlob ==
  ASSUME NEW plain, Encodable(plain), NEW packed, PackedFrom(packed, plain), NEW nonce \in Nonces,
         NEW m \in Nat, m < Len(Blob(packed, plain, nonce))
  PROVE  Deserialize(BlobRead, SubSeq(Blob(packed, plain, nonce), 1, m), Start(0)).ok = FALSE
<1> DEFINE L == BlobWritten
           o == BlobOf(packed, plain, nonce)
           s == Serialize(L, o)
           data == SubSeq(s, 1, m)
<1>1. ObjectFits(L, o) /\ Seqs(s) /\ Len(s) \in Nat
  BY BlobFits, ObjectSeqs
<1>2. m < Len(s)
  BY BlobIs
<1>3. \A i \in 1 .. Len(L) : FlatField(L[i])
  <2>1. L[1] = Fixed("compressionType", 1) /\ L[2] = Fixed("originalSize", 4) /\ L[3] = Fixed("nonce", 12) /\ L[4] = Text("ciphertext")
    BY BlobList
  <2>2. Len(L) = 4
    BY BlobSound
  <2> HIDE DEF L
  <2>3. FlatField(L[1]) /\ FlatField(L[2]) /\ FlatField(L[3]) /\ FlatField(L[4])
    BY <2>1, FixedField, TextField
  <2> QED BY <2>2, <2>3
<1> HIDE DEF s
<1>4. CutTo(data, s, m)
  <2>1. s \in Seq({s[i] : i \in DOMAIN s})
    BY <1>1 DEF Seqs
  <2>2. data = [i \in 1..m |-> s[i]]
    BY <1>1, <1>2, <2>1
  <2> HIDE DEF data
  <2>3. data = [i \in 1..m |-> data[i]] /\ \A i \in 1..m : data[i] = s[i]
    BY <2>2
  <2>4. Seqs(data) /\ Len(data) = m
    BY <2>3, SeqsMade
  <2> QED BY <1>2, <2>3, <2>4 DEF CutTo
<1> HIDE DEF data
<1>5. CutTo(data, Serialize(L, o), m)
  BY <1>4 DEF s
<1> HIDE DEF L, o
<1>6. Deserialize(L, data, Reader(0, Empty)).ok = FALSE
  BY <1>1, <1>3, <1>5, CutIsRefused, NoBytes
<1> QED BY <1>6, BlobSame, BlobIs, StartReader, Zenon DEF L, o, s, data

-----------------------------------------------------------------------------
(* The sizes of the regions.                                                *)

\* The bytes of the first i members.
Sizes(len, k, n) ==
  len[0] = 0 /\ \A i \in 1..n : len[i] = len[i - 1] + k[i] /\ k[i] \in Nat

LEMMA LengthSums ==
  ASSUME NEW L, NEW o, ObjectFits(L, o), NEW k,
         \A i \in 1 .. Len(L) : k[i] = Len(WriteField(L[i], o[L[i].name]))
  PROVE  \E len : Sizes(len, k, Len(L)) /\ Len(Serialize(L, o)) = len[Len(L)]
<1> DEFINE p == FieldParts(L, o)
           n == Len(L)
<1>1. n \in Nat /\ \A i \in 1..n : Seqs(p[i])
  BY FieldPartsSeqs
<1>2. PICK g : Run(g, Empty, p, n) /\ Serialize(L, o) = g[n]
  BY <1>1, SerializeRun
<1>3. \A i \in 1..n : Len(p[i]) = k[i] /\ k[i] \in Nat
  <2> TAKE i \in 1..n
  <2>1. p[i] = WriteField(L[i], o[L[i].name])
    BY DEF FieldParts
  <2>2. Len(p[i]) \in Nat
    BY <1>1, SeqsHave
  <2> QED BY <2>1, <2>2, Zenon
<1> HIDE DEF p, n
<1>4. GoodRun(g, Empty, p, n)
  BY <1>1, <1>2, NoBytes DEF GoodRun
<1>5. \A i \in 1..n : Lengthens(g, p, i)
  BY <1>1, <1>4, RunLengthens
<1>6. \A i \in 1..n : Len(g[i]) = Len(g[i - 1]) + Len(p[i])
  BY <1>5, Zenon DEF Lengthens
<1>7. Len(g[0]) = 0
  <2>1. g[0] = Empty
    BY <1>1, <1>2 DEF Run
  <2> QED BY <2>1, NoBytes
<1> DEFINE len == [i \in 0..n |-> Len(g[i])]
<1>8. \A i \in 0..n : len[i] = Len(g[i])
  OBVIOUS
<1>9. \A i \in 1..n : len[i] = len[i - 1] + k[i]
  <2> TAKE i \in 1..n
  <2>1. i - 1 \in 0..n /\ i \in 0..n
    BY <1>1
  <2> HIDE DEF len
  <2> QED BY ONLY <1>3, <1>6, <1>8, <2>1, Zenon
<1>10. len[0] = 0
  BY <1>1, <1>7, <1>8
<1>11. len[n] = Len(Serialize(L, o))
  BY <1>1, <1>2, <1>8
<1> HIDE DEF len
<1>12. Sizes(len, k, n)
  BY <1>3, <1>9, <1>10 DEF Sizes
<1> QED BY <1>11, <1>12, Zenon DEF n

LEMMA SizesFour ==
  ASSUME NEW len, NEW k, Sizes(len, k, 4)
  PROVE  len[4] = k[1] + k[2] + k[3] + k[4]
<1>1. len[1] = k[1] /\ \A i \in 1..4 : k[i] \in Nat
  BY DEF Sizes
<1>2. len[2] = k[1] + k[2]
  BY <1>1 DEF Sizes
<1>3. len[3] = k[1] + k[2] + k[3]
  BY <1>2 DEF Sizes
<1> QED BY <1>3 DEF Sizes

LEMMA SizesSeven ==
  ASSUME NEW len, NEW k, Sizes(len, k, 7)
  PROVE  len[7] = k[1] + k[2] + k[3] + k[4] + k[5] + k[6] + k[7]
<1>1. len[1] = k[1] /\ \A i \in 1..7 : k[i] \in Nat
  BY DEF Sizes
<1>2. len[2] = k[1] + k[2]
  BY <1>1 DEF Sizes
<1>3. len[3] = k[1] + k[2] + k[3]
  BY <1>2 DEF Sizes
<1>4. len[4] = k[1] + k[2] + k[3] + k[4]
  BY <1>3 DEF Sizes
<1>5. len[5] = k[1] + k[2] + k[3] + k[4] + k[5]
  BY <1>4 DEF Sizes
<1>6. len[6] = k[1] + k[2] + k[3] + k[4] + k[5] + k[6]
  BY <1>5 DEF Sizes
<1> QED BY <1>6 DEF Sizes

\* A fixed member takes its width, whatever its value.
LEMMA FixedLong ==
  ASSUME NEW field, NEW v, Fits(field, v), NEW name, NEW width \in Nat, field = Fixed(name, width)
  PROVE  Len(WriteField(field, v)) = width
<1>1. field.form = "fixed" /\ field.width = width /\ FlatField(field)
  BY FixedField
<1>2. FlatFits(field, v)
  BY <1>1 DEF Fits, ListField
<1>3. WriteField(field, v) = Prefixed(field, v)
  BY <1>1, Zenon DEF WriteField, FlatField
<1> QED BY <1>1, <1>2, <1>3, PrefixedSeqs

LEMMA PreambleLength ==
  ASSUME NEW o, ObjectFits(PreambleWritten, o)
  PROVE  Len(Serialize(PreambleWritten, o)) = 80
<1> DEFINE L == PreambleWritten
           k == [i \in 1..7 |-> Len(WriteField(L[i], o[L[i].name]))]
<1>1. Len(L) = 7
  BY PreambleSound
<1>2. \A i \in 1..7 : Fits(L[i], o[L[i].name])
  BY <1>1 DEF ObjectFits
<1>3. /\ L[1] = Fixed("magic", 4) /\ L[2] = Fixed("version", 4) /\ L[3] = Fixed("uuid", 16)
      /\ L[4] = Fixed("salt", 16) /\ L[5] = Fixed("keyCheck", 32) /\ L[6] = Fixed("pageSize", 4)
      /\ L[7] = Fixed("headerSize", 4)
  BY DEF PreambleWritten
<1> HIDE DEF L
<1>4. \A i \in 1..7 : k[i] = Len(WriteField(L[i], o[L[i].name]))
  OBVIOUS
<1>5. k[1] = 4 /\ k[2] = 4 /\ k[3] = 16 /\ k[4] = 16 /\ k[5] = 32 /\ k[6] = 4 /\ k[7] = 4
  <2> HIDE DEF k
  <2>1. ASSUME NEW i \in 1..7, NEW name, NEW w, w \in Nat, L[i] = Fixed(name, w) PROVE k[i] = w
    BY <1>2, <1>4, <2>1, FixedLong, SMTT(30)
  <2>2. k[1] = 4 /\ k[2] = 4 /\ k[3] = 16
    BY ONLY <1>3, <2>1
  <2>3. k[4] = 16 /\ k[5] = 32
    BY ONLY <1>3, <2>1
  <2>4. k[6] = 4 /\ k[7] = 4
    BY ONLY <1>3, <2>1
  <2> QED BY <2>2, <2>3, <2>4
<1> HIDE DEF k
<1>6. PICK len : Sizes(len, k, Len(L)) /\ Len(Serialize(L, o)) = len[Len(L)]
  BY <1>1, <1>4, LengthSums, ZenonT(30) DEF L
<1>7. len[7] = k[1] + k[2] + k[3] + k[4] + k[5] + k[6] + k[7]
  BY <1>1, <1>6, SizesSeven
<1> QED BY <1>1, <1>5, <1>6, <1>7 DEF L

LEMMA HeaderLength ==
  ASSUME NEW o, ObjectFits(HeaderWritten, o)
  PROVE  Len(Serialize(HeaderWritten, o)) = 56
<1> DEFINE L == HeaderRead
           names == <<"indexRootPage", "dataRootPage", "freelistRootPage",
                      "entryCount", "folderCount", "createdAt", "updatedAt">>
           k == [i \in 1..7 |-> Len(WriteField(L[i], o[L[i].name]))]
<1>1. Len(L) = 7
  BY HeaderSound
<1>2. HeaderWritten = L
  BY HeaderSame
<1>3. ObjectFits(L, o)
  BY <1>2
<1>4. \A i \in 1..7 : Fits(L[i], o[L[i].name])
  BY <1>1, <1>3 DEF ObjectFits
<1>5. \A i \in 1..7 : L[i] = Fixed(names[i], 8)
  BY DEF HeaderRead, FixedFields
<1> HIDE DEF L, names
<1>6. \A i \in 1..7 : k[i] = Len(WriteField(L[i], o[L[i].name]))
  OBVIOUS
<1> HIDE DEF k
<1>7. ASSUME NEW i \in 1..7, NEW w, w \in Nat, w = 8 PROVE k[i] = w
  BY <1>4, <1>5, <1>6, <1>7, FixedLong
<1>8. k[1] = 8 /\ k[2] = 8 /\ k[3] = 8 /\ k[4] = 8 /\ k[5] = 8 /\ k[6] = 8 /\ k[7] = 8
  BY ONLY <1>7
<1>9. PICK len : Sizes(len, k, Len(L)) /\ Len(Serialize(L, o)) = len[Len(L)]
  BY <1>1, <1>3, <1>6, LengthSums, ZenonT(30)
<1>10. len[7] = k[1] + k[2] + k[3] + k[4] + k[5] + k[6] + k[7]
  BY <1>1, <1>9, SizesSeven
<1>11. Len(Serialize(L, o)) = 56
  BY <1>1, <1>8, <1>9, <1>10
<1> QED BY <1>2, <1>11, Zenon

LEMMA PageHeaderLength ==
  ASSUME NEW o, ObjectFits(PageHeaderWritten, o)
  PROVE  Len(Serialize(PageHeaderWritten, o)) = 25
<1> DEFINE L == PageHeaderWritten
           k == [i \in 1..4 |-> Len(WriteField(L[i], o[L[i].name]))]
<1>1. Len(L) = 4
  BY PageHeaderSound
<1>2. \A i \in 1..4 : Fits(L[i], o[L[i].name])
  BY <1>1 DEF ObjectFits
<1>3. /\ L[1] = Fixed("pageId", 8) /\ L[2] = Fixed("pageType", 1) /\ L[3] = Fixed("nextPage", 8)
      /\ L[4] = Fixed("prevPage", 8)
  BY DEF PageHeaderWritten
<1> HIDE DEF L
<1>4. \A i \in 1..4 : k[i] = Len(WriteField(L[i], o[L[i].name]))
  OBVIOUS
<1>5. k[1] = 8 /\ k[2] = 1 /\ k[3] = 8 /\ k[4] = 8
  <2> HIDE DEF k
  <2>1. ASSUME NEW i \in 1..4, NEW name, NEW w, w \in Nat, L[i] = Fixed(name, w) PROVE k[i] = w
    BY <1>2, <1>4, <2>1, FixedLong
  <2>2. k[1] = 8 /\ k[2] = 1
    BY ONLY <1>3, <2>1
  <2>3. k[3] = 8 /\ k[4] = 8
    BY ONLY <1>3, <2>1
  <2> QED BY <2>2, <2>3
<1> HIDE DEF k
<1>6. PICK len : Sizes(len, k, Len(L)) /\ Len(Serialize(L, o)) = len[Len(L)]
  BY <1>1, <1>4, LengthSums, ZenonT(30) DEF L
<1>7. len[4] = k[1] + k[2] + k[3] + k[4]
  BY <1>1, <1>6, SizesFour
<1> QED BY <1>1, <1>5, <1>6, <1>7 DEF L

\* A blob is 37 bytes longer than what it seals.
LEMMA BlobLength ==
  ASSUME NEW plain, Encodable(plain), NEW packed, PackedFrom(packed, plain), NEW nonce \in Nonces
  PROVE  Len(Blob(packed, plain, nonce)) = 37 + Len(packed.data)
<1> DEFINE L == BlobWritten
           o == BlobOf(packed, plain, nonce)
           k == [i \in 1..4 |-> Len(WriteField(L[i], o[L[i].name]))]
           m == Len(packed.data)
<1>1. Len(L) = 4 /\ ObjectFits(L, o)
  BY BlobSound, BlobFits
<1>2. \A i \in 1..4 : Fits(L[i], o[L[i].name])
  BY <1>1 DEF ObjectFits
<1>3. /\ L[1] = Fixed("compressionType", 1) /\ L[2] = Fixed("originalSize", 4)
      /\ L[3] = Fixed("nonce", 12) /\ L[4] = Text("ciphertext")
  BY BlobList
<1>4. m \in Nat /\ o["ciphertext"] = Sealed(packed.data, nonce)
  BY PackedHas, BlobFields
<1>5. Len(Sealed(packed.data, nonce)) = m + 16
  BY <1>4, SealedHas
<1> HIDE DEF L, o
<1>6. \A i \in 1..4 : k[i] = Len(WriteField(L[i], o[L[i].name]))
  OBVIOUS
<1> HIDE DEF k
<1>7. k[1] = 1 /\ k[2] = 4 /\ k[3] = 12
  <2>1. ASSUME NEW i \in 1..4, NEW name, NEW w, w \in Nat, L[i] = Fixed(name, w) PROVE k[i] = w
    BY <1>2, <1>6, <2>1, FixedLong
  <2>2. k[1] = 1 /\ k[2] = 4
    BY ONLY <1>3, <2>1
  <2>3. k[3] = 12
    BY ONLY <1>3, <2>1
  <2> QED BY <2>2, <2>3
<1>8. k[4] = 4 + (m + 16)
  <2>1. L[4].form = "text" /\ L[4].name = "ciphertext" /\ FlatField(L[4])
    BY <1>3, TextField
  <2>2. FlatFits(L[4], o[L[4].name])
    BY <1>2, <2>1 DEF Fits, ListField
  <2>3. WriteField(L[4], o[L[4].name]) = Prefixed(L[4], o[L[4].name])
    BY <2>1, Zenon DEF WriteField, FlatField
  <2>4. L[4].form # "fixed"
    BY <2>1
  <2>5. Len(Prefixed(L[4], o[L[4].name])) = 4 + Len(o[L[4].name])
    BY <2>1, <2>2, <2>4, PrefixedSeqs, Zenon
  <2>6. o[L[4].name] = Sealed(packed.data, nonce)
    BY <1>4, <2>1, Zenon
  <2> HIDE DEF m
  <2>7. k[4] = Len(WriteField(L[4], o[L[4].name]))
    BY <1>6
  <2> QED BY <1>5, <2>3, <2>5, <2>6, <2>7, Zenon
<1>9. PICK len : Sizes(len, k, Len(L)) /\ Len(Serialize(L, o)) = len[Len(L)]
  BY <1>1, <1>6, LengthSums, ZenonT(30)
<1>10. len[4] = k[1] + k[2] + k[3] + k[4]
  BY <1>1, <1>9, SizesFour
<1> HIDE DEF m
<1>11. Len(Serialize(L, o)) = 37 + m
  BY <1>1, <1>4, <1>7, <1>8, <1>9, <1>10
<1>12. Len(Blob(packed, plain, nonce)) = 37 + m
  BY <1>11, BlobIs, Zenon DEF L, o
<1> QED BY <1>12 DEF m

-----------------------------------------------------------------------------
(* Pages: the page header and the layout, copied over the page's bytes.     *)

LEMMA CopyHeld ==
  ASSUME NEW buffer, Seqs(buffer), NEW at \in Nat, NEW s, Seqs(s), at + Len(s) <= Len(buffer),
         NEW c, c = CopiedTo(buffer, at, s)
  PROVE  /\ Seqs(c) /\ Len(c) = Len(buffer) /\ Holds(c, at, s)
         /\ \A i \in 1 .. Len(buffer) : (i <= at \/ i > at + Len(s)) => c[i] = buffer[i]
<1> DEFINE n == Len(buffer)
           m == Len(s)
<1>1. n \in Nat /\ m \in Nat /\ DOMAIN buffer = 1..n /\ DOMAIN s = 1..m
  BY SeqsHave
<1>2. c = [i \in 1..n |-> IF i - at \in 1..m THEN s[i - at] ELSE buffer[i]]
  BY <1>1 DEF CopiedTo
<1>3. c = [i \in 1..n |-> c[i]]
  BY <1>2
<1>4. Seqs(c) /\ Len(c) = n
  BY <1>1, <1>3, SeqsMade
<1> HIDE DEF n, m
<1>5. \A j \in 1..m : c[at + j] = s[j]
  <2> TAKE j \in 1..m
  <2>1. at + j \in 1..n /\ (at + j) - at = j
    BY <1>1 DEF n, m
  <2> QED BY <1>2, <2>1
<1>6. ASSUME NEW i \in 1..n, i <= at \/ i > at + m PROVE c[i] = buffer[i]
  <2>1. i - at \notin 1..m
    BY <1>1, <1>6
  <2> QED BY <1>2, <2>1
<1>7. Holds(c, at, s)
  BY <1>4, <1>5 DEF Holds, n, m
<1> QED BY <1>4, <1>6, <1>7 DEF n, m

\* What was copied stays where the other copy does not reach.
LEMMA StillHeld ==
  ASSUME NEW c, NEW d, NEW at \in Nat, NEW s, Seqs(s), Holds(c, at, s), Len(d) = Len(c),
         Len(c) \in Nat, \A i \in 1 .. Len(c) : i <= at + Len(s) => d[i] = c[i]
  PROVE  Holds(d, at, s)
<1>1. Len(s) \in Nat
  BY SeqsHave
<1>2. ASSUME NEW j \in 1 .. Len(s) PROVE d[at + j] = s[j]
  <2>1. at + j \in 1 .. Len(c) /\ at + j <= at + Len(s)
    BY <1>1 DEF Holds
  <2>2. c[at + j] = s[j]
    BY DEF Holds
  <2> QED BY <2>1, <2>2
<1> QED BY <1>2 DEF Holds

\* The members of some fields of the format f.
MembersFit(f, L, o) == \A i \in 1 .. Len(L) : Member(f, L[i], o[L[i].name])

LEMMA MembersBoth ==
  ASSUME NEW f, NEW A, NEW B, Seqs(A), Seqs(B), NEW o, MembersFit(f, Cat(A, B), o)
  PROVE  MembersFit(f, A, o) /\ MembersFit(f, B, o)
<1> DEFINE C == Cat(A, B)
           n == Len(A)
           m == Len(B)
<1>1. /\ n \in Nat /\ m \in Nat /\ Len(C) = n + m
      /\ (\A i \in 1..n : C[i] = A[i]) /\ \A i \in 1..m : C[n + i] = B[i]
  BY SeqsHave, SeqsCat
<1>2. \A i \in 1 .. Len(C) : Member(f, C[i], o[C[i].name])
  BY DEF MembersFit
<1> HIDE DEF C
<1>3. ASSUME NEW i \in 1..n PROVE Member(f, A[i], o[A[i].name])
  <2>1. i \in 1 .. Len(C) /\ C[i] = A[i]
    BY <1>1
  <2> QED BY <1>2, <2>1
<1>4. ASSUME NEW i \in 1..m PROVE Member(f, B[i], o[B[i].name])
  <2>1. n + i \in 1 .. Len(C) /\ C[n + i] = B[i]
    BY <1>1
  <2> QED BY <1>2, <2>1
<1> QED BY <1>3, <1>4 DEF MembersFit

LEMMA SlotsAre ==
  LET L == LayoutWritten(DataPage)
  IN  L[1] = Fixed("lower", 2) /\ L[2] = Fixed("upper", 2) /\ L[3] = ListOf("pageSlots", 2, Slot)
  BY DEF LayoutWritten, FixedFields, DataPage, IndexPage, FreelistPage, FreePage

LEMMA FreePagesAre == LayoutWritten(FreelistPage)[1] = ListOf("freePages", 2, FreePageId)
  BY DEF LayoutWritten, FixedFields, DataPage, IndexPage, FreelistPage, FreePage

LEMMA LayoutLength ==
  ASSUME NEW f, NEW type \in {DataPage, FreelistPage, FreePage}, NEW o,
         ObjectFits(LayoutWritten(type), o), MembersFit(f, LayoutWritten(type), o)
  PROVE  /\ Len(Serialize(LayoutWritten(type), o)) \in Nat
         /\ Len(Serialize(LayoutWritten(type), o)) <= 6 + 8 * MaxLength
<1> DEFINE L == LayoutWritten(type)
           k == [i \in 1 .. Len(L) |-> Len(WriteField(L[i], o[L[i].name]))]
<1>1. \A i \in 1 .. Len(L) : k[i] = Len(WriteField(L[i], o[L[i].name]))
  OBVIOUS
<1>2. \A i \in 1 .. Len(L) : Fits(L[i], o[L[i].name]) /\ Member(f, L[i], o[L[i].name])
  BY DEF ObjectFits, MembersFit
<1>3. MaxLength \in Nat
  BY ConstantsAre
<1> HIDE DEF k
<1>4. PICK len : Sizes(len, k, Len(L)) /\ Len(Serialize(L, o)) = len[Len(L)]
  <2> HIDE DEF L
  <2> QED BY <1>1, LengthSums DEF L
<1>5. CASE type = DataPage
  <2>1. Len(L) = 3 /\ L[1] = Fixed("lower", 2) /\ L[2] = Fixed("upper", 2) /\ L[3] = ListOf("pageSlots", 2, Slot)
    BY <1>5, SlotsSound, SlotsAre
  <2> HIDE DEF L
  <2>2. ASSUME NEW i \in 1..3, NEW name, NEW w, w \in Nat, L[i] = Fixed(name, w) PROVE k[i] = w
    BY <1>1, <1>2, <2>1, <2>2, FixedLong
  <2>3. k[1] = 2 /\ k[2] = 2
    BY ONLY <2>1, <2>2
  <2>4. k[3] \in Nat /\ k[3] <= 2 + 8 * MaxLength
    <3>1. L[3] \in Lists /\ L[3].name \notin Tags /\ L[3].width = 2
      BY <2>1, ListOfField DEF Lists, Tags
    <3>2. o[L[3].name] \in Values(L[3])
      BY <1>2, <2>1, <3>1 DEF Member
    <3> QED BY <1>1, <2>1, <3>1, <3>2, ListLength
  <2>5. len[1] = 2
    BY <1>4, <2>1, <2>3 DEF Sizes
  <2>6. len[2] = 4
    BY <1>4, <2>1, <2>3, <2>5 DEF Sizes
  <2>7. len[3] = 4 + k[3]
    BY <1>4, <2>1, <2>4, <2>6 DEF Sizes
  <2> QED BY <1>3, <1>4, <2>1, <2>4, <2>7 DEF L
<1>6. CASE type = FreelistPage
  <2>1. Len(L) = 1 /\ L[1] = ListOf("freePages", 2, FreePageId)
    BY <1>6, FreelistSound, FreePagesAre
  <2> HIDE DEF L
  <2>2. k[1] \in Nat /\ k[1] <= 2 + 8 * MaxLength
    <3>1. L[1] \in Lists /\ L[1].name \notin Tags /\ L[1].width = 2
      BY <2>1, ListOfField DEF Lists, Tags
    <3>2. o[L[1].name] \in Values(L[1])
      BY <1>2, <2>1, <3>1 DEF Member
    <3> QED BY <1>1, <2>1, <3>1, <3>2, ListLength
  <2>3. len[1] = k[1]
    BY <1>4, <2>1, <2>2 DEF Sizes
  <2> QED BY <1>3, <1>4, <2>1, <2>2, <2>3 DEF L
<1>7. CASE type = FreePage
  <2>1. Len(L) = 0
    BY <1>7, FreeSound
  <2> HIDE DEF L
  <2>2. len[0] = 0
    BY <1>4 DEF Sizes
  <2> QED BY <1>3, <1>4, <2>1, <2>2 DEF L
<1> QED BY <1>5, <1>6, <1>7

\* What the disk has of a page: its header, its layout, and its bytes behind.
Imaged(o, tag, data) ==
  /\ Seqs(data) /\ Holds(data, 0, Serialize(PageHeaderWritten, o))
  /\ Holds(data, 25, Serialize(LayoutWritten(tag), o))
  /\ \A i \in 1..PageSize : i > Behind(25, Serialize(LayoutWritten(tag), o)) => data[i] = o["data"][i]

\* A page's fields and the values of their members.
LEMMA PageFits ==
  ASSUME NEW f \in Images, NEW o, Typed(f, o)
  PROVE  /\ ObjectFits(PageHeaderWritten, o) /\ ObjectFits(LayoutWritten(TagOf(f)), o)
         /\ MembersFit(f, LayoutWritten(TagOf(f)), o)
         /\ Seqs(o["data"]) /\ Len(o["data"]) = PageSize
         /\ o["pageType"] = TagOf(f) /\ TagOf(f) \in {DataPage, FreelistPage, FreePage}
         /\ Names(Fields(f)) = Names(PageHeaderWritten) \cup Names(LayoutWritten(TagOf(f))) \cup {"data"}
         /\ Names(PageHeaderWritten) \cap Names(LayoutWritten(TagOf(f))) = {}
         /\ "data" \notin Names(PageHeaderWritten) \cup Names(LayoutWritten(TagOf(f)))
         /\ "pageType" \in Names(PageHeaderWritten)
<1> DEFINE tag == TagOf(f)
           A == PageHeaderWritten
           B == LayoutWritten(tag)
           D == <<Fixed("data", PageSize)>>
<1>1. f \in Formats
  BY DEF Formats
<1>2. tag \in {DataPage, FreelistPage, FreePage}
  BY TagsAre DEF Images
<1>3. Fields(f) = Cat(Cat(A, B), D)
  BY <1>1, FieldsAre
<1> HIDE DEF tag
<1>4. Seqs(A) /\ Seqs(B) /\ Names(A) \cap Names(B) = {} /\ Sound(A) /\ Sound(B)
  BY <1>2, PageHeaderSound, LayoutSound, PageSound DEF Sound
<1>5. /\ Names(Fields(f)) = Names(A) \cup Names(B) \cup {"data"}
      /\ "data" \notin Names(A) \cup Names(B) /\ "pageType" \in Names(A)
  BY <1>2, <1>3, PageSound, Zenon
<1>6. Seqs(Cat(A, B))
  BY <1>4, SeqsCat
<1>7. Seqs(D) /\ Len(D) = 1 /\ D[1] = Fixed("data", PageSize)
  BY DEF Seqs
<1> HIDE DEF A, B, D
<1>8. ObjectFits(Cat(Cat(A, B), D), o) /\ MembersFit(f, Cat(Cat(A, B), D), o)
  <2>1. ObjectFits(Fields(f), o)
    BY <1>1, TypedFits
  <2>2. MembersFit(f, Fields(f), o)
    BY DEF Typed, MembersFit
  <2> QED BY <1>3, <2>1, <2>2
<1>9. ObjectFits(Cat(A, B), o) /\ ObjectFits(D, o) /\ MembersFit(f, Cat(A, B), o)
  BY <1>6, <1>7, <1>8, FitsBoth, MembersBoth
<1>10. ObjectFits(A, o) /\ ObjectFits(B, o) /\ MembersFit(f, B, o)
  BY <1>4, <1>9, FitsBoth, MembersBoth
<1>11. Seqs(o["data"]) /\ Len(o["data"]) = PageSize
  <2>1. Fits(D[1], o[D[1].name])
    BY <1>7, <1>9 DEF ObjectFits
  <2>2. FlatField(D[1]) /\ D[1].name = "data" /\ D[1].form = "fixed" /\ D[1].width = PageSize
    <3>1. PageSize \in Nat
      BY ConstantsAre
    <3> QED BY ONLY <1>7, <3>1, FixedField
  <2> QED BY <2>1, <2>2 DEF Fits, ListField, FlatFits
<1>12. o["pageType"] = tag
  BY <1>1, <1>5, TypedTag DEF Tags, tag
<1> QED BY <1>2, <1>4, <1>5, <1>10, <1>11, <1>12 DEF tag, A, B

LEMMA WritesImage ==
  ASSUME NEW f \in Images, NEW o, Typed(f, o)
  PROVE  Imaged(o, TagOf(f), WritePage(o))
<1> DEFINE tag == TagOf(f)
           d == o["data"]
           a == Serialize(PageHeaderWritten, o)
           b == Serialize(LayoutWritten(tag), o)
           first == CopiedTo(d, 0, a)
           all == CopiedTo(first, 25, b)
<1>1. /\ ObjectFits(PageHeaderWritten, o) /\ ObjectFits(LayoutWritten(tag), o)
      /\ MembersFit(f, LayoutWritten(tag), o)
      /\ Seqs(d) /\ Len(d) = PageSize
      /\ o["pageType"] = tag /\ tag \in {DataPage, FreelistPage, FreePage}
  BY PageFits
<1>2. WritePage(o) = all
  BY <1>1, Zenon DEF WritePage, HEADER_SIZE
<1> HIDE DEF tag, d
<1>3. Seqs(a) /\ Len(a) = 25 /\ Seqs(b)
  BY <1>1, ObjectSeqs, PageHeaderLength
<1>4. Len(b) \in Nat /\ Len(b) <= 6 + 8 * MaxLength
  BY <1>1, LayoutLength
<1>5. PageSize \in Nat /\ 25 + Len(b) <= PageSize
  BY <1>4, ConstantsAre
<1> HIDE DEF a, b
<1>6. /\ Seqs(first) /\ Len(first) = PageSize /\ Holds(first, 0, a)
      /\ \A i \in 1..PageSize : i > 25 => first[i] = d[i]
  <2>1. first = CopiedTo(d, 0, a)
    OBVIOUS
  <2> HIDE DEF first
  <2>2. ASSUME NEW z, z = 0
        PROVE  /\ Seqs(first) /\ Len(first) = Len(d) /\ Holds(first, z, a)
               /\ \A i \in 1 .. Len(d) : (i <= z \/ i > z + Len(a)) => first[i] = d[i]
    <3>1. z \in Nat /\ first = CopiedTo(d, z, a) /\ z + Len(a) <= Len(d) /\ Seqs(d) /\ Seqs(a)
      BY <1>1, <1>3, <1>4, <1>5, <2>1, <2>2
    <3> QED BY ONLY <3>1, CopyHeld
  <2>3. /\ Seqs(first) /\ Len(first) = Len(d) /\ Holds(first, 0, a)
        /\ \A i \in 1 .. Len(d) : (i <= 0 \/ i > 0 + Len(a)) => first[i] = d[i]
    BY ONLY <2>2
  <2> QED BY <1>1, <1>3, <2>3
<1> HIDE DEF first
<1>7. /\ Seqs(all) /\ Len(all) = PageSize /\ Holds(all, 25, b)
      /\ \A i \in 1..PageSize : (i <= 25 \/ i > 25 + Len(b)) => all[i] = first[i]
  <2>1. all = CopiedTo(first, 25, b)
    OBVIOUS
  <2> HIDE DEF all
  <2>2. ASSUME NEW z, z = 25
        PROVE  /\ Seqs(all) /\ Len(all) = Len(first) /\ Holds(all, z, b)
               /\ \A i \in 1 .. Len(first) : (i <= z \/ i > z + Len(b)) => all[i] = first[i]
    <3>1. z \in Nat /\ all = CopiedTo(first, z, b) /\ z + Len(b) <= Len(first)
      BY <1>5, <1>6, <2>1, <2>2
    <3> QED BY ONLY <1>3, <1>6, <3>1, CopyHeld
  <2>3. /\ Seqs(all) /\ Len(all) = Len(first) /\ Holds(all, 25, b)
        /\ \A i \in 1 .. Len(first) : (i <= 25 \/ i > 25 + Len(b)) => all[i] = first[i]
    BY ONLY <2>2
  <2> QED BY <1>6, <2>3
<1> HIDE DEF all
<1>8. Holds(all, 0, a)
  <2>1. ASSUME NEW z, z = 0 PROVE Holds(all, z, a)
    <3>1. /\ z \in Nat /\ Holds(first, z, a) /\ Len(all) = Len(first) /\ Len(first) \in Nat
          /\ \A i \in 1 .. Len(first) : i <= z + Len(a) => all[i] = first[i]
      BY <1>3, <1>5, <1>6, <1>7, <2>1
    <3> QED BY ONLY <1>3, <3>1, StillHeld
  <2> QED BY <2>1
<1>9. \A i \in 1..PageSize : i > Behind(25, b) => all[i] = d[i]
  <2> TAKE i \in 1..PageSize
  <2> HAVE i > Behind(25, b)
  <2>1. i > 25 + Len(b)
    BY DEF Behind
  <2>2. i > 25
    BY <1>4, <2>1
  <2> QED BY <1>6, <1>7, <2>1, <2>2
<1> QED BY <1>2, <1>7, <1>8, <1>9 DEF Imaged, tag, d, a, b

\* A page that was read has its members, and the bytes behind them.
PageAs(r, o) ==
  /\ r.ok
  /\ \A name \in DOMAIN o \ {"data"} : r.got[name] = o[name]
  /\ \A i \in r.at + 1 .. PageSize : r.got["data"][i] = o["data"][i]

LEMMA WithFields ==
  ASSUME NEW got, NEW name, NEW v, NEW all, all = With(got, name, v)
  PROVE  DOMAIN all = DOMAIN got \cup {name} /\ Members(all)
  BY DEF With, Members

LEMMA WithSelf ==
  ASSUME NEW got, NEW name, NEW v, NEW all, all = With(got, name, v)
  PROVE  all[name] = v
  BY DEF With

LEMMA WithOthers ==
  ASSUME NEW got, NEW name, NEW v, NEW all, all = With(got, name, v), NEW n \in DOMAIN got, n # name
  PROVE  all[n] = got[n]
  BY DEF With

LEMMA ReaderMoved ==
  ASSUME NEW at, NEW got, NEW k
  PROVE  [Reader(at, got) EXCEPT !.at = k] = Reader(k, got)
<1>1. ASSUME NEW o PROVE [[at |-> at, got |-> got, ok |-> o] EXCEPT !.at = k] = [at |-> k, got |-> got, ok |-> o]
  OBVIOUS
<1> QED BY <1>1, Zenon DEF Reader

LEMMA LoadsImage ==
  ASSUME NEW f \in Images, NEW o, Typed(f, o), NEW data, Imaged(o, TagOf(f), data)
  PROVE  PageAs(LoadPage(data), o)
<1> DEFINE tag == TagOf(f)
           A == PageHeaderWritten
           B == LayoutWritten(tag)
           a == Serialize(A, o)
           b == Serialize(B, o)
           d == o["data"]
           first == Gathered(Empty, A, o, Len(A))
           more == With(first, "data", data)
           got == Gathered(more, B, o, Len(B))
<1>1. /\ ObjectFits(A, o) /\ ObjectFits(B, o) /\ o["pageType"] = tag
      /\ tag \in {DataPage, FreelistPage, FreePage}
      /\ Names(Fields(f)) = Names(A) \cup Names(B) \cup {"data"}
      /\ Names(A) \cap Names(B) = {} /\ "data" \notin Names(A) \cup Names(B)
      /\ "pageType" \in Names(A)
  BY PageFits
<1>2. DOMAIN o = Names(Fields(f))
  BY DEF Typed
<1>3. Seqs(A) /\ Seqs(B) /\ LayoutRead(tag) = B
  BY <1>1, PageHeaderSound, LayoutSound, LayoutSame DEF Sound
<1>4. /\ Seqs(data) /\ Holds(data, 0, a) /\ Holds(data, 25, b)
      /\ \A i \in 1..PageSize : i > Behind(25, b) => data[i] = d[i]
  BY DEF Imaged
<1>5. Seqs(b)
  BY <1>1, ObjectSeqs
<1>6. DOMAIN first = Names(A) /\ Members(first) /\ \A name \in Names(A) : first[name] = o[name]
  <2>1. first = Gathered(Empty, A, o, Len(A))
    OBVIOUS
  <2> HIDE DEF first, A
  <2>2. DOMAIN first = DOMAIN Empty \cup Names(A) /\ Members(first)
    BY ONLY <1>3, <2>1, GatheredAll
  <2>3. \A name \in Names(A) : first[name] = o[name]
    BY ONLY <1>3, <2>1, GatheredEach
  <2> QED BY <2>2, <2>3, NoBytes
<1>7. Deserialize(A, data, Start(0)) = Reader(Behind(0, a), first)
  <2> HIDE DEF A
  <2> QED BY <1>1, <1>4, ReadFrom
<1> HIDE DEF first, b, A, B, d
<1>8. /\ DOMAIN more = DOMAIN first \cup {"data"} /\ Members(more) /\ more["data"] = data
      /\ \A n \in DOMAIN first : n # "data" => more[n] = first[n]
  <2>1. more = With(first, "data", data)
    OBVIOUS
  <2> HIDE DEF more
  <2>2. DOMAIN more = DOMAIN first \cup {"data"} /\ Members(more) /\ more["data"] = data
    <3>1. DOMAIN more = DOMAIN first \cup {"data"} /\ Members(more)
      BY ONLY <2>1, WithFields
    <3>2. more["data"] = data
      BY ONLY <2>1, WithSelf
    <3> QED BY <3>1, <3>2
  <2>3. \A n \in DOMAIN first : n # "data" => more[n] = first[n]
    BY ONLY <2>1, WithOthers
  <2> QED BY <2>2, <2>3
<1> HIDE DEF more
<1>9. Deserialize(B, data, Reader(25, more)) = Reader(Behind(25, b), got)
  <2> HIDE DEF got
  <2>1. ASSUME NEW z, z = 25 PROVE Deserialize(B, data, Reader(z, more)) = Reader(Behind(z, b), got)
    <3>1. z \in Nat /\ Holds(data, z, Serialize(B, o)) /\ Seqs(data) /\ Members(more) /\ ObjectFits(B, o)
      BY <1>1, <1>4, <1>8, <2>1 DEF b
    <3>2. Deserialize(B, data, Reader(z, more))
            = Reader(Behind(z, Serialize(B, o)), Gathered(more, B, o, Len(B)))
      BY ONLY <3>1, WrittenIsRead
    <3> QED BY <3>2 DEF b, got
  <2> QED BY ONLY <2>1
<1>10. \A name : /\ name \in Names(B) => got[name] = o[name]
                 /\ name \in DOMAIN more \ Names(B) => got[name] = more[name]
  <2>1. got = Gathered(more, B, o, Len(B))
    OBVIOUS
  <2> HIDE DEF got
  <2> QED BY ONLY <1>3, <2>1, GatheredEach
<1> HIDE DEF got
<1>11. LoadPage(data) = Reader(Behind(25, b), got)
  <2> DEFINE head == Reader(Behind(0, a), first)
  <2>1. head.ok /\ head.got = first /\ head.got["pageType"] = tag
    BY <1>1, <1>6, ReaderFields
  <2>2. [head EXCEPT !.at = 25, !.got = With(@, "data", data)] = Reader(25, more)
    <3>1. ASSUME NEW r, NEW k, NEW w PROVE [r EXCEPT !.at = k, !.got = w] = [[r EXCEPT !.at = k] EXCEPT !.got = w]
      OBVIOUS
    <3>2. [head EXCEPT !.at = 25] = Reader(25, first)
      BY ReaderMoved
    <3>3. [Reader(25, first) EXCEPT !.got = more] = Reader(25, more)
      BY ReaderChange
    <3>4. With(head.got, "data", data) = more
      BY <2>1, Zenon DEF more
    <3> HIDE DEF head
    <3> QED BY <3>1, <3>2, <3>3, <3>4, Zenon
  <2>3. LoadPage(data) = LoadLayout(data, head)
    BY <1>7, PageHeaderSame, Zenon DEF LoadPage, A
  <2> HIDE DEF head
  <2>4. LoadLayout(data, head) = Deserialize(LayoutRead(tag), data, Reader(25, more))
    BY <2>1, <2>2, Zenon DEF LoadLayout, HEADER_SIZE
  <2> QED BY <1>3, <1>9, <2>3, <2>4, Zenon
<1>12. Reader(Behind(25, b), got).ok /\ Reader(Behind(25, b), got).got = got /\ Reader(Behind(25, b), got).at = Behind(25, b)
  BY ReaderFields
<1>13. ASSUME NEW name \in DOMAIN o \ {"data"} PROVE got[name] = o[name]
  <2>1. name \in Names(B) \/ (name \in Names(A) /\ name \in DOMAIN more \ Names(B))
    BY <1>1, <1>2, <1>6, <1>8, <1>13
  <2>2. CASE name \in Names(B)
    BY <1>10, <2>2
  <2>3. CASE name \in Names(A) /\ name \in DOMAIN more \ Names(B)
    <3>1. got[name] = more[name] /\ more[name] = first[name] /\ first[name] = o[name]
      BY <1>6, <1>8, <1>10, <1>13, <2>3
    <3> QED BY <3>1
  <2> QED BY <2>1, <2>2, <2>3
<1>14. got["data"] = data
  BY <1>1, <1>8, <1>10
<1>15. \A i \in Behind(25, b) + 1 .. PageSize : data[i] = d[i]
  <2>1. Behind(25, b) \in Nat
    BY <1>5, BehindNat
  <2>2. PageSize \in Nat
    BY ConstantsAre
  <2> TAKE i \in Behind(25, b) + 1 .. PageSize
  <2>3. i \in 1..PageSize /\ i > Behind(25, b)
    BY <2>1, <2>2
  <2> QED BY <1>4, <2>3
<1> QED BY <1>11, <1>12, <1>13, <1>14, <1>15, Zenon DEF PageAs, d

-----------------------------------------------------------------------------
(* The text of a UUID.                                                      *)

\* Sixteen bytes, and where the text of the first i of them ends.
Bytes(b) == b = [i \in 1..16 |-> b[i]] /\ \A i \in 1..16 : b[i] \in 0..255

Dashed(i) == i \in {5, 7, 9, 11}
Ends(i) ==
  2 * i + (IF i >= 5 THEN 1 ELSE 0) + (IF i >= 7 THEN 1 ELSE 0)
        + (IF i >= 9 THEN 1 ELSE 0) + (IF i >= 11 THEN 1 ELSE 0)

LEMMA EndsAre ==
  /\ Ends(0) = 0 /\ Ends(16) = 36
  /\ \A i \in 0..16 : Ends(i) \in 0..36
  /\ \A i \in 1..16 : Ends(i) = Ends(i - 1) + (IF Dashed(i) THEN 3 ELSE 2)
  /\ \A i, j \in 0..16 : j <= i => Ends(j) <= Ends(i)
  BY DEF Ends, Dashed

\* The two digits of a byte, and the dash before it.
Digits(b, i) == <<HEX[(b[i] \div 16) + 1], HEX[(b[i] % 16) + 1]>>
Dash(i) == IF i \in {5, 7, 9, 11} THEN <<"-">> ELSE <<>>

LEMMA DigitsHave ==
  ASSUME NEW b, NEW i
  PROVE  /\ Seqs(Digits(b, i)) /\ Len(Digits(b, i)) = 2
         /\ Digits(b, i)[1] = HEX[(b[i] \div 16) + 1] /\ Digits(b, i)[2] = HEX[(b[i] % 16) + 1]
  BY DEF Digits, Seqs

LEMMA DashHas ==
  ASSUME NEW i
  PROVE  /\ Seqs(Dash(i)) /\ Len(Dash(i)) = IF Dashed(i) THEN 1 ELSE 0
         /\ Dashed(i) => Dash(i)[1] = "-"
<1>1. CASE Dashed(i)
  <2>1. Dash(i) = <<"-">>
    BY <1>1 DEF Dash, Dashed
  <2>2. Seqs(<<"-">>) /\ Len(<<"-">>) = 1 /\ <<"-">>[1] = "-"
    BY DEF Seqs
  <2> QED BY <1>1, <2>1, <2>2
<1>2. CASE ~Dashed(i)
  <2>1. Dash(i) = Empty
    BY <1>2 DEF Dash, Dashed, Empty
  <2> QED BY <1>2, <2>1, NoBytes
<1> QED BY <1>1, <1>2

\* The turns of the loop that writes the text.
TextNext(b, so, i) == Cat(Cat(so, Dash(i)), Digits(b, i))
TextWritten(out, b, n) == out = [i \in 0..n |-> IF i = 0 THEN <<>> ELSE TextNext(b, out[i - 1], i)]

LEMMA TextExists ==
  ASSUME NEW b, NEW n \in Nat
  PROVE  \E out : TextWritten(out, b, n)
<1> DEFINE S == {k \in 0..n : \E g : TextWritten(g, b, k)}
<1>1. 0 \in S
  <2> DEFINE g == [i \in 0..0 |-> <<>>]
  <2>1. g = [i \in 0..0 |-> IF i = 0 THEN <<>> ELSE TextNext(b, g[i - 1], i)]
    OBVIOUS
  <2>2. TextWritten(g, b, 0)
    BY ONLY <2>1 DEF TextWritten
  <2> QED BY <2>2
<1>2. ASSUME NEW i \in 1..n, i - 1 \in S PROVE i \in S
  <2>1. PICK g : TextWritten(g, b, i - 1)
    BY <1>2
  <2> DEFINE h == [j \in 0..i |-> IF j = i THEN TextNext(b, g[i - 1], i) ELSE g[j]]
  <2>2. \A j \in 0 .. i - 1 : g[j] = IF j = 0 THEN <<>> ELSE TextNext(b, g[j - 1], j)
    BY <2>1 DEF TextWritten
  <2>3. ASSUME NEW j \in 0..i PROVE h[j] = IF j = 0 THEN <<>> ELSE TextNext(b, h[j - 1], j)
    <3>1. CASE j = i
      <4>1. h[i] = TextNext(b, g[i - 1], i) /\ h[i - 1] = g[i - 1]
        OBVIOUS
      <4> QED BY <3>1, <4>1
    <3>2. CASE j # i
      <4>1. j \in 0 .. i - 1 /\ h[j] = g[j]
        BY <3>2
      <4>2. j # 0 => h[j - 1] = g[j - 1]
        BY <4>1
      <4> QED BY <2>2, <4>1, <4>2
    <3> QED BY <3>1, <3>2
  <2>4. h = [j \in 0..i |-> IF j = 0 THEN <<>> ELSE TextNext(b, h[j - 1], j)]
    <3>1. h = [j \in 0..i |-> h[j]]
      OBVIOUS
    <3> HIDE DEF h
    <3> QED BY <2>3, <3>1
  <2>5. TextWritten(h, b, i)
    BY ONLY <2>4 DEF TextWritten
  <2> QED BY <2>5
<1>3. n \in S
  <2> HIDE DEF S
  <2> QED BY <1>1, <1>2, UpTo
<1> QED BY <1>3

LEMMA TextTurns ==
  ASSUME NEW b
  PROVE  \E out : /\ out[0] = Empty /\ TextOf(b) = out[16]
                  /\ \A i \in 1..16 : out[i] = TextNext(b, out[i - 1], i)
<1>1. \E e : TextWritten(e, b, 16)
  BY TextExists
<1>2. PICK out : TextWritten(out, b, 16) /\ TextOf(b) = out[16]
  BY <1>1, Zenon DEF TextOf, TextWritten, TextNext, Cat, Dash, Digits, UUID_SIZE
<1>3. out[0] = <<>> /\ \A i \in 1..16 : out[i] = TextNext(b, out[i - 1], i)
  BY <1>2 DEF TextWritten
<1> QED BY <1>2, <1>3 DEF Empty

\* The text s says the first i bytes.
Says(s, b, i) ==
  /\ Seqs(s) /\ Len(s) = Ends(i)
  /\ \A j \in 1..i : /\ s[Ends(j) - 1] = HEX[(b[j] \div 16) + 1] /\ s[Ends(j)] = HEX[(b[j] % 16) + 1]
                     /\ Dashed(j) => s[Ends(j) - 2] = "-"

LEMMA SaysNext ==
  ASSUME NEW b, NEW i \in 1..16, NEW s, Says(s, b, i - 1)
  PROVE  Says(TextNext(b, s, i), b, i)
<1> DEFINE d == Dash(i)
           t == Digits(b, i)
           u == Cat(s, d)
           w == Cat(u, t)
           n == Len(s)
           m == Len(d)
<1>1. /\ Seqs(t) /\ Len(t) = 2 /\ t[1] = HEX[(b[i] \div 16) + 1] /\ t[2] = HEX[(b[i] % 16) + 1]
      /\ Seqs(d) /\ m = (IF Dashed(i) THEN 1 ELSE 0) /\ (Dashed(i) => d[1] = "-")
  BY DigitsHave, DashHas
<1>2. Seqs(s) /\ n = Ends(i - 1) /\ n \in Nat /\ m \in Nat
  BY <1>1, SeqsHave DEF Says
<1> HIDE DEF d, t
<1>3. /\ Seqs(u) /\ Len(u) = n + m /\ (\A k \in 1..n : u[k] = s[k]) /\ \A k \in 1..m : u[n + k] = d[k]
  <2>1. Seqs(s) /\ Seqs(d)
    BY <1>1, <1>2
  <2> QED BY ONLY <2>1, SeqsCat
<1> HIDE DEF u
<1>4. /\ Seqs(w) /\ Len(w) = Len(u) + 2 /\ (\A k \in 1 .. Len(u) : w[k] = u[k])
      /\ w[Len(u) + 1] = t[1] /\ w[Len(u) + 2] = t[2]
  <2>1. /\ Seqs(w) /\ Len(w) = Len(u) + Len(t) /\ (\A k \in 1 .. Len(u) : w[k] = u[k])
        /\ \A k \in 1 .. Len(t) : w[Len(u) + k] = t[k]
    <3>1. Seqs(u) /\ Seqs(t)
      BY <1>1, <1>3
    <3> QED BY ONLY <3>1, SeqsCat
  <2> HIDE DEF w
  <2> QED BY <1>1, <2>1
<1> HIDE DEF w, n, m
<1>5. Ends(i) = n + (IF Dashed(i) THEN 3 ELSE 2) /\ n \in 0..36
  BY <1>2, EndsAre
<1>6. Len(u) = Ends(i) - 2 /\ Len(u) \in Nat
  BY <1>1, <1>2, <1>3, <1>5
<1>7. w[Ends(i) - 1] = t[1] /\ w[Ends(i)] = t[2] /\ Len(w) = Ends(i)
  <2>1. (Ends(i) - 2) + 1 = Ends(i) - 1 /\ (Ends(i) - 2) + 2 = Ends(i)
    BY <1>5
  <2> QED BY <1>4, <1>6, <2>1
<1>8. Dashed(i) => w[Ends(i) - 2] = "-"
  <2> HAVE Dashed(i)
  <2>1. Ends(i) - 2 = n + 1 /\ m = 1 /\ n + 1 \in 1 .. Len(u)
    BY <1>1, <1>2, <1>3, <1>5
  <2> QED BY <1>1, <1>3, <1>4, <2>1
<1>9. \A k \in 1..n : w[k] = s[k]
  BY <1>2, <1>3, <1>4
<1>10. ASSUME NEW j \in 1 .. i - 1
       PROVE  /\ w[Ends(j) - 1] = HEX[(b[j] \div 16) + 1] /\ w[Ends(j)] = HEX[(b[j] % 16) + 1]
              /\ Dashed(j) => w[Ends(j) - 2] = "-"
  <2>1. j \in 1..16 /\ i - 1 \in 0..16 /\ j \in 0..16 /\ j <= i - 1 /\ j - 1 \in 0..16
    OBVIOUS
  <2>2. Ends(j) <= n /\ Ends(j) = Ends(j - 1) + (IF Dashed(j) THEN 3 ELSE 2) /\ Ends(j - 1) \in 0..36
    BY <1>2, <2>1, EndsAre
  <2>3. Ends(j) - 1 \in 1..n /\ Ends(j) \in 1..n /\ (Dashed(j) => Ends(j) - 2 \in 1..n)
    BY <1>5, <2>2
  <2> QED BY <1>9, <2>3, <1>10 DEF Says
<1>11. \A j \in 1..i : /\ w[Ends(j) - 1] = HEX[(b[j] \div 16) + 1] /\ w[Ends(j)] = HEX[(b[j] % 16) + 1]
                       /\ Dashed(j) => w[Ends(j) - 2] = "-"
  <2> TAKE j \in 1..i
  <2>1. CASE j = i
    BY <1>1, <1>7, <1>8, <2>1
  <2>2. CASE j # i
    <3>1. j \in 1 .. i - 1
      BY <2>2
    <3> QED BY <1>10, <3>1
  <2> QED BY <2>1, <2>2
<1>12. Says(w, b, i)
  BY <1>4, <1>7, <1>11 DEF Says
<1> QED BY <1>12 DEF TextNext, w, u, d, t

LEMMA TextSays ==
  ASSUME NEW b
  PROVE  Says(TextOf(b), b, 16)
<1>1. PICK out : /\ out[0] = Empty /\ TextOf(b) = out[16]
                 /\ \A i \in 1..16 : out[i] = TextNext(b, out[i - 1], i)
  BY TextTurns
<1> DEFINE S == {i \in 0..16 : Says(out[i], b, i)}
<1>2. 0 \in S
  <2>1. Says(Empty, b, 0)
    BY NoBytes, EndsAre DEF Says
  <2> QED BY <1>1, <2>1
<1>3. ASSUME NEW i \in 1..16, i - 1 \in S PROVE i \in S
  BY <1>1, <1>3, SaysNext
<1>4. \A i \in 0..16 : i \in S
  <2> HIDE DEF S
  <2>1. ASSUME NEW n, n = 16 PROVE \A i \in 0..n : i \in S
    <3>1. n \in Nat /\ \A i \in 1..n : i - 1 \in S => i \in S
      BY <1>3, <2>1
    <3> QED BY ONLY <1>2, <3>1, UpTo
  <2> QED BY <2>1
<1>5. 16 \in S
  BY <1>4
<1> QED BY <1>1, <1>5

\* Every digit is the digit of one number.
LEMMA HexIs ==
  ASSUME NEW d \in 0..15
  PROVE  IsHex(HEX[d + 1]) /\ HexToByte(HEX[d + 1]) = d /\ HEX[d + 1] # "-"
<1> DEFINE Is(e) == HEX[e + 1] = HEX[d + 1] \/ (e >= 10 /\ UpperHEX[e - 9] = HEX[d + 1])
<1>1. /\ HEX[1] = "0" /\ HEX[2] = "1" /\ HEX[3] = "2" /\ HEX[4] = "3"
      /\ HEX[5] = "4" /\ HEX[6] = "5" /\ HEX[7] = "6" /\ HEX[8] = "7"
      /\ HEX[9] = "8" /\ HEX[10] = "9" /\ HEX[11] = "a" /\ HEX[12] = "b"
      /\ HEX[13] = "c" /\ HEX[14] = "d" /\ HEX[15] = "e" /\ HEX[16] = "f"
  BY DEF HEX
<1>2. /\ UpperHEX[1] = "A" /\ UpperHEX[2] = "B" /\ UpperHEX[3] = "C" /\ UpperHEX[4] = "D"
      /\ UpperHEX[5] = "E" /\ UpperHEX[6] = "F"
  BY DEF UpperHEX
<1>3. \A e \in 0..15 : Is(e) => e = d
  BY <1>1, <1>2
<1>4. Is(d)
  OBVIOUS
<1>5. HexToByte(HEX[d + 1]) = d
  <2> HIDE DEF Is
  <2>1. HexToByte(HEX[d + 1]) = CHOOSE e \in 0..15 : Is(e)
    BY DEF HexToByte, Is
  <2> QED BY <1>3, <1>4, <2>1
<1>6. HEX[d + 1] # "-"
  BY <1>1
<1> QED BY <1>4, <1>5, <1>6 DEF IsHex

\* The turns of the loop that reads the text.
Begin == [bytes |-> <<>>, next |-> 1, ok |-> TRUE]
TextRead(after, str, n) == after = [i \in 0..n |-> IF i = 0 THEN Begin ELSE Parsed(str, after[i - 1], i)]

LEMMA TextReadExists ==
  ASSUME NEW str, NEW n \in Nat
  PROVE  \E after : TextRead(after, str, n)
<1> DEFINE S == {k \in 0..n : \E g : TextRead(g, str, k)}
<1>1. 0 \in S
  <2> DEFINE g == [i \in 0..0 |-> Begin]
  <2>1. g = [i \in 0..0 |-> IF i = 0 THEN Begin ELSE Parsed(str, g[i - 1], i)]
    OBVIOUS
  <2>2. TextRead(g, str, 0)
    BY ONLY <2>1 DEF TextRead
  <2> QED BY <2>2
<1>2. ASSUME NEW i \in 1..n, i - 1 \in S PROVE i \in S
  <2>1. PICK g : TextRead(g, str, i - 1)
    BY <1>2
  <2> DEFINE h == [j \in 0..i |-> IF j = i THEN Parsed(str, g[i - 1], i) ELSE g[j]]
  <2>2. \A j \in 0 .. i - 1 : g[j] = IF j = 0 THEN Begin ELSE Parsed(str, g[j - 1], j)
    BY <2>1 DEF TextRead
  <2>3. ASSUME NEW j \in 0..i PROVE h[j] = IF j = 0 THEN Begin ELSE Parsed(str, h[j - 1], j)
    <3>1. CASE j = i
      <4>1. h[i] = Parsed(str, g[i - 1], i) /\ h[i - 1] = g[i - 1]
        OBVIOUS
      <4> QED BY <3>1, <4>1
    <3>2. CASE j # i
      <4>1. j \in 0 .. i - 1 /\ h[j] = g[j]
        BY <3>2
      <4>2. j # 0 => h[j - 1] = g[j - 1]
        BY <4>1
      <4> QED BY <2>2, <4>1, <4>2
    <3> QED BY <3>1, <3>2
  <2>4. h = [j \in 0..i |-> IF j = 0 THEN Begin ELSE Parsed(str, h[j - 1], j)]
    <3>1. h = [j \in 0..i |-> h[j]]
      OBVIOUS
    <3> HIDE DEF h
    <3> QED BY <2>3, <3>1
  <2>5. TextRead(h, str, i)
    BY ONLY <2>4 DEF TextRead
  <2> QED BY <2>5
<1>3. n \in S
  <2> HIDE DEF S
  <2> QED BY <1>1, <1>2, UpTo
<1> QED BY <1>3

LEMMA FromTextTurns ==
  ASSUME NEW str, Len(str) = 36
  PROVE  \E after : /\ after[0] = Begin /\ FromText(str) = Whole(after[36])
                    /\ \A i \in 1..36 : after[i] = Parsed(str, after[i - 1], i)
<1>1. \E e : TextRead(e, str, 36)
  BY TextReadExists
<1>2. PICK after : TextRead(after, str, 36) /\ FromText(str) = Whole(after[36])
  BY <1>1, Zenon DEF FromText, TextRead, Begin, STR_SIZE
<1>3. after[0] = Begin /\ \A i \in 1..36 : after[i] = Parsed(str, after[i - 1], i)
  BY <1>2 DEF TextRead
<1> QED BY <1>2, <1>3

\* A parser that has read these bytes and goes on at `next`.
Parser(got, next) == [bytes |-> got, next |-> next, ok |-> TRUE]

LEMMA ParserFields ==
  ASSUME NEW got, NEW next, NEW r, r = Parser(got, next)
  PROVE  r.bytes = got /\ r.next = next /\ r.ok
  BY DEF Parser

LEMMA ParserMoved ==
  ASSUME NEW got, NEW next, NEW r, r = Parser(got, next), NEW n
  PROVE  [r EXCEPT !.next = n] = Parser(got, n)
<1>1. ASSUME NEW o PROVE [[bytes |-> got, next |-> next, ok |-> o] EXCEPT !.next = n] = [bytes |-> got, next |-> n, ok |-> o]
  OBVIOUS
<1> QED BY <1>1, Zenon DEF Parser

Took(r, more, next) == [r EXCEPT !.bytes = more, !.next = next]

LEMMA ParserRead ==
  ASSUME NEW got, NEW next, NEW r, r = Parser(got, next), NEW n, NEW more
  PROVE  Took(r, more, n) = Parser(more, n)
<1>1. ASSUME NEW o
      PROVE  [[bytes |-> got, next |-> next, ok |-> o] EXCEPT !.bytes = more] = [bytes |-> more, next |-> next, ok |-> o]
  OBVIOUS
<1>2. ASSUME NEW o
      PROVE  [[bytes |-> more, next |-> next, ok |-> o] EXCEPT !.next = n] = [bytes |-> more, next |-> n, ok |-> o]
  OBVIOUS
<1>3. [r EXCEPT !.bytes = more, !.next = n] = [[r EXCEPT !.bytes = more] EXCEPT !.next = n]
  OBVIOUS
<1> QED BY <1>1, <1>2, <1>3, Zenon DEF Parser, Took

LEMMA ParseSkips ==
  ASSUME NEW str, NEW got, NEW next, NEW i, i < next, NEW r, r = Parser(got, next)
  PROVE  Parsed(str, r, i) = r
<1>1. i < r.next
  BY ParserFields
<1> QED BY <1>1, Zenon DEF Parsed

LEMMA ParseDash ==
  ASSUME NEW str, NEW got, NEW i \in Nat, str[i] = "-", NEW r, r = Parser(got, i)
  PROVE  Parsed(str, r, i) = Parser(got, i + 1)
<1>1. ~(i < r.next) /\ r.next = i /\ r.ok
  BY ParserFields
<1>2. [r EXCEPT !.next = i + 1] = Parser(got, i + 1)
  BY ParserMoved
<1>3. Parsed(str, r, i) = [r EXCEPT !.next = i + 1]
  BY ONLY <1>1, str[i] = "-", Zenon DEF Parsed
<1> QED BY <1>2, <1>3

\* The two digits of a byte, and what they say.
ByteAt(str, i, h, l) ==
  i \in 1..35 /\ h \in 0..15 /\ l \in 0..15 /\ str[i] = HEX[h + 1] /\ str[i + 1] = HEX[l + 1]
ByteOf(h, l) == h * 16 + l

LEMMA ParseByte ==
  ASSUME NEW str, NEW got, NEW i, NEW h, NEW l, ByteAt(str, i, h, l), Len(got) \in 0..15,
         NEW r, r = Parser(got, i)
  PROVE  Parsed(str, r, i) = Parser(Append(got, ByteOf(h, l)), i + 2)
<1>1. r.bytes = got /\ r.next = i /\ r.ok
  BY ParserFields
<1>2. /\ str[i] # "-" /\ IsHex(str[i]) /\ HexToByte(str[i]) = h
      /\ str[i + 1] # "-" /\ IsHex(str[i + 1]) /\ HexToByte(str[i + 1]) = l
  BY HexIs DEF ByteAt
<1>3. ~(Len(r.bytes) >= UUID_SIZE) /\ ~(i + 1 > STR_SIZE) /\ ~(i < r.next)
  <2>1. ~(Len(got) >= UUID_SIZE)
    <3>1. ASSUME NEW n \in 0..15 PROVE ~(n >= UUID_SIZE)
      BY DEF UUID_SIZE
    <3> QED BY <3>1, Zenon
  <2>2. ~(i + 1 > STR_SIZE) /\ ~(i < i)
    BY DEF STR_SIZE, ByteAt
  <2> QED BY <1>1, <2>1, <2>2
<1>4. Took(r, Append(r.bytes, ByteOf(h, l)), i + 2) = Parser(Append(got, ByteOf(h, l)), i + 2)
  BY <1>1, ParserRead
<1>5. Parsed(str, r, i) = Took(r, Append(r.bytes, ByteOf(HexToByte(str[i]), HexToByte(str[i + 1]))), i + 2)
  BY ONLY <1>1, <1>2, <1>3, Zenon DEF Parsed, Took, ByteOf
<1> QED BY <1>2, <1>4, <1>5

\* A byte is its two digits.
LEMMA TwoDigits ==
  ASSUME NEW x \in 0..255
  PROVE  x \div 16 \in 0..15 /\ x % 16 \in 0..15 /\ (x \div 16) * 16 + (x % 16) = x
  OBVIOUS

LEMMA ParseNext ==
  ASSUME NEW b, Bytes(b), NEW str, Says(str, b, 16), NEW after,
         \A i \in 1..36 : after[i] = Parsed(str, after[i - 1], i),
         NEW j \in 1..16, after[Ends(j - 1)] = Parser(Front(b, j - 1), Ends(j - 1) + 1)
  PROVE  after[Ends(j)] = Parser(Front(b, j), Ends(j) + 1)
<1> DEFINE got == Front(b, j - 1)
           n == Ends(j - 1)
           m == Ends(j)
           h == b[j] \div 16
           l == b[j] % 16
<1>1. /\ n \in 0..36 /\ m \in 0..36 /\ m = n + (IF Dashed(j) THEN 3 ELSE 2)
  <2>1. j - 1 \in 0..16 /\ j \in 0..16
    OBVIOUS
  <2> QED BY <2>1, EndsAre
<1>2. /\ str[m - 1] = HEX[h + 1] /\ str[m] = HEX[l + 1]
      /\ Dashed(j) => str[m - 2] = "-"
  BY DEF Says
<1>3. h \in 0..15 /\ l \in 0..15 /\ ByteOf(h, l) = b[j]
  <2>1. b[j] \in 0..255
    BY DEF Bytes
  <2> QED BY <2>1, TwoDigits DEF ByteOf
<1>4. Len(got) = j - 1
  <2>1. got = [k \in 1 .. j - 1 |-> got[k]] /\ j - 1 \in Nat
    BY DEF Front
  <2> HIDE DEF got
  <2> QED BY <2>1, SeqsMade
<1>5. Append(got, b[j]) = Front(b, j)
  <2>1. j \in Nat \ {0}
    OBVIOUS
  <2> QED BY ONLY <2>1, FrontNext DEF got
<1>6. after[n] = Parser(got, n + 1)
  OBVIOUS
<1> HIDE DEF got, n, m, h, l
<1>7. after[m - 2] = Parser(got, m - 1)
  <2>1. CASE Dashed(j)
    <3>1. m - 2 = n + 1 /\ m - 2 \in 1..36 /\ m - 1 = (n + 1) + 1 /\ n + 1 \in Nat /\ (m - 2) - 1 = n
      BY <1>1, <2>1
    <3>2. after[m - 2] = Parsed(str, Parser(got, n + 1), n + 1)
      BY <1>6, <3>1
    <3>3. str[n + 1] = "-"
      BY <1>2, <2>1, <3>1
    <3>4. Parsed(str, Parser(got, n + 1), n + 1) = Parser(got, (n + 1) + 1)
      BY <3>1, <3>3, ParseDash
    <3> QED BY <3>1, <3>2, <3>4
  <2>2. CASE ~Dashed(j)
    <3>1. m - 2 = n /\ m - 1 = n + 1
      BY <1>1, <2>2
    <3> QED BY <1>6, <3>1
  <2> QED BY <2>1, <2>2
<1>8. m - 1 \in 1..36 /\ m \in 1..36 /\ (m - 1) - 1 = m - 2 /\ (m - 1) + 1 = m /\ (m - 1) + 2 = m + 1 /\ m < m + 1 /\ m - 1 \in Nat
  BY <1>1
<1>9. after[m - 1] = Parsed(str, Parser(got, m - 1), m - 1)
  BY <1>7, <1>8
<1>10. Parsed(str, Parser(got, m - 1), m - 1) = Parser(Append(got, ByteOf(h, l)), (m - 1) + 2)
  <2>1. ByteAt(str, m - 1, h, l)
    <3>1. m - 1 \in 1..35 /\ (m - 1) + 1 = m
      BY <1>1, <1>8
    <3> QED BY <1>2, <1>3, <3>1 DEF ByteAt
  <2>2. Len(got) \in 0..15
    BY ONLY j \in 1..16, <1>4
  <2> QED BY ONLY <2>1, <2>2, ParseByte
<1>11. after[m - 1] = Parser(Front(b, j), m + 1)
  BY <1>3, <1>5, <1>8, <1>9, <1>10
<1>12. after[m] = Parsed(str, after[m - 1], m)
  BY <1>8
<1>13. Parsed(str, after[m - 1], m) = after[m - 1]
  BY <1>8, <1>11, ParseSkips
<1>14. after[m] = Parser(Front(b, j), m + 1)
  BY <1>11, <1>12, <1>13
<1> QED BY <1>14 DEF m

\* What the text says is what is read from it.
LEMMA TextBack ==
  ASSUME NEW b, Bytes(b)
  PROVE  FromText(TextOf(b)).ok /\ FromText(TextOf(b)).bytes = b
<1> DEFINE str == TextOf(b)
<1>1. Says(str, b, 16)
  BY TextSays
<1> HIDE DEF str
<1>2. Len(str) = 36
  BY <1>1, EndsAre DEF Says
<1>3. PICK after : /\ after[0] = Begin /\ FromText(str) = Whole(after[36])
                   /\ \A i \in 1..36 : after[i] = Parsed(str, after[i - 1], i)
  BY <1>2, FromTextTurns
<1> DEFINE S == {j \in 0..16 : after[Ends(j)] = Parser(Front(b, j), Ends(j) + 1)}
<1>4. 0 \in S
  <2>1. Ends(0) = 0 /\ Ends(0) + 1 = 1
    BY EndsAre
  <2>2. Front(b, 0) = <<>>
    BY FrontNone DEF Empty
  <2>3. Begin = Parser(Front(b, 0), 1)
    BY <2>2 DEF Begin, Parser
  <2> QED BY <1>3, <2>1, <2>3
<1>5. ASSUME NEW j \in 1..16, j - 1 \in S PROVE j \in S
  BY <1>1, <1>3, <1>5, ParseNext
<1>6. \A j \in 0..16 : j \in S
  <2> HIDE DEF S
  <2>1. ASSUME NEW n, n = 16 PROVE \A i \in 0..n : i \in S
    <3>1. n \in Nat /\ \A i \in 1..n : i - 1 \in S => i \in S
      BY <1>5, <2>1
    <3> QED BY ONLY <1>4, <3>1, UpTo
  <2> QED BY <2>1
<1>7. Ends(16) = 36
  BY EndsAre
<1>8. after[36] = Parser(Front(b, 16), 36 + 1)
  BY <1>6, <1>7
<1>9. Front(b, 16) = b /\ Len(b) = 16
  <2>1. Seqs(b) /\ Len(b) = 16
    BY SeqsMade DEF Bytes
  <2> QED BY <2>1, FrontAll
<1>10. ASSUME NEW r, NEW o PROVE [r EXCEPT !.ok = o].bytes = r.bytes
  OBVIOUS
<1>11. after[36].ok /\ after[36].bytes = b
  BY <1>8, <1>9, ParserFields
<1>12. Whole(after[36]).ok /\ Whole(after[36]).bytes = b
  BY <1>8, <1>9, <1>11 DEF Whole, UUID_SIZE, Parser
<1> QED BY <1>3, <1>12 DEF str

\* The version and the variant leave sixteen bytes.
LEMMA RandomIsBytes ==
  ASSUME NEW b, Bytes(b)
  PROVE  Bytes(RandomUUID(b))
<1>1. RandomUUID(b) = [i \in 1..16 |-> IF i = 7 THEN (b[7] % 16) + 64 ELSE IF i = 9 THEN (b[9] % 64) + 128 ELSE b[i]]
  BY DEF Bytes, RandomUUID
<1>2. (b[7] % 16) + 64 \in 0..255 /\ (b[9] % 64) + 128 \in 0..255
  BY DEF Bytes
<1> DEFINE r == RandomUUID(b)
<1>3. r = [i \in 1..16 |-> r[i]]
  BY <1>1
<1>4. ASSUME NEW i \in 1..16 PROVE r[i] \in 0..255
  <2>1. r[i] = IF i = 7 THEN (b[7] % 16) + 64 ELSE IF i = 9 THEN (b[9] % 64) + 128 ELSE b[i]
    BY <1>1
  <2>2. b[i] \in 0..255
    BY DEF Bytes
  <2> HIDE DEF r
  <2> QED BY <1>2, <2>1, <2>2
<1> HIDE DEF r
<1>5. Bytes(r)
  BY <1>3, <1>4 DEF Bytes
<1> QED BY <1>5 DEF r

-----------------------------------------------------------------------------
(* The steps of the machine, for each format.                               *)

LEMMA KindsApart ==
  ASSUME NEW f \in Formats
  PROVE  /\ f \in Entries => f # "folder" /\ f \notin IndexEntries /\ f # "header" /\ f # "preamble"
                             /\ f \notin Images /\ f # "uuid"
         /\ f = "folder" => f \notin IndexEntries /\ f # "header" /\ f # "preamble"
                            /\ f \notin Images /\ f # "uuid"
         /\ f \in IndexEntries => f # "header" /\ f # "preamble" /\ f \notin Images /\ f # "uuid"
         /\ f = "header" => f # "preamble" /\ f \notin Images /\ f # "uuid"
         /\ f = "preamble" => f \notin Images /\ f # "uuid"
         /\ f \in Images => f # "uuid"
         /\ f \in Encrypted <=> f \in Entries \/ f = "folder" \/ f \in IndexEntries \/ f = "header"
         /\ f \in Records <=> f \in Entries \/ f = "folder" \/ f \in IndexEntries
         /\ f \in Encrypted \/ f = "preamble" \/ f \in Images \/ f = "uuid"
  BY DEF Formats, Encrypted, Records, Entries, IndexEntries, Images

\* What SerializeIt writes and what DeserializeIt reads.
WrittenAs(f, o) ==
  CASE f \in Entries -> SerializeEntry(o)
    [] f = "folder" -> Serialize(FolderWritten, o)
    [] f \in IndexEntries -> SerializeIndexEntry(o)
    [] f = "header" -> Serialize(HeaderWritten, o)
    [] f = "preamble" -> Serialize(PreambleWritten, o)
    [] f \in Images -> WritePage(o)
    [] f = "uuid" -> TextOf(RandomUUID(o["id"]))

UUIDRead(r) == [Start(0) EXCEPT !.ok = r.ok, !.got = [id |-> r.bytes]]

ReadOf(f, data) ==
  CASE f \in Entries -> DeserializeEntry(data)
    [] f = "folder" -> Deserialize(FolderRead, data, Start(0))
    [] f \in IndexEntries -> DeserializeIndexEntry(data)
    [] f = "header" -> Deserialize(HeaderRead, data, Start(0))
    [] f = "preamble" -> Deserialize(PreambleRead, data, Start(0))
    [] f \in Images -> LoadPage(data)
    [] f = "uuid" -> UUIDRead(FromText(data))

Plain(f, o) == Serialize(Fields(f), o)

LEMMA WrittenPlain ==
  ASSUME NEW f \in Formats, NEW o, Typed(f, o), f \in Encrypted \/ f = "preamble"
  PROVE  WrittenAs(f, o) = Plain(f, o)
<1>1. CASE f \in Entries
  <2>1. WrittenAs(f, o) = SerializeEntry(o)
    BY <1>1, KindsApart, Zenon DEF WrittenAs
  <2>2. SerializeEntry(o) = Plain(f, o)
    BY <1>1, EntryBack DEF Plain
  <2> QED BY <2>1, <2>2
<1>2. CASE f = "folder"
  <2>1. WrittenAs(f, o) = Serialize(FolderWritten, o)
    BY <1>2, KindsApart, Zenon DEF WrittenAs
  <2> QED BY <1>2, <2>1, FieldsAre, Zenon DEF Plain
<1>3. CASE f \in IndexEntries
  <2>1. WrittenAs(f, o) = SerializeIndexEntry(o)
    BY <1>3, KindsApart, Zenon DEF WrittenAs
  <2>2. SerializeIndexEntry(o) = Plain(f, o)
    BY <1>3, IndexBack DEF Plain
  <2> QED BY <2>1, <2>2
<1>4. CASE f = "header"
  <2>1. WrittenAs(f, o) = Serialize(HeaderWritten, o)
    BY <1>4, KindsApart, Zenon DEF WrittenAs
  <2> QED BY <1>4, <2>1, FieldsAre, Zenon DEF Plain
<1>5. CASE f = "preamble"
  <2>1. WrittenAs(f, o) = Serialize(PreambleWritten, o)
    BY <1>5, KindsApart, Zenon DEF WrittenAs
  <2> QED BY <1>5, <2>1, FieldsAre, Zenon DEF Plain
<1> QED BY <1>1, <1>2, <1>3, <1>4, <1>5, KindsApart

LEMMA PlainBack ==
  ASSUME NEW f \in Formats, NEW o, Typed(f, o), f \in Encrypted \/ f = "preamble"
  PROVE  ReadAs(ReadOf(f, Plain(f, o)), o)
<1> DEFINE data == Plain(f, o)
<1>1. ReadAs(Deserialize(Fields(f), data, Start(0)), o)
  BY ReadWhole DEF Plain
<1> HIDE DEF data
<1>2. f \in Entries => ReadAs(ReadOf(f, data), o)
  <2> HAVE f \in Entries
  <2>1. ReadAs(DeserializeEntry(data), o)
    BY EntryBack DEF Plain, data
  <2>2. ReadOf(f, data) = DeserializeEntry(data)
    BY KindsApart, Zenon DEF ReadOf
  <2> QED BY <2>1, <2>2
<1>3. f \in IndexEntries => ReadAs(ReadOf(f, data), o)
  <2> HAVE f \in IndexEntries
  <2>1. ReadAs(DeserializeIndexEntry(data), o)
    BY IndexBack DEF Plain, data
  <2>2. ReadOf(f, data) = DeserializeIndexEntry(data)
    BY KindsApart, Zenon DEF ReadOf
  <2> QED BY <2>1, <2>2
<1>4. f = "folder" => ReadAs(ReadOf(f, data), o)
  <2> HAVE f = "folder"
  <2>1. ReadOf(f, data) = Deserialize(FolderRead, data, Start(0))
    BY KindsApart, Zenon DEF ReadOf
  <2> QED BY <1>1, <2>1, FieldsAre, FolderSame, Zenon
<1>5. f = "header" => ReadAs(ReadOf(f, data), o)
  <2> HAVE f = "header"
  <2>1. ReadOf(f, data) = Deserialize(HeaderRead, data, Start(0))
    BY KindsApart, Zenon DEF ReadOf
  <2> QED BY <1>1, <2>1, FieldsAre, HeaderSame, Zenon
<1>6. f = "preamble" => ReadAs(ReadOf(f, data), o)
  <2> HAVE f = "preamble"
  <2>1. ReadOf(f, data) = Deserialize(PreambleRead, data, Start(0))
    BY KindsApart, Zenon DEF ReadOf
  <2> QED BY <1>1, <2>1, FieldsAre, PreambleSame, Zenon
<1>7. ReadAs(ReadOf(f, data), o)
  BY <1>2, <1>3, <1>4, <1>5, <1>6, KindsApart
<1> QED BY <1>7 DEF data

LEMMA WrittenOpen ==
  ASSUME NEW f \in Formats, NEW o
  PROVE  /\ f \in Images => WrittenAs(f, o) = WritePage(o)
         /\ f = "uuid" => WrittenAs(f, o) = TextOf(RandomUUID(o["id"]))
<1>1. CASE f \in Images
  BY <1>1, KindsApart, Zenon DEF WrittenAs
<1>2. CASE f = "uuid"
  BY <1>2, KindsApart, Zenon DEF WrittenAs
<1> QED BY <1>1, <1>2

LEMMA ReadOpen ==
  ASSUME NEW f \in Formats, NEW data
  PROVE  /\ f \in Images => ReadOf(f, data) = LoadPage(data)
         /\ f = "uuid" => ReadOf(f, data) = UUIDRead(FromText(data))
<1>1. CASE f \in Images
  BY <1>1, KindsApart, Zenon DEF ReadOf
<1>2. CASE f = "uuid"
  BY <1>2, KindsApart, Zenon DEF ReadOf
<1> QED BY <1>1, <1>2

LEMMA PlainEncodes ==
  ASSUME NEW f \in Encrypted, NEW o, Typed(f, o)
  PROVE  Encodable(Plain(f, o))
<1>1. f \in Formats
  BY DEF Formats
<1>2. Seqs(Plain(f, o))
  BY <1>1, TypedFits, ObjectSeqs DEF Plain
<1>3. Len(Plain(f, o)) <= 22 * Chunk
  BY ObjectLength DEF Plain
<1> QED BY <1>2, <1>3 DEF Encodable

\* An object that is an identity is sixteen bytes.
LEMMA IdIsBytes ==
  ASSUME NEW o, Typed("uuid", o)
  PROVE  Bytes(o["id"])
<1> DEFINE field == Fixed("id", 16)
           v == o["id"]
<1>1. Fields("uuid") = <<field>>
  <2>1. "uuid" \in Formats
    BY DEF Formats
  <2> QED BY <2>1, FieldsAre DEF UUID_SIZE
<1>2. field.name = "id" /\ field.form = "fixed" /\ field.width = 16
  BY DEF Fixed
<1>3. Len(Fields("uuid")) = 1 /\ Fields("uuid")[1] = field
  BY <1>1
<1>4. Member("uuid", field, v)
  <2>1. Member("uuid", Fields("uuid")[1], o[Fields("uuid")[1].name])
    <3>1. 1 \in 1 .. Len(Fields("uuid"))
      BY <1>3
    <3> QED BY <3>1, Zenon DEF Typed
  <2> QED BY <1>2, <1>3, <2>1
<1> HIDE DEF field
<1>5. v \in Values(field)
  BY <1>2, <1>4 DEF Member, Tags
<1>6. PICK b \in Bits : v = Sample(field, b)
  BY <1>2, <1>5 DEF Values
<1>7. v = [i \in 1..16 |-> (b + i - 1) % 256]
  BY <1>2, <1>6 DEF Sample
<1>8. b \in 0..255
  BY ConstantsAre
<1> QED BY <1>7, <1>8 DEF Bytes

LEMMA UUIDBack ==
  ASSUME NEW o, Typed("uuid", o)
  PROVE  /\ UUIDRead(FromText(TextOf(RandomUUID(o["id"])))).ok
         /\ UUIDRead(FromText(TextOf(RandomUUID(o["id"])))).got["id"] = RandomUUID(o["id"])
<1> DEFINE b == RandomUUID(o["id"])
           r == FromText(TextOf(b))
<1>1. r.ok /\ r.bytes = b
  BY IdIsBytes, RandomIsBytes, TextBack
<1> HIDE DEF r, b
<1>2. UUIDRead(r).ok = r.ok /\ UUIDRead(r).got = [id |-> r.bytes]
  BY DEF UUIDRead, Start
<1>3. UUIDRead(r).ok /\ UUIDRead(r).got["id"] = b
  BY <1>1, <1>2
<1> QED BY <1>3 DEF r, b

\* What is on the disk of an object that is encrypted, whole and cut.
SealedAs(f, o, packed) ==
  /\ PackedFrom(packed, Plain(f, o))
  /\ f \notin Entries \cup {"folder"} => packed = [type |-> None, data |-> Plain(f, o)]

Encoded(f, o, data) ==
  \E packed : SealedAs(f, o, packed) /\ \E nonce \in Nonces : data = Blob(packed, Plain(f, o), nonce)

CutFrom(f, o, data) ==
  \E blob, m : Encoded(f, o, blob) /\ m \in Nat /\ m < Len(blob) /\ data = SubSeq(blob, 1, m)

\* What EncodeIt may write and what DecodeIt opens.
EncodedAs(f, plain, data) ==
  \E nonce \in Nonces :
    \/ /\ f \in Entries \cup {"folder"}
       /\ \E size \in {1, Len(plain)} : data = EncodeData(plain, size, nonce)
    \/ f \in IndexEntries /\ data = EncodeIndex(plain, nonce)
    \/ f = "header" /\ data = EncodeHeader(plain, nonce)

OpenedAs(f, data, plain) ==
  \/ f \in Entries \cup {"folder"} /\ plain = DecodeData(data)
  \/ f \in IndexEntries /\ plain = DecodeIndex(data)
  \/ f = "header" /\ plain = DecodeHeader(data)

LEMMA Encodes ==
  ASSUME NEW f \in Encrypted, NEW o, Typed(f, o), NEW data, EncodedAs(f, Plain(f, o), data)
  PROVE  Encoded(f, o, data)
<1> DEFINE plain == Plain(f, o)
           bare == [type |-> None, data |-> plain]
<1>1. Encodable(plain)
  BY PlainEncodes
<1>2. PackedFrom(bare, plain)
  BY DEF PackedFrom
<1>3. SealedAs(f, o, bare)
  BY <1>2 DEF SealedAs
<1>4. PICK nonce \in Nonces :
        \/ /\ f \in Entries \cup {"folder"}
           /\ \E size \in {1, Len(plain)} : data = EncodeData(plain, size, nonce)
        \/ f \in IndexEntries /\ data = EncodeIndex(plain, nonce)
        \/ f = "header" /\ data = EncodeHeader(plain, nonce)
  BY Zenon DEF EncodedAs
<1>5. CASE f \in Entries \cup {"folder"} /\ \E size \in {1, Len(plain)} : data = EncodeData(plain, size, nonce)
  <2>1. PICK size \in {1, Len(plain)} : data = EncodeData(plain, size, nonce)
    BY <1>5
  <2>2. PackedFrom(Compress(plain, size), plain)
    BY <1>1, CompressedFrom
  <2>3. SealedAs(f, o, Compress(plain, size))
    BY <1>5, <2>2 DEF SealedAs
  <2>4. data = Blob(Compress(plain, size), plain, nonce)
    BY <2>1, Zenon DEF EncodeData
  <2> QED BY <2>3, <2>4, Zenon DEF Encoded
<1>6. CASE f \in IndexEntries /\ data = EncodeIndex(plain, nonce)
  <2>1. data = Blob(bare, plain, nonce)
    BY <1>6, Zenon DEF EncodeIndex
  <2> QED BY <1>3, <2>1, Zenon DEF Encoded
<1>7. CASE f = "header" /\ data = EncodeHeader(plain, nonce)
  <2>1. data = Blob(bare, plain, nonce)
    BY <1>7, Zenon DEF EncodeHeader
  <2> QED BY <1>3, <2>1, Zenon DEF Encoded
<1> QED BY <1>4, <1>5, <1>6, <1>7, Zenon

LEMMA EncodedLength ==
  ASSUME NEW f \in Encrypted, NEW o, Typed(f, o), NEW data, Encoded(f, o, data)
  PROVE  /\ Len(data) \in Nat
         /\ f = "header" => Len(data) = 93
<1> DEFINE plain == Plain(f, o)
<1>1. PICK packed, nonce : /\ SealedAs(f, o, packed) /\ nonce \in Nonces
                           /\ data = Blob(packed, plain, nonce)
  BY Zenon DEF Encoded
<1>2. PackedFrom(packed, plain) /\ Encodable(plain)
  BY <1>1, PlainEncodes DEF SealedAs
<1>3. Len(data) = 37 + Len(packed.data)
  BY <1>1, <1>2, BlobLength
<1>4. Len(packed.data) \in Nat
  BY <1>2, PackedHas
<1>5. f = "header" => Len(packed.data) = 56
  <2> HAVE f = "header"
  <2>1. packed.data = plain
    BY <1>1 DEF SealedAs, Entries
  <2>2. f \in Formats /\ ObjectFits(Fields(f), o)
    BY TypedFits DEF Formats
  <2>3. Fields(f) = HeaderWritten
    BY <2>2, FieldsAre
  <2>4. Len(Serialize(HeaderWritten, o)) = 56
    BY <2>2, <2>3, HeaderLength
  <2> QED BY <2>1, <2>3, <2>4 DEF Plain
<1>6. ASSUME NEW k \in Nat PROVE 37 + k \in Nat
  OBVIOUS
<1>7. Len(data) \in Nat
  BY ONLY <1>3, <1>4, <1>6
<1>8. f = "header" => Len(data) = 93
  <2> HAVE f = "header"
  <2>1. Len(data) = 37 + 56
    BY ONLY f = "header", <1>3, <1>5
  <2>2. 37 + 56 = 93
    OBVIOUS
  <2> QED BY ONLY <2>1, <2>2
<1> QED BY ONLY <1>7, <1>8

LEMMA Decodes ==
  ASSUME NEW f \in Encrypted, NEW o, Typed(f, o), NEW data, Encoded(f, o, data),
         NEW opened, OpenedAs(f, data, opened)
  PROVE  opened = Done(Plain(f, o))
<1> DEFINE plain == Plain(f, o)
           bare == [type |-> None, data |-> plain]
<1>1. PICK packed, nonce : /\ SealedAs(f, o, packed) /\ nonce \in Nonces
                           /\ data = Blob(packed, plain, nonce)
  BY Zenon DEF Encoded
<1>2. PackedFrom(packed, plain) /\ Encodable(plain)
  BY <1>1, PlainEncodes DEF SealedAs
<1>3. /\ DecodeData(Blob(packed, plain, nonce)) = Done(plain)
      /\ DecodeIndex(Blob(bare, plain, nonce)) = Done(plain)
      /\ DecodeHeader(Blob(bare, plain, nonce)) = Done(plain)
  <2>1. nonce \in Nonces
    BY <1>1
  <2> HIDE DEF plain
  <2> QED BY ONLY <1>2, <2>1, DecodesBack
<1>4. f \notin Entries \cup {"folder"} => packed = bare
  BY <1>1 DEF SealedAs
<1>5. /\ f \in IndexEntries => f \notin Entries \cup {"folder"}
      /\ f = "header" => f \notin Entries \cup {"folder"}
  BY DEF Entries, IndexEntries
<1>6. CASE f \in Entries \cup {"folder"} /\ opened = DecodeData(data)
  BY <1>1, <1>3, <1>6, Zenon
<1>7. CASE f \in IndexEntries /\ opened = DecodeIndex(data)
  BY <1>1, <1>3, <1>4, <1>5, <1>7, Zenon
<1>8. CASE f = "header" /\ opened = DecodeHeader(data)
  BY <1>1, <1>3, <1>4, <1>5, <1>8, Zenon
<1> QED BY <1>6, <1>7, <1>8, Zenon DEF OpenedAs

LEMMA CutFails ==
  ASSUME NEW f \in Encrypted, NEW o, Typed(f, o), NEW data, CutFrom(f, o, data)
  PROVE  /\ Deserialize(BlobRead, data, Start(0)).ok = FALSE
         /\ \A opened : OpenedAs(f, data, opened) => opened = Failed
<1> DEFINE plain == Plain(f, o)
           blob == Deserialize(BlobRead, data, Start(0))
<1>1. PICK all, m : Encoded(f, o, all) /\ m \in Nat /\ m < Len(all) /\ data = SubSeq(all, 1, m)
  BY Zenon DEF CutFrom
<1>2. PICK packed, nonce : /\ SealedAs(f, o, packed) /\ nonce \in Nonces
                           /\ all = Blob(packed, plain, nonce)
  BY <1>1, Zenon DEF Encoded
<1>3. PackedFrom(packed, plain) /\ Encodable(plain)
  BY <1>2, PlainEncodes DEF SealedAs
<1>4. blob.ok = FALSE
  <2> HIDE DEF plain
  <2>1. nonce \in Nonces /\ m \in Nat /\ m < Len(Blob(packed, plain, nonce))
    BY <1>1, <1>2
  <2>2. Deserialize(BlobRead, SubSeq(Blob(packed, plain, nonce), 1, m), Start(0)).ok = FALSE
    BY ONLY <1>3, <2>1, CutBlob
  <2> QED BY <1>1, <1>2, <2>2, Zenon
<1> HIDE DEF blob
<1>5. OpenBlob(blob) = Failed /\ DecodeBlob(blob) = Failed
  BY <1>4, Zenon DEF OpenBlob, DecodeBlob
<1>6. DecodeData(data) = Failed /\ DecodeIndex(data) = Failed /\ DecodeHeader(data) = Failed
  BY <1>5, Zenon DEF DecodeData, DecodeIndex, DecodeHeader, blob
<1>7. \A opened : OpenedAs(f, data, opened) => opened = Failed
  BY <1>6, Zenon DEF OpenedAs
<1> QED BY <1>4, <1>7 DEF blob

-----------------------------------------------------------------------------
(* The objects on their way, in every reachable state.                      *)

OnDisk(f, o, data) ==
  /\ f \in Encrypted => Encoded(f, o, data)
  /\ f = "preamble" => data = Plain(f, o)
  /\ f \in Images => Imaged(o, TagOf(f), data)
  /\ f = "uuid" => data = TextOf(RandomUUID(o["id"]))

Back(f, o, r) ==
  /\ f \in Encrypted \/ f = "preamble" => ReadAs(r, o)
  /\ f \in Images => PageAs(r, o)
  /\ f = "uuid" => r.ok /\ r.got["id"] = RandomUUID(o["id"])

\* At each stage the bytes are those of the object, or what was cut of them.
IInv ==
  /\ format \in Formats /\ Typed(format, object) /\ whole \in BOOLEAN
  /\ stage \in {"object", "plain", "stored", "opened", "read"}
  /\ stage = "object" => whole
  /\ stage \in {"plain", "opened"} => whole /\ format \in Encrypted /\ bytes = Plain(format, object)
  /\ stage = "stored" /\ whole => OnDisk(format, object, bytes)
  /\ stage = "stored" /\ ~whole => format \in Records /\ CutFrom(format, object, bytes)
  /\ stage = "read" /\ whole => Back(format, object, result)
  /\ stage = "read" /\ ~whole => result.ok = FALSE

LEMMA InitInv == Init => IInv
<1> SUFFICES ASSUME Init PROVE IInv
  OBVIOUS
<1>1. format \in Formats /\ object = First(format) /\ stage = "object" /\ whole = TRUE
  BY DEF Init
<1>2. Typed(format, object)
  BY <1>1, TypedFirst
<1> QED BY <1>1, <1>2 DEF IInv

LEMMA EditStep ==
  ASSUME IInv, Edit
  PROVE  IInv'
<1>1. PICK i \in DOMAIN Fields(format) :
        /\ Fields(format)[i].name \notin Tags
        /\ \E v \in Values(Fields(format)[i]) \ {object[Fields(format)[i].name]} :
             object' = [object EXCEPT ![Fields(format)[i].name] = v]
  BY Zenon DEF Edit
<1>2. PICK v \in Values(Fields(format)[i]) : object' = [object EXCEPT ![Fields(format)[i].name] = v]
  BY <1>1
<1>3. format \in Formats /\ Typed(format, object)
  BY DEF IInv
<1>4. Typed(format, object')
  BY <1>1, <1>2, <1>3, TypedEdit
<1>5. format' = format /\ stage' = "object" /\ whole' = TRUE
  BY DEF Edit
<1> QED BY <1>3, <1>4, <1>5 DEF IInv

LEMMA SerializeStep ==
  ASSUME IInv, SerializeIt
  PROVE  IInv'
<1>1. /\ stage = "object" /\ stage' = IF format \in Encrypted THEN "plain" ELSE "stored"
      /\ format' = format /\ object' = object /\ whole' = whole
  BY DEF SerializeIt
<1>2. bytes' = WrittenAs(format, object)
  BY Zenon DEF SerializeIt, WrittenAs
<1>3. format \in Formats /\ Typed(format, object) /\ whole = TRUE
  BY <1>1 DEF IInv
<1>4. format \in Encrypted \/ format = "preamble" => bytes' = Plain(format, object)
  BY <1>2, <1>3, WrittenPlain
<1>5. CASE format \in Encrypted
  BY <1>1, <1>3, <1>4, <1>5 DEF IInv
<1>6. CASE format \notin Encrypted
  <2>1. format \in Images => Imaged(object, TagOf(format), bytes')
    BY <1>2, <1>3, WrittenOpen, WritesImage
  <2>2. format = "uuid" => bytes' = TextOf(RandomUUID(object["id"]))
    BY <1>2, <1>3, WrittenOpen
  <2>3. OnDisk(format, object, bytes')
    BY <1>4, <1>6, <2>1, <2>2 DEF OnDisk
  <2>4. stage' = "stored"
    BY <1>1, <1>6
  <2> QED BY <1>1, <1>3, <2>3, <2>4 DEF IInv
<1> QED BY <1>5, <1>6

LEMMA EncodeStep ==
  ASSUME IInv, EncodeIt
  PROVE  IInv'
<1>1. /\ stage = "plain" /\ stage' = "stored"
      /\ format' = format /\ object' = object /\ whole' = whole
  BY DEF EncodeIt
<1>2. EncodedAs(format, bytes, bytes')
  BY Zenon DEF EncodeIt, EncodedAs
<1>3. /\ format \in Formats /\ Typed(format, object) /\ whole = TRUE
      /\ format \in Encrypted /\ bytes = Plain(format, object)
  BY <1>1 DEF IInv
<1>4. Encoded(format, object, bytes')
  BY <1>2, <1>3, Encodes
<1>5. OnDisk(format, object, bytes')
  BY <1>3, <1>4, KindsApart DEF OnDisk
<1> QED BY <1>1, <1>3, <1>5 DEF IInv

LEMMA CutStep ==
  ASSUME IInv, CutRecord
  PROVE  IInv'
<1>1. /\ stage = "stored" /\ whole /\ format \in Records /\ whole' = FALSE
      /\ format' = format /\ object' = object /\ stage' = stage
  BY DEF CutRecord
<1>2. PICK n \in 0 .. Len(bytes) - 1 : bytes' = SubSeq(bytes, 1, n)
  BY DEF CutRecord
<1>3. format \in Formats /\ Typed(format, object) /\ format \in Encrypted /\ OnDisk(format, object, bytes)
  BY <1>1 DEF IInv, Encrypted
<1>4. Encoded(format, object, bytes)
  BY <1>3 DEF OnDisk
<1>5. Len(bytes) \in Nat
  BY <1>3, <1>4, EncodedLength
<1>6. n \in Nat /\ n < Len(bytes)
  BY <1>5
<1>7. CutFrom(format, object, bytes')
  BY <1>2, <1>4, <1>6, Zenon DEF CutFrom
<1> QED BY <1>1, <1>3, <1>7 DEF IInv

LEMMA DecodeStep ==
  ASSUME IInv, DecodeIt
  PROVE  IInv'
<1>1. /\ stage = "stored" /\ format \in Encrypted
      /\ format' = format /\ object' = object /\ whole' = whole
  BY DEF DecodeIt
<1>2. PICK plain : OpenedAs(format, bytes, plain) /\ Opened(plain)
  <2>1. \/ OpenedAs(format, bytes, DecodeData(bytes)) /\ Opened(DecodeData(bytes))
        \/ OpenedAs(format, bytes, DecodeIndex(bytes)) /\ Opened(DecodeIndex(bytes))
        \/ OpenedAs(format, bytes, DecodeHeader(bytes)) /\ Opened(DecodeHeader(bytes))
    BY Zenon DEF DecodeIt, OpenedAs
  <2> QED BY <2>1, Zenon
<1>3. format \in Formats /\ Typed(format, object) /\ whole \in BOOLEAN
  BY DEF IInv
<1>4. CASE whole
  <2>1. Encoded(format, object, bytes)
    BY <1>1, <1>4 DEF IInv, OnDisk
  <2>2. plain = Done(Plain(format, object))
    BY <1>1, <1>2, <1>3, <2>1, Decodes
  <2>3. plain.ok = TRUE /\ plain.bytes = Plain(format, object)
    BY <2>2 DEF Done
  <2>4. stage' = "opened" /\ bytes' = Plain(format, object)
    BY <1>2, <2>3, Zenon DEF Opened
  <2> QED BY <1>1, <1>3, <1>4, <2>4 DEF IInv
<1>5. CASE ~whole
  <2>1. CutFrom(format, object, bytes)
    BY <1>1, <1>5 DEF IInv
  <2>2. plain = Failed
    BY <1>1, <1>2, <1>3, <2>1, CutFails, Zenon
  <2>3. plain.ok = FALSE
    BY <2>2 DEF Failed
  <2>4. stage' = "read" /\ result' = Threw(NoResult)
    BY <1>2, <2>3, Zenon DEF Opened
  <2>5. Threw(NoResult).ok = FALSE
    BY DEF Threw, NoResult, Start
  <2> QED BY <1>1, <1>3, <1>5, <2>4, <2>5 DEF IInv
<1> QED BY <1>4, <1>5

LEMMA DeserializeStep ==
  ASSUME IInv, DeserializeIt
  PROVE  IInv'
<1>1. /\ stage = IF format \in Encrypted THEN "opened" ELSE "stored"
      /\ stage' = "read"
      /\ format' = format /\ object' = object /\ whole' = whole
  BY DEF DeserializeIt
<1>2. result' = ReadOf(format, bytes)
  BY Zenon DEF DeserializeIt, ReadOf, UUIDRead
<1>3. format \in Formats /\ Typed(format, object) /\ whole \in BOOLEAN
  BY DEF IInv
<1>4. format \in Encrypted => whole /\ bytes = Plain(format, object)
  BY <1>1 DEF IInv
<1>5. format \notin Encrypted => whole /\ OnDisk(format, object, bytes)
  <2>1. format \notin Encrypted => format \notin Records
    BY DEF Encrypted
  <2> QED BY <1>1, <1>3, <2>1 DEF IInv
<1>6. format \in Encrypted \/ format = "preamble" => ReadAs(result', object)
  <2> HAVE format \in Encrypted \/ format = "preamble"
  <2>1. bytes = Plain(format, object)
    BY <1>4, <1>5 DEF OnDisk
  <2> QED BY <1>2, <1>3, <2>1, PlainBack
<1>7. format \in Images => PageAs(result', object)
  <2> HAVE format \in Images
  <2>1. format \notin Encrypted
    BY <1>3, KindsApart
  <2>2. Imaged(object, TagOf(format), bytes)
    BY <1>5, <2>1 DEF OnDisk
  <2>3. result' = LoadPage(bytes)
    BY <1>2, <1>3, ReadOpen
  <2> QED BY <1>3, <2>2, <2>3, LoadsImage
<1>8. format = "uuid" => result'.ok /\ result'.got["id"] = RandomUUID(object["id"])
  <2> HAVE format = "uuid"
  <2>1. format \notin Encrypted
    BY <1>3, KindsApart
  <2>2. bytes = TextOf(RandomUUID(object["id"]))
    BY <1>5, <2>1 DEF OnDisk
  <2>3. result' = UUIDRead(FromText(bytes))
    BY <1>2, <1>3, ReadOpen
  <2> QED BY <1>3, <2>2, <2>3, UUIDBack
<1>9. Back(format, object, result') /\ whole
  BY <1>4, <1>5, <1>6, <1>7, <1>8 DEF Back
<1> QED BY <1>1, <1>3, <1>9 DEF IInv

LEMMA StepInv == IInv /\ [Next]_vars => IInv'
<1> SUFFICES ASSUME IInv, [Next]_vars PROVE IInv'
  OBVIOUS
<1>1. CASE Edit
  BY <1>1, EditStep
<1>2. CASE SerializeIt
  BY <1>2, SerializeStep
<1>3. CASE EncodeIt
  BY <1>3, EncodeStep
<1>4. CASE CutRecord
  BY <1>4, CutStep
<1>5. CASE DecodeIt
  BY <1>5, DecodeStep
<1>6. CASE DeserializeIt
  BY <1>6, DeserializeStep
<1>7. CASE UNCHANGED vars
  BY <1>7 DEF IInv, vars
<1> QED BY <1>1, <1>2, <1>3, <1>4, <1>5, <1>6, <1>7 DEF Next

\* At every stage, in every reachable state, the object's bytes are what its
\* format makes of it, or what was left of them by a cut.
THEOREM Invariance == Spec => []IInv
BY InitInv, StepInv, PTL DEF Spec

\* The preamble keeps its 80 bytes, whatever it says, and the header the
\* length of the first one: the pages begin behind them, at an offset that
\* never changes.
THEOREM RegionsCorrect == Spec => []RegionsKeepTheirSize
<1>1. IInv => RegionsKeepTheirSize
  <2> SUFFICES ASSUME IInv, stage = "stored" PROVE RegionsKeepTheirSize
    BY DEF RegionsKeepTheirSize
  <2>1. format \in Formats /\ Typed(format, object)
    BY DEF IInv
  <2>2. format \in {"preamble", "header"} => whole /\ OnDisk(format, object, bytes)
    BY DEF IInv, Records, Entries, IndexEntries
  <2>3. format = "preamble" => Len(bytes) = 80
    <3> HAVE format = "preamble"
    <3>1. bytes = Serialize(PreambleWritten, object)
      BY <2>1, <2>2, FieldsAre DEF OnDisk, Plain
    <3>2. ObjectFits(PreambleWritten, object)
      BY <2>1, TypedFits, FieldsAre
    <3> QED BY <3>1, <3>2, PreambleLength
  <2>4. ASSUME format = "header", NEW nonce \in Nonces
        PROVE  Len(bytes) = Len(EncodeHeader(Serialize(HeaderWritten, First("header")), nonce))
    <3> DEFINE f == "header"
               o == First(f)
               data == EncodeHeader(Plain(f, o), nonce)
    <3>1. f \in Formats /\ f \in Encrypted
      BY DEF Formats, Encrypted
    <3>2. Typed(f, o)
      BY <3>1, TypedFirst
    <3>3. Plain(f, o) = Serialize(HeaderWritten, First("header"))
      BY <3>1, FieldsAre DEF Plain
    <3>4. Len(bytes) = 93
      <4>1. Encoded(format, object, bytes)
        BY <2>2, <2>4, <3>1 DEF OnDisk
      <4> QED BY <2>1, <2>4, <3>1, <4>1, EncodedLength
    <3>5. EncodedAs(f, Plain(f, o), data)
      BY Zenon DEF EncodedAs
    <3>6. Len(data) = 93
      BY <3>1, <3>2, <3>5, Encodes, EncodedLength
    <3> QED BY <3>3, <3>4, <3>6
  <2> QED BY <2>3, <2>4 DEF RegionsKeepTheirSize
<1> QED BY <1>1, Invariance, PTL

\* A record that lost its end, any number of its bytes, is refused by
\* deserializeEncodedBlob, and decoding throws.
THEOREM TruncatedCorrect == Spec => []TruncatedIsRefused
<1>1. IInv => TruncatedIsRefused
  <2> SUFFICES ASSUME IInv, ~whole PROVE TruncatedIsRefused
    BY DEF TruncatedIsRefused
  <2>1. stage = "stored" => Deserialize(BlobRead, bytes, Start(0)).ok = FALSE
    <3> HAVE stage = "stored"
    <3>1. format \in Encrypted /\ Typed(format, object) /\ CutFrom(format, object, bytes)
      BY DEF IInv, Encrypted
    <3> QED BY <3>1, CutFails
  <2>2. stage = "read" => result.ok = FALSE
    BY DEF IInv
  <2> QED BY <2>1, <2>2 DEF TruncatedIsRefused
<1> QED BY <1>1, Invariance, PTL

\* What is read back is what was written, for every format, every object of
\* it and whatever the compressor made of its bytes.
THEOREM RoundTripCorrect == Spec => []RoundTrip
<1>1. IInv => RoundTrip
  <2> SUFFICES ASSUME IInv, stage = "read", whole PROVE RoundTrip
    BY DEF RoundTrip
  <2>1. format \in Formats /\ Back(format, object, result)
    BY DEF IInv
  <2>2. CASE format = "uuid"
    BY <2>1, <2>2, Zenon DEF RoundTrip, Back, ReadAs, PageAs, Images
  <2>3. CASE format \in Images
    <3>1. format # "uuid"
      BY <2>1, <2>3, KindsApart
    <3> QED BY <2>1, <2>3, <3>1, Zenon DEF RoundTrip, Back, PageAs
  <2>4. CASE format \in Encrypted \/ format = "preamble"
    <3>1. format # "uuid" /\ format \notin Images
      BY <2>1, <2>4, KindsApart
    <3> QED BY <2>1, <2>4, <3>1, Zenon DEF RoundTrip, Back, ReadAs
  <2> QED BY <2>1, <2>2, <2>3, <2>4, KindsApart
<1> QED BY <1>1, Invariance, PTL

=============================================================================
