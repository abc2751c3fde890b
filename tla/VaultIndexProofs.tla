-------------------------- MODULE VaultIndexProofs --------------------------
(***************************************************************************)
(* Theorems about VaultIndex, for every set of ids and names, every number *)
(* of records and every range of the counters.  The properties follow from *)
(* one inductive invariant and two facts about operators: which names a    *)
(* search finds (RangeIsPrefix) and what a rebuild yields (RebuiltIs).     *)
(***************************************************************************)
EXTENDS VaultIndex, FiniteSetTheorems, SequenceTheorems, TLAPS

-----------------------------------------------------------------------------
(* Numbers: extrema, and the arithmetic of the counters.                    *)
NatLess == {ss \in Nat \X Nat : ss[1] < ss[2]}

LEMMA NatLessWellFounded == IsWellFoundedOn(NatLess, Nat)
  BY NatLessThanWellFounded DEF OpToRel, NatLess

LEMMA LeastOf ==
  ASSUME NEW S \in SUBSET Nat, S # {}
  PROVE  \E m \in S : \A i \in S : m <= i
<1>1. PICK m \in S : \A i \in S : ~ (<<i, m>> \in NatLess)
  BY NatLessWellFounded, WFMin, Zenon
<1>2. ASSUME NEW i \in S PROVE m <= i
  <2>1. <<i, m>> \in Nat \X Nat /\ <<i, m>>[1] = i /\ <<i, m>>[2] = m
    OBVIOUS
  <2>2. ~ (i < m)
    BY <1>1, <2>1 DEF NatLess
  <2> QED BY <2>2
<1> QED BY <1>2

LEMMA GreatestOf ==
  ASSUME NEW n \in Nat, NEW S \in SUBSET (1..n), S # {}
  PROVE  \E m \in S : \A i \in S : m >= i
<1> DEFINE T == {n - i : i \in S}
<1>1. T \in SUBSET Nat /\ T # {}
  <2>1. \A i \in S : n - i \in Nat
    OBVIOUS
  <2> QED BY <2>1
<1>2. PICK t \in T : \A i \in T : t <= i
  BY <1>1, LeastOf
<1>3. PICK m \in S : t = n - m
  OBVIOUS
<1>4. ASSUME NEW i \in S PROVE m >= i
  <2>1. n - i \in T
    OBVIOUS
  <2>2. n - m <= n - i
    BY <1>2, <1>3, <2>1
  <2> QED BY <2>2
<1> QED BY <1>4

LEMMA MaxOf ==
  ASSUME NEW n \in Nat, NEW S \in SUBSET (1..n), S # {}
  PROVE  Max(S) \in S /\ \A i \in S : Max(S) >= i
  BY GreatestOf DEF Max

\* Counting within the range neither wraps nor leaves it.
LEMMA CounterFacts ==
  /\ CounterRange \in Nat \ {0}
  /\ \A n \in Nat : Less(n) \in 0..(CounterRange - 1) /\ More(n) \in 0..(CounterRange - 1)
  /\ \A n \in Nat : n + 1 < CounterRange => More(n) = n + 1
  /\ \A n \in Nat : n # 0 /\ n < CounterRange => Less(n) = n - 1
<1>1. CounterRange \in Nat \ {0}
  BY IndexAssumption
<1>2. ASSUME NEW n \in Int PROVE n % CounterRange \in 0..(CounterRange - 1)
  BY <1>1
<1>3. ASSUME NEW n \in 0..(CounterRange - 1) PROVE n % CounterRange = n
  BY <1>1
<1> QED BY <1>1, <1>2, <1>3 DEF Less, More

-----------------------------------------------------------------------------
(* Which names a search finds.                                              *)
Strings == Seq(0..TopByte)

LEMMA NormalizedIsString ==
  ASSUME NEW name \in Names \cup Queries
  PROVE  Normalize(name) \in Strings
<1>1. name \in Strings /\ TopByte \in Nat
  BY IndexAssumption DEF Strings
<1>2. Len(name) \in Nat /\ DOMAIN name = 1..Len(name)
      /\ \A i \in 1..Len(name) : name[i] \in 0..TopByte
  BY <1>1, LenProperties, ElementOfSeq DEF Strings
<1>3. \A i \in 1..Len(name) :
        (IF name[i] \in UpperCase THEN name[i] + CaseShift ELSE name[i]) \in 0..TopByte
  BY <1>1, <1>2, IndexAssumption
<1>4. Normalize(name) \in [1..Len(name) -> 0..TopByte]
  BY <1>2, <1>3 DEF Normalize
<1> DEFINE small == Normalize(name)
           n     == Len(name)
<1>5. small \in [1..n -> 0..TopByte] /\ n \in Nat
  BY <1>2, <1>4
<1> HIDE DEF small, n
<1>6. small \in Seq(0..TopByte)
  BY <1>5, SeqDef
<1> QED BY <1>6 DEF Strings, small

LEMMA StringFacts ==
  ASSUME NEW s \in Strings
  PROVE  /\ Len(s) \in Nat /\ DOMAIN s = 1..Len(s)
         /\ \A i \in 1..Len(s) : s[i] \in 0..TopByte
BY LenProperties, ElementOfSeq DEF Strings

\* Sequences agree on the first n places.
Agree(s, t, n) == \A i \in 1..n : s[i] = t[i]

LEMMA AgreeIs ==
  ASSUME NEW S, NEW s \in Seq(S), NEW t \in Seq(S), NEW n \in 0..Len(s), n <= Len(t)
  PROVE  SubSeq(s, 1, n) = SubSeq(t, 1, n) <=> Agree(s, t, n)
<1> DEFINE a == SubSeq(s, 1, n)
           b == SubSeq(t, 1, n)
<1>1. Len(s) \in Nat /\ Len(t) \in Nat /\ n \in Nat
  BY LenProperties
<1>2. /\ a = [i \in 1..n |-> s[i]] /\ b = [i \in 1..n |-> t[i]]
  BY <1>1
<1> QED BY <1>2 DEF Agree

\* The order of two strings, place by place.
LEMMA BeforeIs ==
  ASSUME NEW S, NEW s \in Seq(S), NEW t \in Seq(S)
  PROVE  Before(s, t) <=> \E n \in 0..Len(s) : /\ n < Len(t) /\ Agree(s, t, n)
                                               /\ n = Len(s) \/ s[n + 1] < t[n + 1]
<1>1. ASSUME NEW n \in 0..Len(s), n < Len(t)
      PROVE  SubSeq(s, 1, n) = SubSeq(t, 1, n) <=> Agree(s, t, n)
  <2>1. Len(t) \in Nat
    BY LenProperties
  <2> QED BY <1>1, <2>1, AgreeIs
<1> QED BY <1>1 DEF Before

LEMMA IsPrefixIs ==
  ASSUME NEW S, NEW s \in Seq(S), NEW t \in Seq(S)
  PROVE  IsPrefix(s, t) <=> Len(s) <= Len(t) /\ Agree(s, t, Len(s))
<1>1. Len(s) \in 0..Len(s)
  BY LenProperties
<1> QED BY <1>1, AgreeIs DEF IsPrefix

\* nextPrefix: the string above, or none.
LEMMA NextPrefixIs ==
  ASSUME NEW p \in Strings
  PROVE  \/ NextPrefix(p) = <<>> /\ \A j \in 1..Len(p) : p[j] = TopByte
         \/ \E i \in 1..Len(p) :
              LET to == NextPrefix(p)
              IN  /\ to \in Seq(Nat) /\ Len(to) = i /\ to # <<>> /\ Agree(to, p, i - 1)
                  /\ to[i] = p[i] + 1 /\ \A j \in i + 1 .. Len(p) : p[j] = TopByte
<1> DEFINE raisable == {j \in DOMAIN p : p[j] # TopByte}
           i        == Max(raisable)
<1>1. /\ Len(p) \in Nat /\ DOMAIN p = 1..Len(p)
      /\ \A j \in 1..Len(p) : p[j] \in Nat
  BY StringFacts, IndexAssumption
<1>2. CASE raisable = {}
  <2>1. NextPrefix(p) = <<>>
    BY <1>2 DEF NextPrefix
  <2> QED BY <1>1, <1>2, <2>1
<1>3. CASE raisable # {}
  <2>1. i \in raisable /\ \A j \in raisable : i >= j
    BY <1>1, <1>3, MaxOf
  <2>2. NextPrefix(p) = Append(SubSeq(p, 1, i - 1), p[i] + 1)
    BY <1>3 DEF NextPrefix
  <2> DEFINE front == SubSeq(p, 1, i - 1)
             to    == NextPrefix(p)
  <2>3. i \in 1..Len(p) /\ p \in Seq(Nat)
    BY <1>1, <2>1, IndexAssumption DEF Strings
  <2> HIDE DEF i
  <2>4. /\ front \in Seq(Nat) /\ Len(front) = i - 1
        /\ \A j \in 1..(i - 1) : front[j] = p[j]
    BY <1>1, <2>3
  <2>5. to = Append(front, p[i] + 1)
    BY <2>2
  <2> HIDE DEF front, to
  <2>6. /\ to \in Seq(Nat) /\ Len(to) = i /\ to[i] = p[i] + 1
        /\ \A j \in 1..(i - 1) : to[j] = front[j]
    BY <1>1, <2>3, <2>4, <2>5
  <2>7. to # <<>>
    <3>1. Len(to) # 0
      BY ONLY <1>1, <2>3, <2>6
    <3> QED BY ONLY <3>1
  <2>8. ASSUME NEW j \in i + 1 .. Len(p) PROVE p[j] = TopByte
    <3>1. j \in 1..Len(p) /\ ~ (i >= j)
      BY ONLY <1>1, <2>3
    <3>2. j \notin raisable
      BY <2>1, <3>1
    <3> QED BY <1>1, <3>1, <3>2
  <2> QED BY <2>3, <2>4, <2>6, <2>7, <2>8 DEF to, Agree
<1> QED BY <1>2, <1>3

\* A string that starts with p is in the range of p.
LEMMA PrefixIsInRange ==
  ASSUME NEW p \in Strings, NEW s \in Strings, IsPrefix(p, s)
  PROVE  ~ Before(s, p) /\ (NextPrefix(p) = <<>> \/ Before(s, NextPrefix(p)))
<1>1. /\ Len(p) \in Nat /\ Len(s) \in Nat /\ Len(p) <= Len(s) /\ Agree(p, s, Len(p))
      /\ \A i \in 1..Len(p) : p[i] \in Nat /\ s[i] \in Nat
  BY StringFacts, IsPrefixIs, IndexAssumption DEF Strings
<1>2. ~ Before(s, p)
  <2> SUFFICES ASSUME NEW n \in 0..Len(s), n < Len(p), n = Len(s) \/ s[n + 1] < p[n + 1]
               PROVE  FALSE
    BY BeforeIs DEF Strings
  <2>1. n + 1 \in 1..Len(p) /\ n # Len(s)
    BY <1>1
  <2>2. p[n + 1] = s[n + 1] /\ p[n + 1] \in Nat
    BY <1>1, <2>1 DEF Agree
  <2> QED BY <2>1, <2>2
<1>3. ASSUME NextPrefix(p) # <<>> PROVE Before(s, NextPrefix(p))
  <2> DEFINE to == NextPrefix(p)
  <2>1. PICK i \in 1..Len(p) : /\ to \in Seq(Nat) /\ Len(to) = i /\ Agree(to, p, i - 1)
                               /\ to[i] = p[i] + 1
    BY <1>3, NextPrefixIs
  <2> HIDE DEF to
  <2>2. i - 1 \in 0..Len(s) /\ i - 1 < Len(to) /\ (i - 1) + 1 = i
    BY <1>1, <2>1
  <2>3. Agree(s, to, i - 1)
    BY <1>1, <2>1 DEF Agree
  <2>4. s[i] < to[i]
    BY <1>1, <2>1 DEF Agree
  <2>5. s \in Seq(Nat)
    BY IndexAssumption, SeqMonotonic, 0..TopByte \subseteq Nat DEF Strings
  <2>6. Before(s, to)
    BY <2>1, <2>2, <2>3, <2>4, <2>5, BeforeIs
  <2> QED BY <2>6 DEF to
<1> QED BY <1>2, <1>3

\* The first place where a string leaves p.
LEMMA LeavesAt ==
  ASSUME NEW p \in Strings, NEW s \in Strings, ~ IsPrefix(p, s)
  PROVE  \E m \in 1..Len(p) : /\ m - 1 <= Len(s) /\ Agree(s, p, m - 1)
                              /\ m <= Len(s) => s[m] # p[m]
<1> DEFINE S == {m \in 1..Len(p) : m <= Len(s) => s[m] # p[m]}
<1>1. Len(p) \in Nat /\ Len(s) \in Nat
  BY StringFacts
<1>2. ~ (Len(p) <= Len(s) /\ Agree(p, s, Len(p)))
  BY IsPrefixIs DEF Strings
<1>3. S # {}
  <2>1. CASE ~ (Len(p) <= Len(s))
    BY <1>1, <2>1
  <2>2. CASE ~ Agree(p, s, Len(p))
    BY <2>2 DEF Agree
  <2> QED BY <1>2, <2>1, <2>2
<1>4. PICK m \in S : \A i \in S : m <= i
  <2>1. S \in SUBSET Nat
    BY <1>1
  <2> QED BY <1>3, <2>1, LeastOf
<1>5. ASSUME NEW i \in 1..(m - 1) PROVE i <= Len(s) /\ s[i] = p[i]
  <2>1. i \in 1..Len(p) /\ i \notin S
    BY <1>1, <1>4, <1>5
  <2> QED BY <2>1
<1>6. m - 1 <= Len(s)
  <2>1. CASE m = 1
    BY <1>1, <2>1
  <2>2. CASE m # 1
    <3>1. m - 1 \in 1..(m - 1)
      BY <1>1, <1>4, <2>2
    <3> QED BY <1>5, <3>1
  <2> QED BY <2>1, <2>2
<1> QED BY <1>4, <1>5, <1>6 DEF Agree

(* The strings that are not before p and before nextPrefix(p), if there is  *)
(* one, are those that start with p.                                        *)
LEMMA RangeIsPrefix ==
  ASSUME NEW p \in Strings, NEW s \in Strings
  PROVE  ~ Before(s, p) /\ (NextPrefix(p) = <<>> \/ Before(s, NextPrefix(p))) <=> IsPrefix(p, s)
<1> DEFINE to == NextPrefix(p)
<1> SUFFICES ASSUME ~ Before(s, p), to = <<>> \/ Before(s, to), ~ IsPrefix(p, s)
             PROVE  FALSE
  BY PrefixIsInRange
<1>1. /\ Len(p) \in Nat /\ Len(s) \in Nat /\ TopByte \in Nat
      /\ \A i \in 1..Len(p) : p[i] \in Nat
      /\ \A i \in 1..Len(s) : s[i] \in 0..TopByte /\ s[i] \in Nat
  BY StringFacts, IndexAssumption
<1>2. PICK m \in 1..Len(p) : /\ m - 1 <= Len(s) /\ Agree(s, p, m - 1)
                             /\ m <= Len(s) => s[m] # p[m]
  BY LeavesAt
<1>3. m <= Len(s) /\ s[m] > p[m]
  <2>1. /\ m - 1 \in 0..Len(s) /\ m - 1 < Len(p) /\ (m - 1) + 1 = m
    BY <1>1, <1>2
  <2>2. ~ (m - 1 = Len(s) \/ s[m] < p[m])
    BY <1>2, <2>1, BeforeIs DEF Strings
  <2>3. m <= Len(s)
    BY <1>1, <1>2, <2>2
  <2> QED BY <1>1, <1>2, <2>2, <2>3
<1>4. p[m] < TopByte
  BY <1>1, <1>3
<1>5. PICK i \in 1..Len(p) :
        /\ to \in Seq(Nat) /\ Len(to) = i /\ to # <<>> /\ Agree(to, p, i - 1)
        /\ to[i] = p[i] + 1 /\ \A j \in i + 1 .. Len(p) : p[j] = TopByte
  BY <1>1, <1>4, NextPrefixIs
<1>6. m <= i
  BY <1>1, <1>4, <1>5
<1>7. s \in Seq(Nat)
  BY IndexAssumption, SeqMonotonic, 0..TopByte \subseteq Nat DEF Strings
<1>8. Before(s, to)
  BY <1>5
<1> HIDE DEF to
<1>9. PICK n \in 0..Len(s) : /\ n < i /\ Agree(s, to, n)
                             /\ n = Len(s) \/ s[n + 1] < to[n + 1]
  BY <1>5, <1>7, <1>8, BeforeIs
<1>10. CASE n >= m
  <2>1. m \in 1..n /\ m \in 1..(i - 1)
    BY <1>1, <1>2, <1>9, <1>10
  <2> QED BY <1>1, <1>3, <1>5, <1>9, <2>1 DEF Agree
<1>11. CASE n < m
  <2>1. n # Len(s) /\ s[n + 1] < to[n + 1]
    BY <1>1, <1>3, <1>9, <1>11
  <2>2. CASE n + 1 < m
    <3>1. n + 1 \in 1..(m - 1) /\ n + 1 \in 1..(i - 1)
      BY <1>1, <1>2, <1>6, <1>9, <2>2
    <3>2. s[n + 1] = p[n + 1] /\ to[n + 1] = p[n + 1] /\ p[n + 1] \in Nat
      BY <1>1, <1>2, <1>5, <3>1 DEF Agree
    <3> QED BY <2>1, <3>2
  <2>3. CASE n + 1 = m /\ m < i
    <3>1. m \in 1..(i - 1)
      BY <1>1, <1>2, <1>5, <2>3
    <3> QED BY <1>1, <1>3, <1>5, <2>1, <2>3, <3>1 DEF Agree
  <2>4. CASE n + 1 = m /\ m = i
    BY <1>1, <1>3, <1>5, <2>1, <2>4
  <2> QED BY <1>6, <1>9, <1>11, <2>2, <2>3, <2>4
<1> QED BY <1>1, <1>9, <1>10, <1>11

-----------------------------------------------------------------------------
(* Bags of pairs.                                                           *)
LEMMA BagPlus ==
  ASSUME NEW B, IsABag(B), NEW x
  PROVE  /\ IsABag(B (+) SetToBag({x})) /\ DOMAIN (B (+) SetToBag({x})) = DOMAIN B \cup {x}
         /\ \A y \in DOMAIN B \cup {x} :
              (B (+) SetToBag({x}))[y] = (IF y \in DOMAIN B THEN B[y] ELSE 0)
                                           + (IF y = x THEN 1 ELSE 0)
<1> DEFINE C == B (+) SetToBag({x})
<1>1. C = [y \in DOMAIN B \cup {x} |-> (IF y \in DOMAIN B THEN B[y] ELSE 0)
                                         + (IF y = x THEN 1 ELSE 0)]
  BY DEF SetToBag, (+)
<1>2. \A y \in DOMAIN B : B[y] \in Nat /\ B[y] > 0
  BY DEF IsABag
<1>3. ASSUME NEW y \in DOMAIN B \cup {x}
      PROVE  (IF y \in DOMAIN B THEN B[y] ELSE 0) + (IF y = x THEN 1 ELSE 0) \in {n \in Nat : n > 0}
  BY <1>2
<1>4. C \in [DOMAIN B \cup {x} -> {n \in Nat : n > 0}]
  BY <1>1, <1>3
<1> HIDE DEF C
<1>5. IsABag(C) /\ DOMAIN C = DOMAIN B \cup {x}
  BY <1>4 DEF IsABag
<1> QED BY <1>1, <1>5 DEF C

LEMMA BagMinus ==
  ASSUME NEW B, IsABag(B), NEW x
  PROVE  /\ IsABag(B (-) SetToBag({x}))
         /\ DOMAIN B \ {x} \subseteq DOMAIN (B (-) SetToBag({x}))
         /\ DOMAIN (B (-) SetToBag({x})) \subseteq DOMAIN B
<1> DEFINE D == [y \in DOMAIN B |-> IF y \in {x} THEN B[y] - 1 ELSE B[y]]
           C == B (-) SetToBag({x})
<1>1. C = [y \in {z \in DOMAIN D : D[z] > 0} |-> D[y]]
  BY DEF SetToBag, (-)
<1>2. \A y \in DOMAIN B : B[y] \in Nat /\ B[y] > 0
  BY DEF IsABag
<1>3. /\ DOMAIN D = DOMAIN B /\ \A y \in DOMAIN B : D[y] \in Nat
      /\ \A y \in DOMAIN B \ {x} : D[y] > 0
  BY <1>2
<1> HIDE DEF D, C
<1>4. C \in [{z \in DOMAIN D : D[z] > 0} -> {n \in Nat : n > 0}]
  BY <1>1, <1>3
<1>5. IsABag(C) /\ DOMAIN C = {z \in DOMAIN D : D[z] > 0}
  BY <1>4 DEF IsABag
<1>6. DOMAIN B \ {x} \subseteq DOMAIN C /\ DOMAIN C \subseteq DOMAIN B
  BY <1>3, <1>5
<1> QED BY <1>5, <1>6 DEF C

LEMMA SetPlus ==
  ASSUME NEW S, NEW x, x \notin S
  PROVE  SetToBag(S) (+) SetToBag({x}) = SetToBag(S \cup {x})
BY DEF SetToBag, (+)

LEMMA SetMinus ==
  ASSUME NEW S, NEW x, x \in S
  PROVE  SetToBag(S) (-) SetToBag({x}) = SetToBag(S \ {x})
BY DEF SetToBag, (-)

-----------------------------------------------------------------------------
(* The four maps.                                                           *)
Items == [type : {"entry", "folder"}, id : Ids, folder : Ids \cup {NoFolder},
          name : Names, ref : Refs]

FolderPair(e) == <<e.folder, e.id>>
NamePair(e)   == <<Normalize(e.name), e.id>>

IsIndex(ix) ==
  /\ ix = [byId |-> ix.byId, byFolder |-> ix.byFolder,
           byEntryName |-> ix.byEntryName, byFolderName |-> ix.byFolderName]
  /\ ix.byId = [id \in DOMAIN ix.byId |-> ix.byId[id]]
  /\ \A id \in DOMAIN ix.byId : ix.byId[id] \in Items /\ ix.byId[id].id = id
  /\ IsABag(ix.byFolder) /\ IsABag(ix.byEntryName) /\ IsABag(ix.byFolderName)

OfType(ix, type) == {id \in DOMAIN ix.byId : ix.byId[id].type = type}

\* The pairs the three multimaps should hold.
FolderPairs(ix)     == {FolderPair(ix.byId[id]) : id \in OfType(ix, "entry")}
NamePairs(ix, type) == {NamePair(ix.byId[id]) : id \in OfType(ix, type)}

Mirrors(ix) ==
  /\ ix.byFolder = SetToBag(FolderPairs(ix))
  /\ ix.byEntryName = SetToBag(NamePairs(ix, "entry"))
  /\ ix.byFolderName = SetToBag(NamePairs(ix, "folder"))

Reaches(ix) ==
  /\ FolderPairs(ix) \subseteq DOMAIN ix.byFolder
  /\ NamePairs(ix, "entry") \subseteq DOMAIN ix.byEntryName
  /\ NamePairs(ix, "folder") \subseteq DOMAIN ix.byFolderName

LEMMA StoredFacts ==
  ASSUME NEW r \in Meta, NEW ref \in Refs
  PROVE  /\ Stored(r, ref) \in Items /\ Stored(r, ref).id = r.id /\ Stored(r, ref).type = r.type
         /\ Stored(r, ref).folder = r.folder /\ Stored(r, ref).name = r.name
         /\ Stored(r, ref).ref = ref
BY DEF Stored, Items, Meta

\* insert() adds or replaces one entry of byId and adds its pairs.
LEMMA InsertedIs ==
  ASSUME NEW ix, IsIndex(ix), NEW e \in Items
  PROVE  LET new == Inserted(ix, e)
         IN  /\ IsIndex(new) /\ DOMAIN new.byId = DOMAIN ix.byId \cup {e.id}
             /\ new.byId[e.id] = e
             /\ \A id \in DOMAIN ix.byId \ {e.id} : new.byId[id] = ix.byId[id]
             /\ new.byFolder = IF e.type = "entry" THEN ix.byFolder (+) SetToBag({FolderPair(e)})
                                                   ELSE ix.byFolder
             /\ new.byEntryName = IF e.type = "entry" THEN ix.byEntryName (+) SetToBag({NamePair(e)})
                                                      ELSE ix.byEntryName
             /\ new.byFolderName = IF e.type = "entry" THEN ix.byFolderName
                                   ELSE ix.byFolderName (+) SetToBag({NamePair(e)})
<1> DEFINE new  == Inserted(ix, e)
           map  == [id \in DOMAIN ix.byId \cup {e.id} |-> IF id = e.id THEN e ELSE ix.byId[id]]
           fold == SetToBag({FolderPair(e)})
           name == SetToBag({NamePair(e)})
<1>1. new = IF e.type = "entry"
            THEN [ix EXCEPT !.byId = map, !.byEntryName = @ (+) name, !.byFolder = @ (+) fold]
            ELSE [ix EXCEPT !.byId = map, !.byFolderName = @ (+) name]
  BY DEF Inserted, Pair, FolderPair, NamePair
<1>2. /\ IsABag(ix.byFolder (+) fold) /\ IsABag(ix.byEntryName (+) name)
      /\ IsABag(ix.byFolderName (+) name)
      /\ IsABag(ix.byFolder) /\ IsABag(ix.byEntryName) /\ IsABag(ix.byFolderName)
  BY BagPlus DEF IsIndex
<1>3. /\ map = [id \in DOMAIN map |-> map[id]] /\ DOMAIN map = DOMAIN ix.byId \cup {e.id}
      /\ map[e.id] = e /\ \A id \in DOMAIN ix.byId \ {e.id} : map[id] = ix.byId[id]
  OBVIOUS
<1>4. \A id \in DOMAIN map : map[id] \in Items /\ map[id].id = id
  BY DEF IsIndex
<1>5. ix = [byId |-> ix.byId, byFolder |-> ix.byFolder,
            byEntryName |-> ix.byEntryName, byFolderName |-> ix.byFolderName]
  BY DEF IsIndex
<1> HIDE DEF map, fold, name
<1>6. new = [byId |-> map,
             byFolder |-> IF e.type = "entry" THEN ix.byFolder (+) fold ELSE ix.byFolder,
             byEntryName |-> IF e.type = "entry" THEN ix.byEntryName (+) name ELSE ix.byEntryName,
             byFolderName |-> IF e.type = "entry" THEN ix.byFolderName
                              ELSE ix.byFolderName (+) name]
  BY <1>1, <1>5
<1> HIDE DEF new
<1>7. IsIndex(new)
  BY <1>2, <1>3, <1>4, <1>6 DEF IsIndex
<1> QED BY <1>3, <1>6, <1>7 DEF new, fold, name

\* remove() of an id that is there takes its entry of byId and its pairs.
LEMMA RemovedIs ==
  ASSUME NEW ix, IsIndex(ix), NEW gone \in DOMAIN ix.byId
  PROVE  LET new == Removed(ix, gone)
             e   == ix.byId[gone]
         IN  /\ IsIndex(new) /\ DOMAIN new.byId = DOMAIN ix.byId \ {gone}
             /\ \A id \in DOMAIN new.byId : new.byId[id] = ix.byId[id]
             /\ new.byFolder = IF e.type = "entry" THEN ix.byFolder (-) SetToBag({FolderPair(e)})
                                                   ELSE ix.byFolder
             /\ new.byEntryName = IF e.type = "entry" THEN ix.byEntryName (-) SetToBag({NamePair(e)})
                                                      ELSE ix.byEntryName
             /\ new.byFolderName = IF e.type = "entry" THEN ix.byFolderName
                                   ELSE ix.byFolderName (-) SetToBag({NamePair(e)})
<1> DEFINE new  == Removed(ix, gone)
           e    == ix.byId[gone]
           map  == [id \in DOMAIN ix.byId \ {gone} |-> ix.byId[id]]
           fold == SetToBag({FolderPair(e)})
           name == SetToBag({NamePair(e)})
<1>1. new = IF e.type = "entry"
            THEN [ix EXCEPT !.byId = map, !.byEntryName = @ (-) name, !.byFolder = @ (-) fold]
            ELSE [ix EXCEPT !.byId = map, !.byFolderName = @ (-) name]
  <2>1. e.id = gone
    BY DEF IsIndex
  <2> QED BY <2>1 DEF Removed, Pair, FolderPair, NamePair
<1>2. /\ IsABag(ix.byFolder (-) fold) /\ IsABag(ix.byEntryName (-) name)
      /\ IsABag(ix.byFolderName (-) name)
      /\ IsABag(ix.byFolder) /\ IsABag(ix.byEntryName) /\ IsABag(ix.byFolderName)
  BY BagMinus DEF IsIndex
<1>3. /\ map = [id \in DOMAIN map |-> map[id]] /\ DOMAIN map = DOMAIN ix.byId \ {gone}
      /\ \A id \in DOMAIN map : map[id] = ix.byId[id]
  OBVIOUS
<1>4. \A id \in DOMAIN map : map[id] \in Items /\ map[id].id = id
  BY DEF IsIndex
<1>5. ix = [byId |-> ix.byId, byFolder |-> ix.byFolder,
            byEntryName |-> ix.byEntryName, byFolderName |-> ix.byFolderName]
  BY DEF IsIndex
<1> HIDE DEF map, fold, name
<1>6. new = [byId |-> map,
             byFolder |-> IF e.type = "entry" THEN ix.byFolder (-) fold ELSE ix.byFolder,
             byEntryName |-> IF e.type = "entry" THEN ix.byEntryName (-) name ELSE ix.byEntryName,
             byFolderName |-> IF e.type = "entry" THEN ix.byFolderName
                              ELSE ix.byFolderName (-) name]
  BY <1>1, <1>5
<1> HIDE DEF new
<1>7. IsIndex(new)
  BY <1>2, <1>3, <1>4, <1>6 DEF IsIndex
<1> QED BY <1>3, <1>6, <1>7 DEF new, fold, name

\* The pairs of the maps after an insertion, and after a removal.
LEMMA InsertedPairs ==
  ASSUME NEW ix, IsIndex(ix), NEW e \in Items, e.id \notin DOMAIN ix.byId
  PROVE  LET new == Inserted(ix, e)
         IN  /\ FolderPairs(new) = FolderPairs(ix) \cup
                  (IF e.type = "entry" THEN {FolderPair(e)} ELSE {})
             /\ \A type \in {"entry", "folder"} :
                  NamePairs(new, type) = NamePairs(ix, type) \cup
                    (IF e.type = type THEN {NamePair(e)} ELSE {})
             /\ FolderPair(e) \notin FolderPairs(ix)
             /\ \A type \in {"entry", "folder"} : NamePair(e) \notin NamePairs(ix, type)
<1> DEFINE new == Inserted(ix, e)
<1>1. /\ DOMAIN new.byId = DOMAIN ix.byId \cup {e.id} /\ new.byId[e.id] = e
      /\ \A id \in DOMAIN ix.byId : new.byId[id] = ix.byId[id]
  <2>1. /\ DOMAIN new.byId = DOMAIN ix.byId \cup {e.id} /\ new.byId[e.id] = e
        /\ \A id \in DOMAIN ix.byId \ {e.id} : new.byId[id] = ix.byId[id]
    <3>1. IsIndex(ix) /\ e \in Items
      OBVIOUS
    <3> QED BY ONLY <3>1, InsertedIs
  <2> HIDE DEF new
  <2> QED BY <2>1
<1> HIDE DEF new
<1>2. \A type \in {"entry", "folder"} :
        OfType(new, type) = OfType(ix, type) \cup (IF e.type = type THEN {e.id} ELSE {})
  BY <1>1 DEF OfType
<1>3. \A type \in {"entry", "folder"} : \A id \in OfType(ix, type) :
        id \in DOMAIN ix.byId /\ new.byId[id] = ix.byId[id] /\ ix.byId[id].id = id /\ id # e.id
  BY <1>1 DEF OfType, IsIndex
<1>4. FolderPairs(new) = FolderPairs(ix) \cup (IF e.type = "entry" THEN {FolderPair(e)} ELSE {})
  BY <1>1, <1>2, <1>3 DEF FolderPairs
<1>5. ASSUME NEW type \in {"entry", "folder"}
      PROVE  /\ NamePairs(new, type) = NamePairs(ix, type) \cup
                  (IF e.type = type THEN {NamePair(e)} ELSE {})
             /\ NamePair(e) \notin NamePairs(ix, type)
  BY <1>1, <1>2, <1>3 DEF NamePairs, NamePair
<1>6. FolderPair(e) \notin FolderPairs(ix)
  BY <1>3 DEF FolderPairs, FolderPair
<1> QED BY <1>4, <1>5, <1>6 DEF new

LEMMA RemovedPairs ==
  ASSUME NEW ix, IsIndex(ix), NEW gone \in DOMAIN ix.byId
  PROVE  LET new == Removed(ix, gone)
             e   == ix.byId[gone]
         IN  /\ FolderPairs(new) = FolderPairs(ix) \
                  (IF e.type = "entry" THEN {FolderPair(e)} ELSE {})
             /\ \A type \in {"entry", "folder"} :
                  NamePairs(new, type) = NamePairs(ix, type) \
                    (IF e.type = type THEN {NamePair(e)} ELSE {})
             /\ e.type = "entry" => FolderPair(e) \in FolderPairs(ix)
             /\ NamePair(e) \in NamePairs(ix, e.type) /\ e.type \in {"entry", "folder"}
<1> DEFINE new == Removed(ix, gone)
           e   == ix.byId[gone]
<1>1. /\ DOMAIN new.byId = DOMAIN ix.byId \ {gone}
      /\ \A id \in DOMAIN new.byId : new.byId[id] = ix.byId[id]
  BY RemovedIs
<1> HIDE DEF new
<1>2. \A type \in {"entry", "folder"} : OfType(new, type) = OfType(ix, type) \ {gone}
  BY <1>1 DEF OfType
<1>3. \A type \in {"entry", "folder"} : \A id \in OfType(ix, type) :
        id \in DOMAIN ix.byId /\ ix.byId[id].id = id
  BY DEF OfType, IsIndex
<1>4. \A type \in {"entry", "folder"} : \A id \in OfType(new, type) :
        new.byId[id] = ix.byId[id]
  BY <1>1 DEF OfType
<1>5. e.type \in {"entry", "folder"} /\ gone \in OfType(ix, e.type)
      /\ \A type \in {"entry", "folder"} : gone \in OfType(ix, type) => e.type = type
  BY DEF OfType, IsIndex, Items
<1>6. FolderPairs(new) = FolderPairs(ix) \ (IF e.type = "entry" THEN {FolderPair(e)} ELSE {})
  <2> HIDE DEF e
  <2>1. \A id \in OfType(ix, "entry") : id # gone => FolderPair(ix.byId[id]) # FolderPair(e)
    BY <1>3, <1>5 DEF FolderPair, e
  <2>2. FolderPairs(new) = {FolderPair(ix.byId[id]) : id \in OfType(ix, "entry") \ {gone}}
    BY <1>2, <1>4 DEF FolderPairs
  <2>3. ix.byId[gone] = e
    BY DEF e
  <2> QED BY <1>5, <2>1, <2>2, <2>3 DEF FolderPairs
<1>7. ASSUME NEW type \in {"entry", "folder"}
      PROVE  NamePairs(new, type) = NamePairs(ix, type) \
               (IF e.type = type THEN {NamePair(e)} ELSE {})
  <2> HIDE DEF e
  <2>1. \A id \in OfType(ix, type) : id # gone => NamePair(ix.byId[id]) # NamePair(e)
    BY <1>3, <1>5 DEF NamePair, e
  <2>2. NamePairs(new, type) = {NamePair(ix.byId[id]) : id \in OfType(ix, type) \ {gone}}
    BY <1>2, <1>4 DEF NamePairs
  <2>3. ix.byId[gone] = e
    BY DEF e
  <2> QED BY <1>5, <2>1, <2>2, <2>3 DEF NamePairs
<1>8. e.type = "entry" => FolderPair(e) \in FolderPairs(ix)
  BY <1>5 DEF FolderPairs
<1>9. NamePair(e) \in NamePairs(ix, e.type)
  BY <1>5 DEF NamePairs
<1> QED BY <1>5, <1>6, <1>7, <1>8, <1>9 DEF new

LEMMA InsertedKeeps ==
  ASSUME NEW ix, IsIndex(ix), NEW e \in Items, e.id \notin DOMAIN ix.byId
  PROVE  /\ Mirrors(ix) => Mirrors(Inserted(ix, e))
         /\ Reaches(ix) => Reaches(Inserted(ix, e))
<1> DEFINE new == Inserted(ix, e)
<1>1. e.type \in {"entry", "folder"}
  BY DEF Items
<1>2. /\ new.byFolder = IF e.type = "entry" THEN ix.byFolder (+) SetToBag({FolderPair(e)})
                                            ELSE ix.byFolder
      /\ new.byEntryName = IF e.type = "entry" THEN ix.byEntryName (+) SetToBag({NamePair(e)})
                                               ELSE ix.byEntryName
      /\ new.byFolderName = IF e.type = "entry" THEN ix.byFolderName
                            ELSE ix.byFolderName (+) SetToBag({NamePair(e)})
  BY InsertedIs
<1>3. /\ FolderPairs(new) = FolderPairs(ix) \cup (IF e.type = "entry" THEN {FolderPair(e)} ELSE {})
      /\ \A type \in {"entry", "folder"} :
           NamePairs(new, type) = NamePairs(ix, type) \cup
             (IF e.type = type THEN {NamePair(e)} ELSE {})
      /\ FolderPair(e) \notin FolderPairs(ix)
      /\ \A type \in {"entry", "folder"} : NamePair(e) \notin NamePairs(ix, type)
  BY InsertedPairs
<1>4. /\ IsABag(ix.byFolder) /\ IsABag(ix.byEntryName) /\ IsABag(ix.byFolderName)
  BY DEF IsIndex
<1> HIDE DEF new
<1>5. ASSUME Mirrors(ix) PROVE Mirrors(new)
  <2>1. CASE e.type = "entry"
    <3>1. /\ FolderPairs(new) = FolderPairs(ix) \cup {FolderPair(e)}
          /\ NamePairs(new, "entry") = NamePairs(ix, "entry") \cup {NamePair(e)}
          /\ NamePairs(new, "folder") = NamePairs(ix, "folder")
      BY <1>3, <2>1
    <3>2. new.byFolder = SetToBag(FolderPairs(new))
      BY <1>2, <1>3, <1>5, <2>1, <3>1, SetPlus DEF Mirrors
    <3>3. new.byEntryName = SetToBag(NamePairs(new, "entry"))
      BY <1>2, <1>3, <1>5, <2>1, <3>1, SetPlus DEF Mirrors
    <3> QED BY <1>2, <1>5, <2>1, <3>1, <3>2, <3>3 DEF Mirrors
  <2>2. CASE e.type = "folder"
    <3>1. /\ FolderPairs(new) = FolderPairs(ix)
          /\ NamePairs(new, "entry") = NamePairs(ix, "entry")
          /\ NamePairs(new, "folder") = NamePairs(ix, "folder") \cup {NamePair(e)}
      BY <1>3, <2>2
    <3>2. new.byFolderName = SetToBag(NamePairs(new, "folder"))
      BY <1>2, <1>3, <1>5, <2>2, <3>1, SetPlus DEF Mirrors
    <3> QED BY <1>2, <1>5, <2>2, <3>1, <3>2 DEF Mirrors
  <2> QED BY <1>1, <2>1, <2>2
<1>6. ASSUME Reaches(ix) PROVE Reaches(new)
  <2>1. CASE e.type = "entry"
    <3>1. /\ DOMAIN new.byFolder = DOMAIN ix.byFolder \cup {FolderPair(e)}
          /\ DOMAIN new.byEntryName = DOMAIN ix.byEntryName \cup {NamePair(e)}
      BY <1>2, <1>4, <2>1, BagPlus
    <3> QED BY <1>2, <1>3, <1>6, <2>1, <3>1 DEF Reaches
  <2>2. CASE e.type = "folder"
    <3>1. DOMAIN new.byFolderName = DOMAIN ix.byFolderName \cup {NamePair(e)}
      BY <1>2, <1>4, <2>2, BagPlus
    <3> QED BY <1>2, <1>3, <1>6, <2>2, <3>1 DEF Reaches
  <2> QED BY <1>1, <2>1, <2>2
<1> QED BY <1>5, <1>6 DEF new

LEMMA RemovedKeeps ==
  ASSUME NEW ix, IsIndex(ix), NEW gone \in DOMAIN ix.byId
  PROVE  /\ Mirrors(ix) => Mirrors(Removed(ix, gone))
         /\ Reaches(ix) => Reaches(Removed(ix, gone))
<1> DEFINE new == Removed(ix, gone)
           e   == ix.byId[gone]
<1>2. /\ new.byFolder = IF e.type = "entry" THEN ix.byFolder (-) SetToBag({FolderPair(e)})
                                            ELSE ix.byFolder
      /\ new.byEntryName = IF e.type = "entry" THEN ix.byEntryName (-) SetToBag({NamePair(e)})
                                               ELSE ix.byEntryName
      /\ new.byFolderName = IF e.type = "entry" THEN ix.byFolderName
                            ELSE ix.byFolderName (-) SetToBag({NamePair(e)})
  BY RemovedIs
<1>3. /\ FolderPairs(new) = FolderPairs(ix) \ (IF e.type = "entry" THEN {FolderPair(e)} ELSE {})
      /\ \A type \in {"entry", "folder"} :
           NamePairs(new, type) = NamePairs(ix, type) \
             (IF e.type = type THEN {NamePair(e)} ELSE {})
      /\ e.type = "entry" => FolderPair(e) \in FolderPairs(ix)
      /\ NamePair(e) \in NamePairs(ix, e.type) /\ e.type \in {"entry", "folder"}
  BY RemovedPairs
<1>4. /\ IsABag(ix.byFolder) /\ IsABag(ix.byEntryName) /\ IsABag(ix.byFolderName)
  BY DEF IsIndex
<1> HIDE DEF new, e
<1>5. ASSUME Mirrors(ix) PROVE Mirrors(new)
  <2>1. CASE e.type = "entry"
    <3>1. /\ FolderPairs(new) = FolderPairs(ix) \ {FolderPair(e)}
          /\ NamePairs(new, "entry") = NamePairs(ix, "entry") \ {NamePair(e)}
          /\ NamePairs(new, "folder") = NamePairs(ix, "folder")
      BY <1>3, <2>1
    <3>2. new.byFolder = SetToBag(FolderPairs(new))
      BY <1>2, <1>3, <1>5, <2>1, <3>1, SetMinus DEF Mirrors
    <3>3. new.byEntryName = SetToBag(NamePairs(new, "entry"))
      BY <1>2, <1>3, <1>5, <2>1, <3>1, SetMinus DEF Mirrors
    <3> QED BY <1>2, <1>5, <2>1, <3>1, <3>2, <3>3 DEF Mirrors
  <2>2. CASE e.type = "folder"
    <3>1. /\ FolderPairs(new) = FolderPairs(ix)
          /\ NamePairs(new, "entry") = NamePairs(ix, "entry")
          /\ NamePairs(new, "folder") = NamePairs(ix, "folder") \ {NamePair(e)}
      BY <1>3, <2>2
    <3>2. new.byFolderName = SetToBag(NamePairs(new, "folder"))
      BY <1>2, <1>3, <1>5, <2>2, <3>1, SetMinus DEF Mirrors
    <3> QED BY <1>2, <1>5, <2>2, <3>1, <3>2 DEF Mirrors
  <2> QED BY <1>3, <2>1, <2>2
<1>6. ASSUME Reaches(ix) PROVE Reaches(new)
  <2>1. CASE e.type = "entry"
    <3>1. /\ DOMAIN ix.byFolder \ {FolderPair(e)} \subseteq DOMAIN new.byFolder
          /\ DOMAIN ix.byEntryName \ {NamePair(e)} \subseteq DOMAIN new.byEntryName
      BY <1>2, <1>4, <2>1, BagMinus
    <3> QED BY <1>2, <1>3, <1>6, <2>1, <3>1 DEF Reaches
  <2>2. CASE e.type = "folder"
    <3>1. DOMAIN ix.byFolderName \ {NamePair(e)} \subseteq DOMAIN new.byFolderName
      BY <1>2, <1>4, <2>2, BagMinus
    <3> QED BY <1>2, <1>3, <1>6, <2>2, <3>1 DEF Reaches
  <2> QED BY <1>3, <2>1, <2>2
<1> QED BY <1>5, <1>6 DEF new

\* Of two records with one id the last one inserted can still be reached.
LEMMA InsertedReaches ==
  ASSUME NEW ix, IsIndex(ix), NEW e \in Items, Reaches(ix)
  PROVE  Reaches(Inserted(ix, e))
<1> DEFINE new == Inserted(ix, e)
<1>1. /\ DOMAIN new.byId = DOMAIN ix.byId \cup {e.id} /\ new.byId[e.id] = e
      /\ \A id \in DOMAIN ix.byId \ {e.id} : new.byId[id] = ix.byId[id]
  BY InsertedIs
<1>m. /\ new.byFolder = IF e.type = "entry" THEN ix.byFolder (+) SetToBag({FolderPair(e)})
                                            ELSE ix.byFolder
      /\ new.byEntryName = IF e.type = "entry" THEN ix.byEntryName (+) SetToBag({NamePair(e)})
                                               ELSE ix.byEntryName
      /\ new.byFolderName = IF e.type = "entry" THEN ix.byFolderName
                            ELSE ix.byFolderName (+) SetToBag({NamePair(e)})
  BY InsertedIs
<1>2. /\ IsABag(ix.byFolder) /\ IsABag(ix.byEntryName) /\ IsABag(ix.byFolderName)
      /\ e.type \in {"entry", "folder"}
  BY DEF IsIndex, Items
<1> HIDE DEF new
<1>3. \A type \in {"entry", "folder"} :
        /\ OfType(new, type) \ {e.id} = OfType(ix, type) \ {e.id}
        /\ e.id \in OfType(new, type) <=> e.type = type
        /\ \A id \in OfType(new, type) \ {e.id} : new.byId[id] = ix.byId[id]
  BY <1>1 DEF OfType
<1>4. FolderPairs(new) \subseteq FolderPairs(ix) \cup
        (IF e.type = "entry" THEN {FolderPair(e)} ELSE {})
  <2> SUFFICES ASSUME NEW id \in OfType(new, "entry"), id # e.id
               PROVE  FolderPair(new.byId[id]) \in FolderPairs(ix)
    BY <1>1, <1>3 DEF FolderPairs
  <2>1. id \in OfType(ix, "entry") /\ new.byId[id] = ix.byId[id]
    BY <1>3
  <2> QED BY <2>1 DEF FolderPairs
<1>5. ASSUME NEW type \in {"entry", "folder"}
      PROVE  NamePairs(new, type) \subseteq NamePairs(ix, type) \cup
               (IF e.type = type THEN {NamePair(e)} ELSE {})
  <2> SUFFICES ASSUME NEW id \in OfType(new, type), id # e.id
               PROVE  NamePair(new.byId[id]) \in NamePairs(ix, type)
    BY <1>1, <1>3 DEF NamePairs
  <2>1. id \in OfType(ix, type) /\ new.byId[id] = ix.byId[id]
    BY <1>3
  <2> QED BY <2>1 DEF NamePairs
<1>6. ASSUME e.type = "entry" PROVE Reaches(new)
  <2>1. /\ DOMAIN new.byFolder = DOMAIN ix.byFolder \cup {FolderPair(e)}
        /\ DOMAIN new.byEntryName = DOMAIN ix.byEntryName \cup {NamePair(e)}
    BY <1>m, <1>2, <1>6, BagPlus
  <2>2. /\ FolderPairs(new) \subseteq FolderPairs(ix) \cup {FolderPair(e)}
        /\ NamePairs(new, "entry") \subseteq NamePairs(ix, "entry") \cup {NamePair(e)}
        /\ NamePairs(new, "folder") \subseteq NamePairs(ix, "folder")
    BY <1>4, <1>5, <1>6
  <2>3. new.byFolderName = ix.byFolderName
    BY <1>m, <1>6
  <2> QED BY <2>1, <2>2, <2>3 DEF Reaches
<1>7. ASSUME e.type = "folder" PROVE Reaches(new)
  <2>1. DOMAIN new.byFolderName = DOMAIN ix.byFolderName \cup {NamePair(e)}
    BY <1>m, <1>2, <1>7, BagPlus
  <2>2. /\ FolderPairs(new) \subseteq FolderPairs(ix)
        /\ NamePairs(new, "entry") \subseteq NamePairs(ix, "entry")
        /\ NamePairs(new, "folder") \subseteq NamePairs(ix, "folder") \cup {NamePair(e)}
    BY <1>4, <1>5, <1>7
  <2>3. new.byFolder = ix.byFolder /\ new.byEntryName = ix.byEntryName
    BY <1>m, <1>7
  <2> QED BY <2>1, <2>2, <2>3 DEF Reaches
<1> QED BY <1>2, <1>6, <1>7 DEF new

-----------------------------------------------------------------------------
(* The rebuild.  That the recursive function exists is shown by extending   *)
(* one for the first n places by the next place; n is the least one without.*)
Turn(n, ix) ==
  IF n = 0 THEN EmptyIndex
  ELSE IF file[n] = NoRecord THEN ix
  ELSE Inserted(ix, Stored(file[n], n))

Turns(g, n) == g = [i \in 0..n |-> Turn(i, g[i - 1])]

LEMMA TurnsExist == \A n \in Nat : \E g : Turns(g, n)
<1> DEFINE S == {n \in Nat : ~ \E g : Turns(g, n)}
<1> SUFFICES ASSUME S # {} PROVE FALSE
  OBVIOUS
<1>1. PICK n \in S : \A i \in S : n <= i
  <2>1. S \in SUBSET Nat
    OBVIOUS
  <2> QED BY <2>1, LeastOf
<1>2. CASE n = 0
  <2> DEFINE g == [i \in 0..0 |-> EmptyIndex]
  <2>1. g = [i \in 0..0 |-> Turn(i, g[i - 1])]
    <3>1. \A i \in 0..0 : Turn(i, g[i - 1]) = EmptyIndex
      BY DEF Turn
    <3> QED BY <3>1
  <2> QED BY <1>1, <1>2, <2>1 DEF Turns
<1>3. CASE n # 0
  <2>1. n - 1 \in Nat /\ n - 1 \notin S
    BY <1>1, <1>3
  <2>2. PICK g : g = [i \in 0..(n - 1) |-> Turn(i, g[i - 1])]
    BY <2>1 DEF Turns
  <2> DEFINE h == [i \in 0..n |-> IF i = n THEN Turn(n, g[n - 1]) ELSE g[i]]
  <2>3. ASSUME NEW i \in 0..n PROVE h[i] = Turn(i, h[i - 1])
    <3>1. CASE i = n
      <4>1. h[i - 1] = g[n - 1]
        BY <2>1, <3>1
      <4> QED BY <3>1, <4>1
    <3>2. CASE i # n /\ i # 0
      <4>1. i \in 0..(n - 1) /\ i - 1 \in 0..n /\ i - 1 # n
        BY <2>1, <3>2
      <4>2. h[i] = g[i] /\ h[i - 1] = g[i - 1]
        BY <3>2, <4>1
      <4>3. g[i] = Turn(i, g[i - 1])
        BY ONLY <2>2, <4>1
      <4> QED BY <4>2, <4>3
    <3>3. CASE i # n /\ i = 0
      <4>1. 0 \in 0..(n - 1)
        BY <2>1
      <4>2. g[0] = Turn(0, g[0 - 1])
        BY ONLY <2>2, <4>1
      <4>3. g[0] = EmptyIndex /\ Turn(0, h[i - 1]) = EmptyIndex
        BY <4>2 DEF Turn
      <4> QED BY <3>3, <4>3
    <3> QED BY <3>1, <3>2, <3>3
  <2>4. h = [i \in 0..n |-> Turn(i, h[i - 1])]
    <3>1. h = [i \in 0..n |-> h[i]]
      OBVIOUS
    <3> HIDE DEF h
    <3> QED BY <2>3, <3>1
  <2> QED BY <1>1, <2>4 DEF Turns
<1> QED BY <1>2, <1>3

LEMMA RebuildingIs == Turns(Rebuilding, MaxRecords)
<1>1. MaxRecords \in Nat
  BY IndexAssumption
<1>2. \E g : g = [n \in 0..MaxRecords |->
                    IF n = 0 THEN EmptyIndex
                    ELSE IF file[n] = NoRecord THEN g[n - 1]
                    ELSE Inserted(g[n - 1], Stored(file[n], n))]
  BY <1>1, TurnsExist DEF Turns, Turn
<1>3. Rebuilding = [n \in 0..MaxRecords |->
                      IF n = 0 THEN EmptyIndex
                      ELSE IF file[n] = NoRecord THEN Rebuilding[n - 1]
                      ELSE Inserted(Rebuilding[n - 1], Stored(file[n], n))]
  BY <1>2, Zenon DEF Rebuilding
<1> QED BY <1>3 DEF Turns, Turn

\* The records in the first n places.
Upto(n) == {i \in 1..n : file[i] # NoRecord}

\* No two of the places in P have records of one id.
Single(P) == \A i, j \in P : file[i].id = file[j].id => i = j

\* Each entry of byId is the record in the place it refers to, among P.
FiledIn(ix, P) ==
  \A id \in DOMAIN ix.byId :
    LET i == ix.byId[id].ref
    IN  i \in P /\ file[i].id = id /\ ix.byId[id] = Stored(file[i], i)

\* What the rebuild has made of the places in P.
Rebuild(ix, P) ==
  /\ IsIndex(ix) /\ FiledIn(ix, P) /\ Reaches(ix)
  /\ DOMAIN ix.byId = {file[i].id : i \in P}
  /\ Single(P) => Mirrors(ix)

LEMMA EmptyFacts ==
  /\ IsIndex(EmptyIndex) /\ DOMAIN EmptyIndex.byId = {}
  /\ Reaches(EmptyIndex) /\ Mirrors(EmptyIndex)
<1>1. /\ DOMAIN EmptyIndex.byId = {} /\ EmptyIndex.byFolder = SetToBag({})
      /\ EmptyIndex.byEntryName = SetToBag({}) /\ EmptyIndex.byFolderName = SetToBag({})
      /\ EmptyIndex.byId = [id \in DOMAIN EmptyIndex.byId |-> EmptyIndex.byId[id]]
      /\ EmptyIndex = [byId |-> EmptyIndex.byId, byFolder |-> EmptyIndex.byFolder,
                       byEntryName |-> EmptyIndex.byEntryName,
                       byFolderName |-> EmptyIndex.byFolderName]
  BY DEF EmptyIndex, EmptyBag
<1>2. IsABag(SetToBag({}))
  BY DEF IsABag, SetToBag
<1>3. /\ FolderPairs(EmptyIndex) = {} /\ \A type : NamePairs(EmptyIndex, type) = {}
  BY <1>1 DEF FolderPairs, NamePairs, OfType
<1> HIDE DEF EmptyIndex
<1> QED BY <1>1, <1>2, <1>3 DEF IsIndex, Reaches, Mirrors

LEMMA RebuildOneMore ==
  ASSUME file \in [Refs -> Meta \cup {NoRecord}], NEW n \in Refs, NEW ix,
         Rebuild(ix, Upto(n - 1))
  PROVE  Rebuild(Turn(n, ix), Upto(n))
<1>1. n \in Nat /\ n # 0 /\ Upto(n - 1) \subseteq Upto(n) /\ n \notin Upto(n - 1)
  BY IndexAssumption DEF Refs, Upto
<1>2. CASE file[n] = NoRecord
  <2>1. Upto(n) = Upto(n - 1)
    BY <1>1, <1>2 DEF Upto
  <2>2. Turn(n, ix) = ix
    BY <1>1, <1>2 DEF Turn
  <2> QED BY <2>1, <2>2
<1>3. CASE file[n] # NoRecord
  <2> DEFINE e   == Stored(file[n], n)
             new == Inserted(ix, e)
             P   == Upto(n - 1)
  <2>1. Upto(n) = P \cup {n}
    BY <1>1, <1>3 DEF Upto
  <2>2. Turn(n, ix) = new
    BY <1>1, <1>3 DEF Turn
  <2>3. file[n] \in Meta
    BY <1>3
  <2>4. e \in Items /\ e.id = file[n].id /\ e.ref = n
    BY <2>3, StoredFacts
  <2>5. e = Stored(file[n], n)
    OBVIOUS
  <2> HIDE DEF e, P
  <2>6. IsIndex(ix) /\ FiledIn(ix, P) /\ Reaches(ix) /\ DOMAIN ix.byId = {file[i].id : i \in P}
        /\ (Single(P) => Mirrors(ix))
    BY DEF Rebuild, P
  <2>7. /\ IsIndex(new) /\ DOMAIN new.byId = DOMAIN ix.byId \cup {e.id}
        /\ new.byId[e.id] = e
        /\ \A id \in DOMAIN ix.byId \ {e.id} : new.byId[id] = ix.byId[id]
    <3>1. IsIndex(ix) /\ e \in Items
      BY ONLY <2>4, <2>6
    <3> QED BY ONLY <3>1, InsertedIs
  <2>8. Reaches(new)
    BY <2>4, <2>6, InsertedReaches
  <2>9. ASSUME Single(P \cup {n}) PROVE Mirrors(new)
    <3>1. Single(P)
      BY <2>9 DEF Single
    <3>2. \A i \in P : file[i].id # file[n].id
      BY <1>1, <2>9 DEF Single, P
    <3>3. e.id \notin DOMAIN ix.byId
      BY <2>4, <2>6, <3>2
    <3> QED BY <2>4, <2>6, <3>1, <3>3, InsertedKeeps
  <2> HIDE DEF new
  <2>10. FiledIn(new, P \cup {n})
    <3> SUFFICES ASSUME NEW id \in DOMAIN new.byId
                 PROVE  /\ new.byId[id].ref \in P \cup {n} /\ file[new.byId[id].ref].id = id
                        /\ new.byId[id] = Stored(file[new.byId[id].ref], new.byId[id].ref)
      BY DEF FiledIn
    <3>1. CASE id = e.id
      BY <2>4, <2>5, <2>7, <3>1
    <3>2. CASE id # e.id
      <4>1. id \in DOMAIN ix.byId /\ new.byId[id] = ix.byId[id]
        BY <2>7, <3>2
      <4> QED BY <2>6, <4>1 DEF FiledIn
    <3> QED BY <3>1, <3>2
  <2>11. DOMAIN new.byId = {file[i].id : i \in P \cup {n}}
    BY <2>4, <2>6, <2>7
  <2> QED BY <2>1, <2>2, <2>7, <2>8, <2>9, <2>10, <2>11 DEF Rebuild
<1> QED BY <1>2, <1>3

\* The rebuild has gone through all places: by induction over them.
LEMMA RebuiltIs ==
  ASSUME file \in [Refs -> Meta \cup {NoRecord}]
  PROVE  Rebuild(Rebuilt, Used)
<1>1. MaxRecords \in Nat
  BY IndexAssumption
<1> DEFINE r == Rebuilding
           S == {n \in 0..MaxRecords : ~ Rebuild(r[n], Upto(n))}
<1>2. \A n \in 0..MaxRecords : r[n] = Turn(n, r[n - 1])
  BY RebuildingIs DEF Turns
<1> HIDE DEF r
<1>3. S = {}
  <2> SUFFICES ASSUME S # {} PROVE FALSE
    OBVIOUS
  <2>1. PICK n \in S : \A i \in S : n <= i
    <3>1. S \in SUBSET Nat
      BY <1>1
    <3> QED BY <3>1, LeastOf
  <2>2. CASE n = 0
    <3>1. r[0] = EmptyIndex
      BY <1>1, <1>2 DEF Turn
    <3>2. Upto(0) = {}
      BY DEF Upto
    <3>3. Rebuild(EmptyIndex, {})
      BY EmptyFacts DEF Rebuild, FiledIn
    <3> QED BY <2>1, <2>2, <3>1, <3>2, <3>3
  <2>3. CASE n # 0
    <3>1. n - 1 \in 0..MaxRecords /\ n - 1 \notin S /\ n \in Refs
      BY <1>1, <2>1, <2>3 DEF Refs
    <3>2. Rebuild(r[n - 1], Upto(n - 1))
      BY <3>1
    <3>3. Rebuild(Turn(n, r[n - 1]), Upto(n))
      BY <3>1, <3>2, RebuildOneMore
    <3> QED BY <1>2, <2>1, <3>3
  <2> QED BY <2>2, <2>3
<1>4. Rebuild(r[MaxRecords], Upto(MaxRecords))
  BY <1>1, <1>3
<1>5. Upto(MaxRecords) = Used
  BY DEF Upto, Used, Refs
<1> QED BY <1>4, <1>5 DEF r, Rebuilt

-----------------------------------------------------------------------------
(* The inductive invariant: the maps are well formed, each loaded id refers *)
(* to its record in the file, its pairs are in the maps, and nothing else   *)
(* is unless two records of one id were met; folders exist and the counters *)
(* are right until a deleted record has come back.                          *)
Filed(ix, f) ==
  \A id \in DOMAIN ix.byId :
    LET i == ix.byId[id].ref
    IN  i \in Refs /\ f[i] \in Meta /\ f[i].id = id /\ ix.byId[id] = Stored(f[i], i)

Typed ==
  /\ IsIndex(index)
  /\ counts \in [{"entries", "folders"} -> 0..(CounterRange - 1)]
  /\ file \in [Refs -> Meta \cup {NoRecord}]
  /\ doubled \in BOOLEAN /\ revived \in BOOLEAN

Mapped(ix, twice) == Reaches(ix) /\ (~ twice => Mirrors(ix))

\* The folders of the entries exist, and n counts what is there.
Placed(ix) == \A id \in OfType(ix, "entry") :
                ix.byId[id].folder \in OfType(ix, "folder") \cup {NoFolder}

Counted(ix, n) == /\ n.entries = Cardinality(OfType(ix, "entry"))
                  /\ n.folders = Cardinality(OfType(ix, "folder"))

Sound == Filed(index, file) /\ Mapped(index, doubled)

IInv ==
  /\ Typed /\ Sound
  /\ ~ revived => Placed(index) /\ Counted(index, counts)

LEMMA Kinds ==
  ASSUME IsIndex(index)
  PROVE  /\ Folders = OfType(index, "folder") /\ Entries = OfType(index, "entry")
         /\ \A id \in Loaded : /\ index.byId[id] \in Items /\ index.byId[id].id = id
                               /\ index.byId[id].type \in {"entry", "folder"}
BY DEF IsIndex, Items, Folders, Entries, OfType, Loaded

\* Different ids have different references, so there are no more than places.
LEMMA LoadedBounded ==
  ASSUME NEW ix, NEW f, Filed(ix, f)
  PROVE  /\ \A a, b \in DOMAIN ix.byId : ix.byId[a].ref = ix.byId[b].ref => a = b
         /\ IsFiniteSet(DOMAIN ix.byId) /\ Cardinality(DOMAIN ix.byId) < CounterRange
<1> DEFINE g == [id \in DOMAIN ix.byId |-> ix.byId[id].ref]
<1>1. \A a, b \in DOMAIN ix.byId : ix.byId[a].ref = ix.byId[b].ref => a = b
  BY DEF Filed
<1>2. g \in Injection(DOMAIN ix.byId, Refs)
  BY <1>1 DEF Injection, IsInjective, Filed
<1>3. /\ MaxRecords \in Nat /\ CounterRange \in Nat /\ MaxRecords < CounterRange
      /\ IsFiniteSet(Refs) /\ Cardinality(Refs) = MaxRecords
  <2>1. MaxRecords \in Nat
    BY IndexAssumption
  <2>2. IsFiniteSet(1..MaxRecords) /\ Cardinality(1..MaxRecords) = MaxRecords
    BY <2>1, FS_Interval
  <2> QED BY <2>2, IndexAssumption DEF Refs
<1>4. IsFiniteSet(DOMAIN ix.byId) /\ Cardinality(DOMAIN ix.byId) <= Cardinality(Refs)
  BY <1>2, <1>3, FS_Injection
<1>5. Cardinality(DOMAIN ix.byId) \in Nat
  BY <1>4, FS_CardinalityType
<1> QED BY <1>1, <1>3, <1>4, <1>5

LEMMA KindsBounded ==
  ASSUME NEW ix, NEW f, Filed(ix, f), NEW type
  PROVE  /\ IsFiniteSet(OfType(ix, type)) /\ Cardinality(OfType(ix, type)) \in Nat
         /\ Cardinality(OfType(ix, type)) < CounterRange
<1>1. OfType(ix, type) \in SUBSET DOMAIN ix.byId
  BY DEF OfType
<1>2. /\ IsFiniteSet(DOMAIN ix.byId) /\ Cardinality(DOMAIN ix.byId) < CounterRange
      /\ Cardinality(DOMAIN ix.byId) \in Nat /\ CounterRange \in Nat
  BY LoadedBounded, FS_CardinalityType, IndexAssumption
<1>3. /\ IsFiniteSet(OfType(ix, type))
      /\ Cardinality(OfType(ix, type)) <= Cardinality(DOMAIN ix.byId)
  BY <1>1, <1>2, FS_Subset
<1>4. Cardinality(OfType(ix, type)) \in Nat
  BY <1>3, FS_CardinalityType
<1> QED BY <1>2, <1>3, <1>4

\* A record is put into a place no id refers to.
LEMMA PutSound ==
  ASSUME Typed, Sound, NEW r \in Meta, r.id \notin Loaded, Put(r), doubled' = doubled
  PROVE  /\ IsIndex(index') /\ file' \in [Refs -> Meta \cup {NoRecord}] /\ Sound'
         /\ DOMAIN index'.byId = Loaded \cup {r.id}
         /\ index'.byId[r.id].type = r.type /\ index'.byId[r.id].folder = r.folder
         /\ \A id \in Loaded : index'.byId[id] = index.byId[id]
<1>1. PICK ref \in FreeRefs : /\ index' = Inserted(index, Stored(r, ref))
                              /\ file'  = [file EXCEPT ![ref] = r]
  BY DEF Put
<1> DEFINE e == Stored(r, ref)
<1>2. ref \in Refs /\ \A id \in Loaded : index.byId[id].ref # ref
  BY DEF FreeRefs
<1>3. /\ e \in Items /\ e.id = r.id /\ e.ref = ref /\ e.type = r.type /\ e.folder = r.folder
  BY <1>2, StoredFacts
<1>4. e = Stored(r, ref) /\ index' = Inserted(index, e)
  BY <1>1
<1> HIDE DEF e
<1>5. /\ IsIndex(index') /\ DOMAIN index'.byId = Loaded \cup {r.id} /\ index'.byId[r.id] = e
      /\ \A id \in Loaded : index'.byId[id] = index.byId[id]
  <2>1. /\ IsIndex(index') /\ DOMAIN index'.byId = DOMAIN index.byId \cup {e.id}
        /\ index'.byId[e.id] = e
        /\ \A id \in DOMAIN index.byId \ {e.id} : index'.byId[id] = index.byId[id]
    <3> DEFINE new == Inserted(index, e)
    <3>1. IsIndex(index)
      BY DEF Typed
    <3>2. /\ IsIndex(new) /\ DOMAIN new.byId = DOMAIN index.byId \cup {e.id}
          /\ new.byId[e.id] = e
          /\ \A id \in DOMAIN index.byId \ {e.id} : new.byId[id] = index.byId[id]
      <4>1. e \in Items
        BY ONLY <1>3
      <4> QED BY ONLY <3>1, <4>1, InsertedIs
    <3>3. index' = new
      BY <1>4
    <3> HIDE DEF new
    <3> QED BY <3>2, <3>3
  <2> QED BY <1>3, <2>1 DEF Loaded
<1>6. Mapped(index', doubled')
  <2>1. /\ Mirrors(index) => Mirrors(index')
        /\ Reaches(index) => Reaches(index')
    BY <1>3, <1>4, InsertedKeeps DEF Typed, Loaded
  <2> QED BY <2>1 DEF Sound, Mapped
<1>7. /\ file' \in [Refs -> Meta \cup {NoRecord}] /\ file'[ref] = r
      /\ \A i \in Refs \ {ref} : file'[i] = file[i]
  BY <1>1, <1>2 DEF Typed
<1>8. Filed(index', file')
  <2> SUFFICES ASSUME NEW id \in DOMAIN index'.byId
               PROVE  LET i == index'.byId[id].ref
                      IN  /\ i \in Refs /\ file'[i] \in Meta /\ file'[i].id = id
                          /\ index'.byId[id] = Stored(file'[i], i)
    BY DEF Filed
  <2>1. CASE id = r.id
    BY <1>2, <1>3, <1>4, <1>5, <1>7, <2>1
  <2>2. CASE id # r.id
    <3>1. id \in Loaded /\ index'.byId[id] = index.byId[id]
      BY <1>5, <2>2
    <3>2. LET i == index.byId[id].ref
          IN  /\ i \in Refs /\ file[i] \in Meta /\ file[i].id = id /\ i # ref
              /\ index.byId[id] = Stored(file[i], i)
      BY <1>2, <3>1 DEF Sound, Filed, Loaded
    <3> QED BY <1>7, <3>1, <3>2
  <2> QED BY <2>1, <2>2
<1> QED BY <1>3, <1>5, <1>6, <1>7, <1>8 DEF Sound

\* A record is written again, in its place or in one no id refers to.
LEMMA RewriteSound ==
  ASSUME Typed, Sound, NEW r \in Meta, r.id \in Loaded, Rewrite(r), doubled' = doubled
  PROVE  /\ IsIndex(index') /\ file' \in [Refs -> Meta \cup {NoRecord}] /\ Sound'
         /\ DOMAIN index'.byId = Loaded
         /\ index'.byId[r.id].type = r.type /\ index'.byId[r.id].folder = r.folder
         /\ \A id \in Loaded \ {r.id} : index'.byId[id] = index.byId[id]
<1> DEFINE old == index.byId[r.id].ref
<1>1. old \in Refs /\ \A id \in Loaded \ {r.id} : index.byId[id].ref # old
  BY LoadedBounded DEF Sound, Filed, Loaded
<1>2. PICK ref \in Refs : /\ index' = Replaced(index, Stored(r, ref))
                          /\ ref = old \/ ref \in FreeRefs
                          /\ \E f \in {file, [file EXCEPT ![old] = NoRecord]} :
                               file' = [f EXCEPT ![ref] = r]
  BY <1>1 DEF Rewrite, Relocations, Deletions, FreeRefs
<1> DEFINE e == Stored(r, ref)
           h == Removed(index, r.id)
<1>3. \A id \in Loaded \ {r.id} : index.byId[id].ref # ref
  BY <1>1, <1>2 DEF FreeRefs
<1>4. /\ e \in Items /\ e.id = r.id /\ e.ref = ref /\ e.type = r.type /\ e.folder = r.folder
  BY <1>2, StoredFacts
<1>5. e = Stored(r, ref) /\ index' = Inserted(h, e)
  BY <1>2, <1>4 DEF Replaced
<1> HIDE DEF e
<1>6. /\ IsIndex(h) /\ DOMAIN h.byId = Loaded \ {r.id}
      /\ \A id \in DOMAIN h.byId : h.byId[id] = index.byId[id]
  <2>1. IsIndex(index) /\ r.id \in DOMAIN index.byId
    BY DEF Typed, Loaded
  <2> QED BY <2>1, RemovedIs DEF Loaded
<1>7. Mapped(h, doubled)
  BY RemovedKeeps DEF Typed, Loaded, Sound, Mapped
<1> HIDE DEF h
<1>8. /\ IsIndex(index') /\ DOMAIN index'.byId = Loaded /\ index'.byId[r.id] = e
      /\ \A id \in Loaded \ {r.id} : index'.byId[id] = index.byId[id]
  <2> DEFINE new == Inserted(h, e)
  <2>1. /\ IsIndex(new) /\ DOMAIN new.byId = DOMAIN h.byId \cup {e.id}
        /\ new.byId[e.id] = e
        /\ \A id \in DOMAIN h.byId \ {e.id} : new.byId[id] = h.byId[id]
    <3>1. IsIndex(h) /\ e \in Items
      BY <1>4, <1>6
    <3> HIDE DEF old
    <3> QED BY ONLY <3>1, InsertedIs
  <2>2. index' = new
    BY <1>5
  <2> HIDE DEF new
  <2> QED BY <1>4, <1>6, <2>1, <2>2
<1>9. Mapped(index', doubled')
  <2>1. /\ Mirrors(h) => Mirrors(index')
        /\ Reaches(h) => Reaches(index')
    BY <1>4, <1>5, <1>6, InsertedKeeps
  <2> QED BY <1>7, <2>1 DEF Mapped
<1>10. /\ file' \in [Refs -> Meta \cup {NoRecord}] /\ file'[ref] = r
       /\ \A i \in Refs \ {ref, old} : file'[i] = file[i]
  <2>1. PICK f \in {file, [file EXCEPT ![old] = NoRecord]} : file' = [f EXCEPT ![ref] = r]
    BY <1>2
  <2>2. f \in [Refs -> Meta \cup {NoRecord}] /\ \A i \in Refs \ {old} : f[i] = file[i]
    BY <1>1 DEF Typed
  <2> HIDE DEF old
  <2> QED BY <1>2, <2>1, <2>2
<1>11. Filed(index', file')
  <2> SUFFICES ASSUME NEW id \in DOMAIN index'.byId
               PROVE  LET i == index'.byId[id].ref
                      IN  /\ i \in Refs /\ file'[i] \in Meta /\ file'[i].id = id
                          /\ index'.byId[id] = Stored(file'[i], i)
    BY DEF Filed
  <2>1. CASE id = r.id
    BY <1>2, <1>4, <1>5, <1>8, <1>10, <2>1
  <2>2. CASE id # r.id
    <3>1. id \in Loaded /\ index'.byId[id] = index.byId[id]
      BY <1>8, <2>2
    <3>2. LET i == index.byId[id].ref
          IN  /\ i \in Refs /\ file[i] \in Meta /\ file[i].id = id /\ i # ref /\ i # old
              /\ index.byId[id] = Stored(file[i], i)
      BY <1>1, <1>3, <2>2, <3>1 DEF Sound, Filed, Loaded
    <3> QED BY <1>10, <3>1, <3>2
  <2> QED BY <2>1, <2>2
<1> QED BY <1>4, <1>8, <1>9, <1>10, <1>11 DEF Sound

\* A record is deleted, in the file or in memory only.
LEMMA DropSound ==
  ASSUME Typed, Sound, NEW gone \in Loaded, Drop(gone), doubled' = doubled
  PROVE  /\ IsIndex(index') /\ file' \in [Refs -> Meta \cup {NoRecord}] /\ Sound'
         /\ DOMAIN index'.byId = Loaded \ {gone}
         /\ \A id \in Loaded \ {gone} : index'.byId[id] = index.byId[id]
<1> DEFINE old == index.byId[gone].ref
<1>1. old \in Refs /\ \A id \in Loaded \ {gone} : index.byId[id].ref # old
  BY LoadedBounded DEF Sound, Filed, Loaded
<1>2. index' = Removed(index, gone) /\ file' \in {file, [file EXCEPT ![old] = NoRecord]}
  BY DEF Drop, Deletions
<1>3. IsIndex(index) /\ gone \in DOMAIN index.byId
  BY DEF Typed, Loaded
<1>4. /\ IsIndex(index') /\ DOMAIN index'.byId = Loaded \ {gone}
      /\ \A id \in Loaded \ {gone} : index'.byId[id] = index.byId[id]
  <2> DEFINE new == Removed(index, gone)
  <2>1. /\ IsIndex(new) /\ DOMAIN new.byId = DOMAIN index.byId \ {gone}
        /\ \A id \in DOMAIN new.byId : new.byId[id] = index.byId[id]
    BY <1>3, RemovedIs
  <2>2. index' = new
    BY <1>2
  <2> HIDE DEF new
  <2> QED BY <2>1, <2>2 DEF Loaded
<1>5. Mapped(index', doubled')
  <2>1. Mirrors(index) => Mirrors(index')
    BY <1>2, <1>3, RemovedKeeps
  <2>2. Reaches(index) => Reaches(index')
    BY <1>2, <1>3, RemovedKeeps
  <2> QED BY <2>1, <2>2 DEF Sound, Mapped
<1>6. /\ file' \in [Refs -> Meta \cup {NoRecord}]
      /\ \A i \in Refs \ {old} : file'[i] = file[i]
  BY <1>1, <1>2 DEF Typed
<1>7. Filed(index', file')
  <2> SUFFICES ASSUME NEW id \in DOMAIN index'.byId
               PROVE  LET i == index'.byId[id].ref
                      IN  /\ i \in Refs /\ file'[i] \in Meta /\ file'[i].id = id
                          /\ index'.byId[id] = Stored(file'[i], i)
    BY DEF Filed
  <2>1. id \in Loaded /\ id # gone /\ index'.byId[id] = index.byId[id]
    BY <1>4
  <2>2. LET i == index.byId[id].ref
        IN  /\ i \in Refs /\ file[i] \in Meta /\ file[i].id = id /\ i # old
            /\ index.byId[id] = Stored(file[i], i)
    BY <1>1, <2>1 DEF Sound, Filed, Loaded
  <2> QED BY <1>6, <2>1, <2>2
<1> QED BY <1>4, <1>5, <1>6, <1>7 DEF Sound

-----------------------------------------------------------------------------
(* The steps.                                                               *)

\* AddEntry and CreateFolder.
LEMMA PutKeeps ==
  ASSUME IInv, NEW r \in Meta, r.id \in Fresh, r.folder \in FolderChoices, Put(r),
         counts' = IF r.type = "entry" THEN [counts EXCEPT !.entries = More(@)]
                                       ELSE [counts EXCEPT !.folders = More(@)],
         UNCHANGED <<doubled, revived>>
  PROVE  IInv'
<1>1. r.id \notin Loaded /\ r.type \in {"entry", "folder"}
  BY DEF Fresh, Meta
<1>2. /\ IsIndex(index') /\ file' \in [Refs -> Meta \cup {NoRecord}] /\ Sound'
      /\ DOMAIN index'.byId = Loaded \cup {r.id}
      /\ index'.byId[r.id].type = r.type /\ index'.byId[r.id].folder = r.folder
      /\ \A id \in Loaded : index'.byId[id] = index.byId[id]
  BY <1>1, PutSound DEF IInv
<1>3. \A type : OfType(index', type) = OfType(index, type) \cup
                  (IF r.type = type THEN {r.id} ELSE {})
  BY <1>1, <1>2 DEF OfType, Loaded
<1>4. counts' \in [{"entries", "folders"} -> 0..(CounterRange - 1)]
  BY CounterFacts DEF IInv, Typed
<1>5. Typed'
  BY <1>2, <1>4 DEF IInv, Typed
<1>6. ASSUME ~ revived' PROVE Placed(index') /\ Counted(index', counts')
  <2>1. Placed(index) /\ Counted(index, counts)
    BY <1>6 DEF IInv
  <2>2. r.folder \in OfType(index, "folder") \cup {NoFolder}
    BY Kinds DEF FolderChoices, IInv, Typed
  <2>3. Placed(index')
    <3> SUFFICES ASSUME NEW id \in OfType(index', "entry")
                 PROVE  index'.byId[id].folder \in OfType(index', "folder") \cup {NoFolder}
      BY DEF Placed
    <3>1. OfType(index, "folder") \subseteq OfType(index', "folder")
      BY <1>3
    <3>2. CASE id = r.id
      BY <1>2, <2>2, <3>1, <3>2
    <3>3. CASE id # r.id
      <4>1. id \in OfType(index, "entry") /\ index'.byId[id] = index.byId[id]
        BY <1>2, <1>3, <3>3 DEF OfType, Loaded
      <4> QED BY <2>1, <3>1, <4>1 DEF Placed
    <3> QED BY <3>2, <3>3
  <2>4. \A type : /\ IsFiniteSet(OfType(index, type)) /\ Cardinality(OfType(index, type)) \in Nat
                  /\ Cardinality(OfType(index', type)) < CounterRange
    BY <1>2, KindsBounded DEF IInv, Sound
  <2>5. r.id \notin OfType(index, r.type)
    BY <1>1 DEF OfType, Loaded
  <2>6. Cardinality(OfType(index', r.type)) = Cardinality(OfType(index, r.type)) + 1
    BY <1>3, <2>4, <2>5, FS_AddElement
  <2>7. More(Cardinality(OfType(index, r.type))) = Cardinality(OfType(index', r.type))
    BY <2>4, <2>6, CounterFacts
  <2>8. counts \in [{"entries", "folders"} -> 0..(CounterRange - 1)]
    BY DEF IInv, Typed
  <2>9. CASE r.type = "entry"
    <3>1. OfType(index', "folder") = OfType(index, "folder")
      BY <1>3, <2>9
    <3>2. counts'.entries = More(counts.entries) /\ counts'.folders = counts.folders
      BY <2>8, <2>9
    <3> QED BY <2>1, <2>3, <2>7, <2>9, <3>1, <3>2 DEF Counted
  <2>10. CASE r.type = "folder"
    <3>1. OfType(index', "entry") = OfType(index, "entry")
      BY <1>3, <2>10
    <3>2. counts'.folders = More(counts.folders) /\ counts'.entries = counts.entries
      BY <2>8, <2>10
    <3> QED BY <2>1, <2>3, <2>7, <2>10, <3>1, <3>2 DEF Counted
  <2> QED BY <1>1, <2>9, <2>10
<1> QED BY <1>2, <1>5, <1>6 DEF IInv

\* UpdateEntry, AddToFolder and UpdateFolder: the record keeps its type.
LEMMA RewriteKeeps ==
  ASSUME IInv, NEW r \in Meta, r.id \in Loaded, r.type = index.byId[r.id].type,
         r.folder \in FolderChoices, Rewrite(r), UNCHANGED <<counts, doubled, revived>>
  PROVE  IInv'
<1>1. /\ IsIndex(index') /\ file' \in [Refs -> Meta \cup {NoRecord}] /\ Sound'
      /\ DOMAIN index'.byId = Loaded
      /\ index'.byId[r.id].type = r.type /\ index'.byId[r.id].folder = r.folder
      /\ \A id \in Loaded \ {r.id} : index'.byId[id] = index.byId[id]
  BY RewriteSound DEF IInv
<1>2. \A type : OfType(index', type) = OfType(index, type)
  BY <1>1 DEF OfType, Loaded
<1>3. Typed'
  BY <1>1 DEF IInv, Typed
<1>4. ASSUME ~ revived' PROVE Placed(index') /\ Counted(index', counts')
  <2>1. Placed(index) /\ Counted(index, counts)
    BY <1>4 DEF IInv
  <2>2. r.folder \in OfType(index, "folder") \cup {NoFolder}
    BY Kinds DEF FolderChoices, IInv, Typed
  <2>3. ASSUME NEW id \in OfType(index', "entry")
        PROVE  index'.byId[id].folder \in OfType(index', "folder") \cup {NoFolder}
    <3>1. CASE id = r.id
      BY <1>1, <1>2, <2>2, <3>1
    <3>2. CASE id # r.id
      <4>1. id \in OfType(index, "entry") /\ index'.byId[id] = index.byId[id]
        BY <1>1, <1>2, <3>2 DEF OfType, Loaded
      <4> QED BY <1>2, <2>1, <4>1 DEF Placed
    <3> QED BY <3>1, <3>2
  <2> QED BY <1>2, <2>1, <2>3 DEF Placed, Counted
<1> QED BY <1>1, <1>3, <1>4 DEF IInv

\* An entry whose pair is in byFolder is found in its folder.
LEMMA InItsFolder ==
  ASSUME IsIndex(index), Reaches(index), NEW id \in OfType(index, "entry")
  PROVE  id \in FoundByFolder(index, index.byId[id].folder)
<1> DEFINE p == <<index.byId[id].folder, id>>
<1>1. p \in DOMAIN index.byFolder
  <2>1. index.byId[id].id = id
    BY DEF IsIndex, OfType
  <2> QED BY <2>1 DEF Reaches, FolderPairs, FolderPair
<1>2. p[1] = index.byId[id].folder /\ p[2] = id /\ id \in DOMAIN index.byId
  BY DEF OfType
<1> HIDE DEF p
<1> QED BY <1>1, <1>2 DEF FoundByFolder, BagToSet

\* DeleteEntry and DeleteFolder, which refuses a folder with entries.
LEMMA DropKeeps ==
  ASSUME IInv, NEW gone \in Loaded, Drop(gone),
         index.byId[gone].type = "folder" => FoundByFolder(index, gone) = {},
         counts' = IF index.byId[gone].type = "entry"
                   THEN [counts EXCEPT !.entries = Less(@)] ELSE [counts EXCEPT !.folders = Less(@)],
         UNCHANGED <<doubled, revived>>
  PROVE  IInv'
<1> DEFINE kind == index.byId[gone].type
<1>1. kind \in {"entry", "folder"} /\ gone \in OfType(index, kind)
  BY Kinds DEF IInv, Typed, OfType, Loaded
<1>2. /\ IsIndex(index') /\ file' \in [Refs -> Meta \cup {NoRecord}] /\ Sound'
      /\ DOMAIN index'.byId = Loaded \ {gone}
      /\ \A id \in Loaded \ {gone} : index'.byId[id] = index.byId[id]
  BY DropSound DEF IInv
<1>3. \A type : OfType(index', type) = OfType(index, type) \ {gone}
  BY <1>2 DEF OfType, Loaded
<1>4. \A type : type # kind => gone \notin OfType(index, type)
  BY DEF OfType
<1>5. kind = "folder" => FoundByFolder(index, gone) = {}
  OBVIOUS
<1>6. counts' = IF kind = "entry" THEN [counts EXCEPT !.entries = Less(@)]
                                  ELSE [counts EXCEPT !.folders = Less(@)]
  OBVIOUS
<1>7. counts \in [{"entries", "folders"} -> 0..(CounterRange - 1)]
  BY DEF IInv, Typed
<1> HIDE DEF kind
<1>8. counts' \in [{"entries", "folders"} -> 0..(CounterRange - 1)]
  BY <1>6, <1>7, CounterFacts
<1>9. Typed'
  BY <1>2, <1>8 DEF IInv, Typed
<1>10. ASSUME ~ revived' PROVE Placed(index') /\ Counted(index', counts')
  <2>1. Placed(index) /\ Counted(index, counts)
    BY <1>10 DEF IInv
  <2>2. ASSUME NEW id \in OfType(index', "entry")
        PROVE  index'.byId[id].folder \in OfType(index', "folder") \cup {NoFolder}
    <3>1. id \in OfType(index, "entry") /\ index'.byId[id] = index.byId[id]
      BY <1>2, <1>3 DEF OfType, Loaded
    <3>2. index.byId[id].folder \in OfType(index, "folder") \cup {NoFolder}
      BY <2>1, <3>1 DEF Placed
    <3>3. index.byId[id].folder = gone => gone \notin OfType(index, "folder")
      <4> SUFFICES ASSUME index.byId[id].folder = gone, gone \in OfType(index, "folder")
                   PROVE  FALSE
        OBVIOUS
      <4>1. FoundByFolder(index, gone) = {}
        BY <1>4, <1>5
      <4>2. id \in FoundByFolder(index, gone)
        BY <3>1, InItsFolder DEF IInv, Typed, Sound, Mapped
      <4> QED BY <4>1, <4>2
    <3>4. gone # NoFolder
      BY IndexAssumption DEF IInv, Typed, IsIndex, Items, Loaded
    <3> QED BY <1>3, <3>1, <3>2, <3>3, <3>4
  <2>3. \A type : /\ IsFiniteSet(OfType(index, type)) /\ Cardinality(OfType(index, type)) \in Nat
                  /\ Cardinality(OfType(index, type)) < CounterRange
    BY KindsBounded DEF IInv, Sound
  <2>4. /\ Cardinality(OfType(index', kind)) = Cardinality(OfType(index, kind)) - 1
        /\ Cardinality(OfType(index, kind)) # 0
    BY <1>1, <1>3, <2>3, FS_RemoveElement, FS_EmptySet
  <2>5. Less(Cardinality(OfType(index, kind))) = Cardinality(OfType(index', kind))
    BY <2>3, <2>4, CounterFacts
  <2>6. CASE kind = "entry"
    <3>1. OfType(index', "folder") = OfType(index, "folder")
      BY <1>3, <1>4, <2>6
    <3>2. counts'.entries = Less(counts.entries) /\ counts'.folders = counts.folders
      BY <1>6, <1>7, <2>6
    <3> QED BY <2>1, <2>2, <2>5, <2>6, <3>1, <3>2 DEF Placed, Counted
  <2>7. CASE kind = "folder"
    <3>1. OfType(index', "entry") = OfType(index, "entry")
      BY <1>3, <1>4, <2>7
    <3>2. counts'.folders = Less(counts.folders) /\ counts'.entries = counts.entries
      BY <1>6, <1>7, <2>7
    <3> QED BY <2>1, <2>2, <2>5, <2>7, <3>1, <3>2 DEF Placed, Counted
  <2> QED BY <1>1, <2>6, <2>7
<1> QED BY <1>2, <1>9, <1>10 DEF IInv

\* With no lost deletion the records in the file are those of byId.
LEMMA Restored ==
  ASSUME IInv, Stale = {}
  PROVE  Single(Used) /\ Rebuilt.byId = index.byId
<1>1. \A id \in Loaded : LET i == index.byId[id].ref
                         IN  /\ i \in Refs /\ file[i] \in Meta /\ file[i].id = id
                             /\ index.byId[id] = Stored(file[i], i)
  BY DEF IInv, Sound, Filed, Loaded
<1>2. \A id \in Loaded : index.byId[id].ref \in Used
  BY <1>1, RecordAssumption DEF Used
<1>3. \A i \in Used : file[i].id \in Loaded /\ index.byId[file[i].id].ref = i
  <2> SUFFICES ASSUME NEW i \in Used
               PROVE  file[i].id \in Loaded /\ index.byId[file[i].id].ref = i
    OBVIOUS
  <2>1. PICK id \in Loaded : index.byId[id].ref = i
    BY DEF Stale
  <2> QED BY <1>1, <2>1
<1>4. Single(Used)
  BY <1>3 DEF Single
<1>5. Rebuild(Rebuilt, Used)
  BY RebuiltIs DEF IInv, Typed
<1>6. DOMAIN Rebuilt.byId = Loaded
  <2>1. DOMAIN Rebuilt.byId = {file[i].id : i \in Used}
    BY <1>5 DEF Rebuild
  <2> QED BY <1>1, <1>2, <1>3, <2>1
<1>7. ASSUME NEW id \in Loaded PROVE Rebuilt.byId[id] = index.byId[id]
  <2> DEFINE i == Rebuilt.byId[id].ref
  <2>1. i \in Used /\ file[i].id = id /\ Rebuilt.byId[id] = Stored(file[i], i)
    BY <1>5, <1>6 DEF Rebuild, FiledIn
  <2>2. index.byId[id].ref = i
    BY <1>3, <2>1
  <2> HIDE DEF i
  <2> QED BY <1>1, <2>1, <2>2
<1>8. /\ Rebuilt.byId = [id \in DOMAIN Rebuilt.byId |-> Rebuilt.byId[id]]
      /\ index.byId = [id \in DOMAIN index.byId |-> index.byId[id]]
  BY <1>5 DEF Rebuild, IsIndex, IInv, Typed
<1> QED BY <1>4, <1>6, <1>7, <1>8 DEF Loaded

\* Reopen.
LEMMA ReopenKeeps ==
  ASSUME IInv, Reopen
  PROVE  IInv'
<1>1. Rebuild(index', Used)
  BY RebuiltIs DEF IInv, Typed, Reopen
<1>2. Typed'
  BY <1>1 DEF IInv, Typed, Reopen, Rebuild
<1>3. Filed(index', file')
  <2>1. \A i \in Used : i \in Refs /\ file[i] \in Meta
    BY DEF Used, IInv, Typed
  <2>2. FiledIn(index', Used) /\ file' = file
    BY <1>1 DEF Rebuild, Reopen
  <2> QED BY <2>1, <2>2 DEF FiledIn, Filed
<1>4. Mapped(index', doubled')
  <2>1. ~ doubled' => Single(Used)
    BY DEF Reopen, Single
  <2> QED BY <1>1, <2>1 DEF Rebuild, Mapped
<1>5. ASSUME ~ revived' PROVE Placed(index') /\ Counted(index', counts')
  <2>1. Stale = {} /\ ~ revived /\ counts' = counts /\ index' = Rebuilt
    BY <1>5 DEF Reopen
  <2>2. index'.byId = index.byId
    BY <2>1, Restored
  <2>3. Placed(index) /\ Counted(index, counts)
    BY <2>1 DEF IInv
  <2> QED BY <2>1, <2>2, <2>3 DEF Placed, Counted, OfType
<1> QED BY <1>2, <1>3, <1>4, <1>5 DEF IInv, Sound

-----------------------------------------------------------------------------
LEMMA InitHolds == Init => IInv
<1> SUFFICES ASSUME Init PROVE IInv
  OBVIOUS
<1>1. /\ IsIndex(index) /\ DOMAIN index.byId = {} /\ Reaches(index) /\ Mirrors(index)
  BY EmptyFacts DEF Init
<1>2. /\ counts = [entries |-> 0, folders |-> 0] /\ file = [i \in Refs |-> NoRecord]
      /\ doubled = FALSE /\ revived = FALSE
  BY DEF Init
<1>3. Typed
  <2>1. 0 \in 0..(CounterRange - 1)
    BY CounterFacts
  <2>2. counts \in [{"entries", "folders"} -> 0..(CounterRange - 1)]
    BY ONLY <1>2, <2>1
  <2>3. file \in [Refs -> Meta \cup {NoRecord}]
    BY ONLY <1>2
  <2> QED BY <1>1, <1>2, <2>2, <2>3 DEF Typed
<1>4. Sound
  BY <1>1 DEF Sound, Filed, Mapped
<1>5. \A type : OfType(index, type) = {}
  BY <1>1 DEF OfType
<1>6. Placed(index) /\ Counted(index, counts)
  BY <1>2, <1>5, FS_EmptySet DEF Placed, Counted
<1> QED BY <1>3, <1>4, <1>6 DEF IInv

LEMMA StepKeeps == IInv /\ [Next]_vars => IInv'
<1> SUFFICES ASSUME IInv, [Next]_vars PROVE IInv'
  OBVIOUS
<1>1. /\ Folders = OfType(index, "folder") /\ Entries = OfType(index, "entry")
      /\ \A id \in Loaded : /\ index.byId[id] \in Items /\ index.byId[id].id = id
                            /\ index.byId[id].type \in {"entry", "folder"}
  BY Kinds DEF IInv, Typed
<1>2. /\ Fresh \subseteq Ids /\ Loaded \subseteq Ids
      /\ FolderChoices \subseteq Ids \cup {NoFolder} /\ NoFolder \in FolderChoices
      /\ Folders \subseteq FolderChoices /\ Folders \subseteq Loaded /\ Entries \subseteq Loaded
  BY <1>1 DEF Fresh, FolderChoices, Folders, Entries, Items
<1>3. \A type \in {"entry", "folder"}, id \in Ids, folder \in Ids \cup {NoFolder}, name \in Names :
        LET r == Record(type, id, folder, name)
        IN  r \in Meta /\ r.type = type /\ r.id = id /\ r.folder = folder
  BY DEF Record, Meta
<1>4. CASE AddEntry
  <2>1. PICK id \in Fresh, folder \in FolderChoices, name \in Names :
          /\ Put(Record("entry", id, folder, name))
          /\ counts' = [counts EXCEPT !.entries = More(@)] /\ UNCHANGED <<doubled, revived>>
    BY <1>4 DEF AddEntry
  <2> DEFINE r == Record("entry", id, folder, name)
  <2>2. r \in Meta /\ r.type = "entry" /\ r.id = id /\ r.folder = folder
    BY <1>2, <1>3
  <2>3. Put(r)
    BY <2>1
  <2> HIDE DEF r
  <2> QED BY <2>1, <2>2, <2>3, PutKeeps
<1>5. CASE CreateFolder
  <2>1. PICK id \in Fresh, name \in Names :
          /\ Put(Record("folder", id, NoFolder, name))
          /\ counts' = [counts EXCEPT !.folders = More(@)] /\ UNCHANGED <<doubled, revived>>
    BY <1>5 DEF CreateFolder
  <2> DEFINE r == Record("folder", id, NoFolder, name)
  <2>2. r \in Meta /\ r.type = "folder" /\ r.id = id /\ r.folder = NoFolder
    BY <1>2, <1>3
  <2>3. Put(r)
    BY <2>1
  <2> HIDE DEF r
  <2> QED BY <1>2, <2>1, <2>2, <2>3, PutKeeps
<1>6. CASE UpdateEntry
  <2>1. PICK id \in Entries, folder \in FolderChoices, name \in Names :
          Rewrite(Record("entry", id, folder, name)) /\ UNCHANGED <<counts, doubled, revived>>
    BY <1>6 DEF UpdateEntry
  <2> DEFINE r == Record("entry", id, folder, name)
  <2>2. r \in Meta /\ r.type = "entry" /\ r.id = id /\ r.folder = folder
    BY <1>2, <1>3
  <2>3. Rewrite(r)
    BY <2>1
  <2> HIDE DEF r
  <2>4. r.id \in Loaded /\ r.type = index.byId[r.id].type
    BY <1>1, <1>2, <2>2 DEF OfType
  <2> QED BY <2>1, <2>2, <2>3, <2>4, RewriteKeeps
<1>7. CASE AddToFolder
  <2>1. PICK id \in Entries, folder \in Folders :
          /\ Rewrite(Record("entry", id, folder, index.byId[id].name))
          /\ UNCHANGED <<counts, doubled, revived>>
    BY <1>7 DEF AddToFolder
  <2> DEFINE r == Record("entry", id, folder, index.byId[id].name)
  <2>2. index.byId[id].name \in Names
    BY <1>1, <1>2 DEF Items
  <2>3. r \in Meta /\ r.type = "entry" /\ r.id = id /\ r.folder = folder
    BY <1>2, <1>3, <2>2
  <2>4. Rewrite(r)
    BY <2>1
  <2> HIDE DEF r
  <2>5. r.id \in Loaded /\ r.type = index.byId[r.id].type
    BY <1>1, <1>2, <2>3 DEF OfType
  <2> QED BY <1>2, <2>1, <2>3, <2>4, <2>5, RewriteKeeps
<1>8. CASE UpdateFolder
  <2>1. PICK id \in Folders, name \in Names :
          Rewrite(Record("folder", id, NoFolder, name)) /\ UNCHANGED <<counts, doubled, revived>>
    BY <1>8 DEF UpdateFolder
  <2> DEFINE r == Record("folder", id, NoFolder, name)
  <2>2. r \in Meta /\ r.type = "folder" /\ r.id = id /\ r.folder = NoFolder
    BY <1>2, <1>3
  <2>3. Rewrite(r)
    BY <2>1
  <2> HIDE DEF r
  <2>4. r.id \in Loaded /\ r.type = index.byId[r.id].type
    BY <1>1, <1>2, <2>2 DEF OfType
  <2> QED BY <1>2, <2>1, <2>2, <2>3, <2>4, RewriteKeeps
<1>9. CASE DeleteEntry
  <2>1. PICK id \in Entries :
          /\ Drop(id) /\ counts' = [counts EXCEPT !.entries = Less(@)]
          /\ UNCHANGED <<doubled, revived>>
    BY <1>9 DEF DeleteEntry
  <2>2. id \in Loaded /\ index.byId[id].type = "entry"
    BY <1>1, <1>2 DEF OfType
  <2> QED BY <2>1, <2>2, DropKeeps
<1>10. CASE DeleteFolder
  <2>1. PICK id \in Folders :
          /\ FoundByFolder(index, id) = {}
          /\ Drop(id) /\ counts' = [counts EXCEPT !.folders = Less(@)]
          /\ UNCHANGED <<doubled, revived>>
    BY <1>10 DEF DeleteFolder
  <2>2. id \in Loaded /\ index.byId[id].type = "folder"
    BY <1>1, <1>2 DEF OfType
  <2> QED BY <2>1, <2>2, DropKeeps
<1>11. CASE Reopen
  BY <1>11, ReopenKeeps
<1>12. CASE UNCHANGED vars
  BY <1>12 DEF vars, IInv, Typed, Sound
<1> QED BY <1>4, <1>5, <1>6, <1>7, <1>8, <1>9, <1>10, <1>11, <1>12 DEF Next

\* The invariant holds in every reachable state.
THEOREM Invariance == Spec => []IInv
<1> QED BY InitHolds, StepKeeps, PTL DEF Spec

-----------------------------------------------------------------------------
(* The properties.                                                          *)
LEMMA TypeHolds == IInv => TypeOK
<1> SUFFICES ASSUME IInv PROVE TypeOK
  OBVIOUS
<1>1. Loaded \subseteq Ids
  BY DEF IInv, Typed, IsIndex, Items, Loaded
<1>2. ASSUME NEW id \in Loaded
      PROVE  \E r \in Meta, i \in Refs : index.byId[id] = Stored(r, i) /\ r.id = id
  BY DEF IInv, Sound, Filed, Loaded
<1> QED BY <1>1, <1>2 DEF IInv, Typed, IsIndex, TypeOK

\* Types: ids, records and references, and counters within their range.
THEOREM TypeCorrect == Spec => []TypeOK
<1> QED BY Invariance, TypeHolds, PTL

\* The pairs of the three multimaps in terms of the entries and folders.
LEMMA PairsAre ==
  ASSUME IInv
  PROVE  /\ FolderPairs(index) = {<<index.byId[id].folder, id>> : id \in Entries}
         /\ NamePairs(index, "entry") = {<<Normalize(index.byId[id].name), id>> : id \in Entries}
         /\ NamePairs(index, "folder") = {<<Normalize(index.byId[id].name), id>> : id \in Folders}
<1>1. /\ Folders = OfType(index, "folder") /\ Entries = OfType(index, "entry")
      /\ \A id \in Entries \cup Folders : index.byId[id].id = id
  BY Kinds DEF IInv, Typed, Entries, Folders
<1> QED BY <1>1 DEF FolderPairs, NamePairs, FolderPair, NamePair

LEMMA MapsHold == IInv => MapsMirror
BY PairsAre DEF IInv, Sound, Mapped, Mirrors, MapsMirror

\* The multimaps hold what byId says, each pair once, unless a rebuild met two
\* records of one id: no operation leaves a pair behind or adds one twice.
THEOREM MapsCorrect == Spec => []MapsMirror
<1> QED BY Invariance, MapsHold, PTL

\* A search by range takes the pairs whose name starts with the query.
LEMMA FoundIs ==
  ASSUME NEW names, NEW q \in Names \cup Queries
  PROVE  /\ \A p \in DOMAIN names :
              p[1] \in Strings /\ IsPrefix(Normalize(q), p[1]) => p[2] \in Hits(names, q)
         /\ (\A p \in DOMAIN names : p[1] \in Strings) =>
              Hits(names, q) =
                {p[2] : p \in {x \in DOMAIN names : IsPrefix(Normalize(q), x[1])}}
<1> DEFINE from == Normalize(q)
           to   == NextPrefix(from)
           In(s) == ~ Before(s, from) /\ (to = <<>> \/ Before(s, to))
<1>1. from \in Strings
  BY NormalizedIsString
<1>2. \A s \in Strings : In(s) <=> IsPrefix(from, s)
  <2> HIDE DEF from
  <2> QED BY <1>1, RangeIsPrefix
<1>3. Hits(names, q) = {p[2] : p \in {x \in DOMAIN names : In(x[1])}}
  BY DEF Hits, BagToSet
<1>4. from = Normalize(q)
  OBVIOUS
<1> HIDE DEF from, In
<1>6. ASSUME NEW p \in DOMAIN names, p[1] \in Strings, IsPrefix(from, p[1])
      PROVE  p[2] \in Hits(names, q)
  <2>1. In(p[1])
    BY <1>2, <1>6
  <2> QED BY <1>3, <2>1
<1>7. ASSUME \A p \in DOMAIN names : p[1] \in Strings
      PROVE  Hits(names, q) = {p[2] : p \in {x \in DOMAIN names : IsPrefix(from, x[1])}}
  BY <1>2, <1>3, <1>7
<1> QED BY <1>4, <1>6, <1>7

\* Of a map that holds the names of the given ids a search takes those that match.
LEMMA FoundAmong ==
  ASSUME IInv, NEW ids \in SUBSET Loaded, NEW names, NEW q \in Queries,
         DOMAIN names = {<<Normalize(index.byId[id].name), id>> : id \in ids}
  PROVE  Hits(names, q) =
           {id \in ids : IsPrefix(Normalize(q), Normalize(index.byId[id].name))}
<1>1. \A id \in ids : Normalize(index.byId[id].name) \in Strings
  BY NormalizedIsString, Kinds DEF IInv, Typed, Items
<1>2. \A p \in DOMAIN names : p[1] \in Strings
  BY <1>1
<1> DEFINE Key(id)    == Normalize(index.byId[id].name)
           Matches(s) == IsPrefix(Normalize(q), s)
<1>3. Hits(names, q) = {p[2] : p \in {x \in DOMAIN names : Matches(x[1])}}
  BY <1>2, FoundIs
<1>4. DOMAIN names = {<<Key(id), id>> : id \in ids}
  OBVIOUS
<1> HIDE DEF Key, Matches
<1>5. ASSUME NEW id \in Hits(names, q) PROVE id \in ids /\ Matches(Key(id))
  <2>1. PICK p \in DOMAIN names : Matches(p[1]) /\ id = p[2]
    BY <1>3
  <2>2. PICK k \in ids : p = <<Key(k), k>>
    BY <1>4, <2>1
  <2>3. p[1] = Key(k) /\ p[2] = k
    BY ONLY <2>2
  <2> QED BY <2>1, <2>2, <2>3
<1>6. ASSUME NEW id \in ids, Matches(Key(id)) PROVE id \in Hits(names, q)
  <2> DEFINE p == <<Key(id), id>>
  <2>1. p \in DOMAIN names /\ p[1] = Key(id) /\ p[2] = id
    BY <1>4
  <2> HIDE DEF p
  <2>2. p \in {x \in DOMAIN names : Matches(x[1])}
    BY <1>6, <2>1
  <2> QED BY <1>3, <2>1, <2>2
<1>7. Hits(names, q) = {id \in ids : Matches(Key(id))}
  BY ONLY <1>5, <1>6
<1> QED BY <1>7 DEF Key, Matches

\* What is found is the one set of hits, when the ids are all there.
LEMMA FoundIsHits ==
  ASSUME NEW ix, NEW names, NEW q
  PROVE  /\ \A ids \in FoundByName(ix, names, q) : ids = Hits(names, q)
         /\ Hits(names, q) \subseteq DOMAIN ix.byId => FoundByName(ix, names, q) = {Hits(names, q)}
BY DEF FoundByName

LEMMA SearchHolds == IInv => SearchFindsAll
<1> SUFFICES ASSUME IInv PROVE SearchFindsAll
  OBVIOUS
<1>1. /\ Folders = OfType(index, "folder") /\ Entries = OfType(index, "entry")
      /\ Folders \in SUBSET Loaded /\ Entries \in SUBSET Loaded
      /\ \A id \in Loaded : index.byId[id] \in Items
  BY Kinds DEF IInv, Typed, Folders, Entries
<1>2. SearchExact
  <2> SUFFICES ASSUME ~ doubled, NEW q \in Queries
               PROVE  /\ FoundByName(index, index.byEntryName, q) = {Matching(Entries, q)}
                      /\ FoundByName(index, index.byFolderName, q) = {Matching(Folders, q)}
    BY DEF SearchExact
  <2>1. Mirrors(index)
    BY DEF IInv, Sound, Mapped
  <2>2. /\ DOMAIN index.byEntryName = {<<Normalize(index.byId[id].name), id>> : id \in Entries}
        /\ DOMAIN index.byFolderName = {<<Normalize(index.byId[id].name), id>> : id \in Folders}
    BY <2>1, PairsAre DEF Mirrors, SetToBag
  <2>3. /\ Hits(index.byEntryName, q) = Matching(Entries, q)
        /\ Hits(index.byFolderName, q) = Matching(Folders, q)
    BY <1>1, <2>2, FoundAmong DEF Matching
  <2>4. /\ Matching(Entries, q) \subseteq DOMAIN index.byId
        /\ Matching(Folders, q) \subseteq DOMAIN index.byId
    BY <1>1 DEF Matching, Loaded
  <2> QED BY <2>3, <2>4, FoundIsHits
<1>3. NoEntryHidden
  <2>1. Reaches(index) /\ IsIndex(index)
    BY DEF IInv, Typed, Sound, Mapped
  <2>2. \A id \in Entries : id \in FoundByFolder(index, index.byId[id].folder)
    BY <1>1, <2>1, InItsFolder
  <2>3. ASSUME NEW names, NEW S \in SUBSET Loaded, NEW q \in Queries,
               \A id \in S : <<Normalize(index.byId[id].name), id>> \in DOMAIN names
        PROVE  Matching(S, q) \subseteq Hits(names, q)
    <3> SUFFICES ASSUME NEW id \in S, IsPrefix(Normalize(q), Normalize(index.byId[id].name))
                 PROVE  id \in Hits(names, q)
      BY DEF Matching
    <3> DEFINE key == Normalize(index.byId[id].name)
               p   == <<key, id>>
    <3>1. key \in Strings
      BY <1>1, NormalizedIsString DEF Items
    <3>2. p \in DOMAIN names /\ p[1] = key /\ p[2] = id /\ IsPrefix(Normalize(q), key)
      BY <2>3
    <3> HIDE DEF key, p
    <3> QED BY <3>1, <3>2, FoundIs
  <2>4. /\ \A id \in Entries : <<Normalize(index.byId[id].name), id>> \in DOMAIN index.byEntryName
        /\ \A id \in Folders : <<Normalize(index.byId[id].name), id>> \in DOMAIN index.byFolderName
    BY <2>1, PairsAre DEF Reaches
  <2>5. ASSUME NEW q \in Queries
        PROVE  /\ Matching(Entries, q) \subseteq Hits(index.byEntryName, q)
               /\ Matching(Folders, q) \subseteq Hits(index.byFolderName, q)
    BY <1>1, <2>3, <2>4
  <2> QED BY <2>2, <2>5, FoundIsHits DEF NoEntryHidden
<1> QED BY <1>2, <1>3 DEF SearchFindsAll

\* A search returns the names that start with the query, for every query, also one
\* that ends in the greatest byte, and never throws, as long as no rebuild has met
\* two records of one id; after one it may throw, but an answer hides no entry.
THEOREM SearchCorrect == Spec => []SearchFindsAll
<1> QED BY Invariance, SearchHolds, PTL

LEMMA FoldersHold == IInv => FoldersAndCountsExact
BY Kinds DEF IInv, Typed, Placed, Counted, FolderChoices, FoldersAndCountsExact,
             FoldersResolve, CountsExact

\* An entry's folder exists and the counters of the header neither wrap nor
\* drift, until a rebuild loads a record counted as deleted.
THEOREM FoldersCorrect == Spec => []FoldersAndCountsExact
<1> QED BY Invariance, FoldersHold, PTL

LEMMA ReopenHolds == IInv => ReopenRestores
<1> SUFFICES ASSUME IInv, Stale = {}, ~ doubled PROVE Rebuilt = index
  BY DEF ReopenRestores
<1>1. Single(Used) /\ Rebuilt.byId = index.byId
  BY Restored
<1>2. Mirrors(Rebuilt) /\ IsIndex(Rebuilt)
  BY <1>1, RebuiltIs DEF Rebuild, IInv, Typed
<1>3. Mirrors(index) /\ IsIndex(index)
  BY DEF IInv, Typed, Sound, Mapped
<1>4. \A type : OfType(Rebuilt, type) = OfType(index, type)
  BY <1>1 DEF OfType
<1>5. /\ FolderPairs(Rebuilt) = FolderPairs(index)
      /\ \A type : NamePairs(Rebuilt, type) = NamePairs(index, type)
  BY <1>1, <1>4 DEF FolderPairs, NamePairs
<1>6. /\ Rebuilt.byFolder = index.byFolder /\ Rebuilt.byEntryName = index.byEntryName
      /\ Rebuilt.byFolderName = index.byFolderName
  BY <1>2, <1>3, <1>5 DEF Mirrors
<1>7. \A ix : IsIndex(ix) =>
        ix = [byId |-> ix.byId, byFolder |-> ix.byFolder,
              byEntryName |-> ix.byEntryName, byFolderName |-> ix.byFolderName]
  BY DEF IsIndex
<1> QED BY <1>1, <1>2, <1>3, <1>6, <1>7

\* Opening again rebuilds exactly the maps and references that were in memory,
\* with no deletion lost in the file.
THEOREM ReopenCorrect == Spec => []ReopenRestores
<1> QED BY Invariance, ReopenHolds, PTL

=============================================================================
