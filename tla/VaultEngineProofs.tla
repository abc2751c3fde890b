-------------------------- MODULE VaultEngineProofs --------------------------
(* What VaultEngine guarantees for every set of ids, texts and pages and    *)
(* every number of slots: the two stores and the index describe the same    *)
(* objects, the queries answer from the data records, and the engine        *)
(* implements the abstract vault.                                           *)
EXTENDS VaultEngine, TLAPS

-----------------------------------------------------------------------------
(* The inductive invariant.                                                 *)

\* Every entry is in a folder that exists, or in none.
Housed(index) ==
  \A id \in DOMAIN index :
    LET o == index[id].object
    IN  /\ o.type = "folder" => o.folder = NoFolder
        /\ o.folder # NoFolder =>
             o.folder \in DOMAIN index /\ index[o.folder].object.type = "folder"

Good(pages, index) == IsFile(pages) /\ IsIndex(index) /\ Sound(pages, index) /\ Housed(index)

\* Two indexes agree on all objects but one.
AgreeBut(id, index, old) ==
  \A j \in Ids \ {id} : /\ j \in DOMAIN index <=> j \in DOMAIN old
                        /\ j \in DOMAIN index => index[j] = old[j]

OneChange(index, old) == \E id \in Ids : AgreeBut(id, index, old)

SameUses(pages, qgs) == \A p \in Pages : qgs[p].use = pages[p].use

\* From pages to qgs a record is written to slot "to", and the slots "was", which
\* held it before, are free unless it is one of them.
Wrote(pages, qgs, use, was, to, rec) ==
  /\ IsFile(qgs) /\ to \in Refs /\ qgs[to[1]].use = use
  /\ to \in was \/ At(pages, to) = Empty
  /\ \A r \in Refs :
       At(qgs, r) = IF r = to THEN rec ELSE IF r \in was THEN Empty ELSE At(pages, r)
  /\ \A r \in Refs \ was : At(pages, r) # Empty => qgs[r[1]].use = pages[r[1]].use

\* From pages to qgs the record in one slot is removed.
Erased(pages, qgs, ref) ==
  /\ IsFile(qgs)
  /\ \A r \in Refs : At(qgs, r) = IF r = ref THEN Empty ELSE At(pages, r)
  /\ \A r \in Refs \ {ref} : At(pages, r) # Empty => qgs[r[1]].use = pages[r[1]].use

\* With no page linked or unlinked only pages of one store have changed.
OnlyOf(use, pages, qgs) ==
  SameUses(pages, qgs) => \A p \in Pages : pages[p].use # use => qgs[p] = pages[p]

\* The slots an object has in the two stores.
DataOf(index, id) == IF id \in DOMAIN index THEN {index[id].ref} ELSE {}
IndexOf(index, id) == IF id \in DOMAIN index THEN {index[id].indexRef} ELSE {}

\* What the engine and its callers see to before an object is stored or dropped.
Fits(index, o) ==
  /\ o \in Objects
  /\ o.id \in DOMAIN index => index[o.id].object.type = o.type
  /\ o.type = "folder" => o.folder = NoFolder
  /\ o.folder # NoFolder => o.folder \in DOMAIN index /\ index[o.folder].object.type = "folder"

Unused(index, gone) ==
  gone \in DOMAIN index /\ \A id \in DOMAIN index : index[id].object.folder # gone

\* The data store has the change, the index store and the index do not.
HalfWay(index, old, pages, change) ==
  /\ change \in Changes
  /\ change.object = Absent =>
       Unused(index, change.id) /\ Erased(old, pages, index[change.id].ref)
  /\ change.object # Absent =>
       /\ Fits(index, change.object) /\ change.object.id = change.id
       /\ Wrote(old, pages, "data", DataOf(index, change.id), change.ref,
                DataRecord(change.object))

IInv ==
  /\ TypeOK
  /\ Consistent => Good(mem, byId) /\ pending = NoChange
  /\ phase = "ready" =>
       disk = mem /\ saved = [pages |-> mem, byId |-> byId] /\ relinked = FALSE
  /\ phase = "indexing" => byId = saved.byId /\ HalfWay(byId, saved.pages, mem, pending)
  /\ phase = "committing" => OneChange(byId, saved.byId)
  /\ Working =>
       /\ Good(saved.pages, saved.byId)
       /\ ~relinked => /\ SameUses(saved.pages, mem)
                       /\ \A p \in Pages : disk[p] \in {mem[p], saved.pages[p]}

-----------------------------------------------------------------------------
(* Pages and slots.                                                         *)

\* What a slot of a page of a store may hold.
Contents(use) == IF use = "data" THEN Objects \cup {Empty, Cut} ELSE IndexRecords \cup {Empty}

LEMMA SpecialValues ==
  /\ Empty # Cut /\ Empty \notin Objects /\ Cut \notin Objects /\ Empty \notin IndexRecords
  /\ Absent # Unreadable /\ Absent \notin Objects /\ Unreadable \notin Objects
BY RecordAssumption

LEMMA SlotFacts ==
  ASSUME NEW pages, IsFile(pages), NEW ref \in Refs
  PROVE  /\ ref[1] \in Pages /\ ref[2] \in Slots /\ ref = <<ref[1], ref[2]>>
         /\ pages[ref[1]].use \in {"data", "index", "free"}
         /\ pages[ref[1]].use \in {"data", "index"} => At(pages, ref) \in Contents(pages[ref[1]].use)
         /\ At(pages, ref) # Empty => pages[ref[1]].use \in {"data", "index"}
BY DEF Refs, IsFile, PageType, FreePage, NoRecords, At, Contents

LEMMA PageOfUse ==
  ASSUME NEW use \in {"data", "index"}, NEW recs \in [Slots -> Contents(use)]
  PROVE  [use |-> use, recs |-> recs] \in PageType
BY DEF PageType, Contents

LEMMA PageParts ==
  ASSUME NEW pages, IsFile(pages), NEW p \in Pages
  PROVE  /\ pages[p] = [use |-> pages[p].use, recs |-> pages[p].recs]
         /\ pages[p].use \in {"data", "index"} => pages[p].recs \in [Slots -> Contents(pages[p].use)]
         /\ pages[p].use \in {"data", "index"} \/ pages[p] = FreePage
         /\ p \in Roots => pages[p].use \in {"data", "index"}
BY DEF IsFile, PageType, Contents, FreePage, Roots, Pages

\* One slot of a store's page is overwritten.
LEMMA PutProps ==
  ASSUME NEW pages, IsFile(pages), NEW ref \in Refs,
         NEW use \in {"data", "index"}, pages[ref[1]].use = use, NEW rec \in Contents(use)
  PROVE  /\ IsFile(Put(pages, ref, rec))
         /\ \A r \in Refs : At(Put(pages, ref, rec), r) = IF r = ref THEN rec ELSE At(pages, r)
         /\ \A p \in Pages : Put(pages, ref, rec)[p].use = pages[p].use
<1> DEFINE qgs == Put(pages, ref, rec)
           page == [use |-> use, recs |-> [pages[ref[1]].recs EXCEPT ![ref[2]] = rec]]
<1>1. ref[1] \in Pages /\ ref[2] \in Slots /\ ref = <<ref[1], ref[2]>>
  BY SlotFacts
<1>2. /\ pages \in [Pages -> PageType]
      /\ pages[ref[1]] = [use |-> use, recs |-> pages[ref[1]].recs]
      /\ pages[ref[1]].recs \in [Slots -> Contents(use)]
  BY <1>1, PageParts DEF IsFile
<1>3. page \in PageType
  BY <1>1, <1>2, PageOfUse
<1>4. qgs = [pages EXCEPT ![ref[1]] = page]
  <2>1. ASSUME NEW was, was = [use |-> use, recs |-> was.recs]
        PROVE  [was EXCEPT !.recs[ref[2]] = rec]
                 = [use |-> use, recs |-> [was.recs EXCEPT ![ref[2]] = rec]]
    BY <2>1
  <2>2. [pages[ref[1]] EXCEPT !.recs[ref[2]] = rec] = page
    BY <1>2, <2>1
  <2>3. qgs = [pages EXCEPT ![ref[1]] = [pages[ref[1]] EXCEPT !.recs[ref[2]] = rec]]
    BY DEF Put
  <2> HIDE DEF page, qgs
  <2> QED BY <2>2, <2>3
<1>5. IsFile(qgs)
  BY <1>1, <1>2, <1>3, <1>4, EngineAssumption DEF IsFile, Pages, Roots
<1>6. \A p \in Pages : qgs[p].use = pages[p].use
  BY <1>1, <1>2, <1>4
<1>7. ASSUME NEW r \in Refs PROVE At(qgs, r) = IF r = ref THEN rec ELSE At(pages, r)
  <2>1. r[1] \in Pages /\ r[2] \in Slots /\ r = <<r[1], r[2]>>
    BY SlotFacts
  <2> QED BY <1>1, <1>2, <1>4, <2>1 DEF At
<1> QED BY <1>5, <1>6, <1>7

\* One page is replaced by one of the same store.
LEMMA PageReplaced ==
  ASSUME NEW pages, IsFile(pages), NEW p \in Pages, NEW page \in PageType,
         p \in Roots => page.use = pages[p].use
  PROVE  IsFile([pages EXCEPT ![p] = page])
<1>1. DataRoot \in Pages /\ IndexRoot \in Pages
  BY DEF Pages, Roots
<1>2. [pages EXCEPT ![p] = page] \in [Pages -> PageType]
  BY DEF IsFile
<1> QED BY <1>1, <1>2 DEF IsFile, Roots

\* A page becomes one of the store whose record it is about to get.
LEMMA LinkedProps ==
  ASSUME NEW pages, IsFile(pages), NEW ref \in Refs,
         NEW use \in {"data", "index"}, pages[ref[1]].use \in {use, "free"}
  PROVE  LET linked == [pages EXCEPT ![ref[1]].use = use]
         IN  /\ IsFile(linked)
             /\ \A r \in Refs : At(linked, r) = At(pages, r)
             /\ \A p \in Pages : linked[p].use = IF p = ref[1] THEN use ELSE pages[p].use
<1> DEFINE linked == [pages EXCEPT ![ref[1]].use = use]
           page == [use |-> use, recs |-> pages[ref[1]].recs]
<1>1. ref[1] \in Pages
  BY SlotFacts
<1>2. pages[ref[1]] = [use |-> pages[ref[1]].use, recs |-> pages[ref[1]].recs]
  BY <1>1, PageParts
<1>3. page \in PageType
  <2>1. CASE pages[ref[1]].use = use
    BY <2>1, <1>1, <1>2 DEF IsFile
  <2>2. CASE pages[ref[1]].use = "free"
    <3>1. pages[ref[1]] = FreePage
      BY <1>1, <2>2, PageParts
    <3>2. pages[ref[1]].recs \in [Slots -> Contents(use)]
      BY <3>1 DEF FreePage, NoRecords, Contents
    <3> QED BY <3>2, PageOfUse
  <2> QED BY <2>1, <2>2
<1>4. linked = [pages EXCEPT ![ref[1]] = page]
  <2>1. [pages[ref[1]] EXCEPT !.use = use] = page
    BY <1>2
  <2>2. linked = [pages EXCEPT ![ref[1]] = [pages[ref[1]] EXCEPT !.use = use]]
    OBVIOUS
  <2> HIDE DEF linked, page
  <2> QED BY <2>1, <2>2
<1>5. ref[1] \in Roots => pages[ref[1]].use = use
  BY <1>1, PageParts
<1>6. IsFile(linked)
  <2>1. page.use = use
    OBVIOUS
  <2> HIDE DEF linked, page
  <2> QED BY <1>1, <1>3, <1>4, <1>5, <2>1, PageReplaced
<1>7. /\ \A p \in Pages : linked[p] = IF p = ref[1] THEN page ELSE pages[p]
      /\ page.use = use /\ page.recs = pages[ref[1]].recs
  <2>1. pages \in [Pages -> PageType]
    BY DEF IsFile
  <2> QED BY <1>1, <1>4, <2>1
<1>8. \A r \in Refs : r[1] \in Pages
  BY SlotFacts
<1> HIDE DEF linked, page
<1>9. /\ \A r \in Refs : At(linked, r) = At(pages, r)
      /\ \A p \in Pages : linked[p].use = IF p = ref[1] THEN use ELSE pages[p].use
  BY <1>7, <1>8 DEF At
<1> QED BY <1>6, <1>9 DEF linked

\* What a change leaves alone: the store of every slot that keeps a record.
KeepsUses(pages, qgs) ==
  \A r \in Refs : At(pages, r) # Empty /\ At(qgs, r) # Empty => qgs[r[1]].use = pages[r[1]].use

\* A record is inserted into a free slot of its store.
LEMMA InsertedProps ==
  ASSUME NEW pages, IsFile(pages), NEW use \in {"data", "index"},
         NEW ref \in Places(pages, use), NEW rec \in Contents(use)
  PROVE  LET qgs == Inserted(pages, use, ref, rec)
         IN  /\ IsFile(qgs)
             /\ ref \in Refs /\ At(pages, ref) = Empty /\ qgs[ref[1]].use = use
             /\ \A r \in Refs : At(qgs, r) = IF r = ref THEN rec ELSE At(pages, r)
             /\ \A p \in Pages : pages[p].use # "free" => qgs[p].use = pages[p].use
             /\ \A p \in Pages : p # ref[1] => qgs[p].use = pages[p].use
<1> DEFINE linked == [pages EXCEPT ![ref[1]].use = use]
           qgs == Inserted(pages, use, ref, rec)
<1>1. ref \in Refs /\ pages[ref[1]].use \in {use, "free"}
  BY DEF Places
<1>2. ref[1] \in Pages /\ ref[2] \in Slots
  BY <1>1, SlotFacts
<1>3. At(pages, ref) = Empty
  <2>1. CASE pages[ref[1]].use = use
    BY <2>1 DEF Places
  <2>2. CASE pages[ref[1]].use = "free"
    BY <1>1, <2>2, SlotFacts
  <2> QED BY <1>1, <2>1, <2>2
<1>4. /\ IsFile(linked)
      /\ \A r \in Refs : At(linked, r) = At(pages, r)
      /\ \A p \in Pages : linked[p].use = IF p = ref[1] THEN use ELSE pages[p].use
  BY <1>1, LinkedProps
<1>5. qgs = Put(linked, ref, rec)
  BY DEF Inserted
<1> HIDE DEF linked, qgs
<1>6. /\ IsFile(qgs)
      /\ \A r \in Refs : At(qgs, r) = IF r = ref THEN rec ELSE At(linked, r)
      /\ \A p \in Pages : qgs[p].use = linked[p].use
  BY <1>1, <1>2, <1>4, <1>5, PutProps
<1>7. /\ IsFile(qgs) /\ ref \in Refs /\ At(pages, ref) = Empty /\ qgs[ref[1]].use = use
      /\ \A r \in Refs : At(qgs, r) = IF r = ref THEN rec ELSE At(pages, r)
      /\ \A p \in Pages : pages[p].use # "free" => qgs[p].use = pages[p].use
      /\ \A p \in Pages : p # ref[1] => qgs[p].use = pages[p].use
  BY <1>1, <1>2, <1>3, <1>4, <1>6
<1> QED BY <1>7 DEF qgs

\* A record is removed, and perhaps its page released.
LEMMA RemovedProps ==
  ASSUME NEW pages, IsFile(pages), NEW ref \in Refs, pages[ref[1]].use \in {"data", "index"}
  PROVE  LET qgs == Removed(pages, ref)
         IN  /\ IsFile(qgs)
             /\ \A r \in Refs : At(qgs, r) = IF r = ref THEN Empty ELSE At(pages, r)
             /\ \A p \in Pages : qgs[p].use \in {pages[p].use, "free"}
<1> DEFINE put == Put(pages, ref, Empty)
           qgs == Removed(pages, ref)
<1>1. ref[1] \in Pages /\ ref[2] \in Slots
  BY SlotFacts
<1>2. /\ IsFile(put)
      /\ \A r \in Refs : At(put, r) = IF r = ref THEN Empty ELSE At(pages, r)
      /\ \A p \in Pages : put[p].use = pages[p].use
  <2>1. Empty \in Contents(pages[ref[1]].use)
    BY DEF Contents
  <2> HIDE DEF put
  <2> QED BY <2>1, PutProps DEF put
<1>3. qgs = IF put[ref[1]].recs = NoRecords /\ ref[1] \notin Roots
            THEN [pages EXCEPT ![ref[1]] = FreePage] ELSE put
  BY DEF Removed, Releases, Empties
<1> HIDE DEF put, qgs
<1>4. CASE put[ref[1]].recs = NoRecords /\ ref[1] \notin Roots
  <2>1. qgs = [pages EXCEPT ![ref[1]] = FreePage]
    BY <1>3, <1>4
  <2>2. FreePage \in PageType
    BY DEF PageType
  <2>3. IsFile(qgs)
    BY <1>1, <1>2, <1>4, <2>1, <2>2, PageReplaced
  <2>4. \A p \in Pages : qgs[p] = IF p = ref[1] THEN FreePage ELSE pages[p]
    BY <1>1, <2>1 DEF IsFile
  <2>5. FreePage.use = "free" /\ FreePage.recs = put[ref[1]].recs
    BY <1>4 DEF FreePage
  <2>6. \A r \in Refs : At(qgs, r) = At(put, r)
    <3>1. \A r \in Refs : r[1] \in Pages
      BY SlotFacts
    <3>2. ASSUME NEW r \in Refs, r[1] # ref[1] PROVE At(qgs, r) = At(put, r)
      BY <1>2, <2>4, <3>1, <3>2 DEF At
    <3>3. ASSUME NEW r \in Refs, r[1] = ref[1] PROVE At(qgs, r) = At(put, r)
      BY <1>1, <2>4, <2>5, <3>3 DEF At
    <3> QED BY <3>2, <3>3
  <2>7. \A p \in Pages : qgs[p].use \in {pages[p].use, "free"}
    BY <1>2, <2>4, <2>5
  <2> QED BY <1>2, <2>3, <2>6, <2>7 DEF qgs
<1>5. CASE ~(put[ref[1]].recs = NoRecords /\ ref[1] \notin Roots)
  BY <1>2, <1>3, <1>5 DEF qgs
<1> QED BY <1>4, <1>5

\* Removing keeps the stores of the other records.
LEMMA RemoveKeepsUses ==
  ASSUME NEW pages, IsFile(pages), NEW ref \in Refs, pages[ref[1]].use \in {"data", "index"}
  PROVE  KeepsUses(pages, Removed(pages, ref))
<1> DEFINE qgs == Removed(pages, ref)
<1>1. IsFile(qgs) /\ \A p \in Pages : qgs[p].use \in {pages[p].use, "free"}
  BY RemovedProps
<1> HIDE DEF qgs
<1>2. \A r \in Refs : r[1] \in Pages /\ (At(qgs, r) # Empty => qgs[r[1]].use # "free")
  BY <1>1, SlotFacts
<1>3. KeepsUses(pages, qgs)
  BY <1>1, <1>2 DEF KeepsUses
<1> QED BY <1>3 DEF qgs

-----------------------------------------------------------------------------
(* What the operations of a manager do to the pages.                        *)

\* A record is inserted.
LEMMA InsertionsProps ==
  ASSUME NEW pages, IsFile(pages), NEW use \in {"data", "index"},
         NEW rec \in Contents(use), NEW u \in Insertions(pages, use, rec)
  PROVE  /\ Wrote(pages, u.pages, use, {}, u.ref, rec)
         /\ u.relinked \in BOOLEAN /\ (~u.relinked => SameUses(pages, u.pages))
         /\ u = [pages |-> u.pages, ref |-> u.ref, relinked |-> u.relinked]
<1>1. PICK to \in Places(pages, use) :
        u = [pages |-> Inserted(pages, use, to, rec), ref |-> to,
             relinked |-> pages[to[1]].use = "free"]
  BY DEF Insertions
<1> DEFINE more == Inserted(pages, use, to, rec)
<1>2. u.pages = more /\ u.ref = to /\ u.relinked = (pages[to[1]].use = "free")
  BY <1>1
<1>3. u = [pages |-> u.pages, ref |-> u.ref, relinked |-> u.relinked]
  BY <1>1
<1>4. /\ IsFile(more) /\ to \in Refs /\ At(pages, to) = Empty /\ more[to[1]].use = use
      /\ \A r \in Refs : At(more, r) = IF r = to THEN rec ELSE At(pages, r)
      /\ \A p \in Pages : pages[p].use # "free" => more[p].use = pages[p].use
      /\ \A p \in Pages : p # to[1] => more[p].use = pages[p].use
  BY InsertedProps
<1> HIDE DEF more
<1>5. \A r \in Refs : At(pages, r) # Empty => r[1] \in Pages /\ pages[r[1]].use # "free"
  BY SlotFacts
<1>6. pages[to[1]].use # "free" => SameUses(pages, more)
  BY <1>4 DEF SameUses
<1>7. Wrote(pages, more, use, {}, to, rec)
  BY <1>4, <1>5 DEF Wrote
<1> QED BY <1>2, <1>3, <1>6, <1>7

\* A record is removed.
LEMMA RemovalProps ==
  ASSUME NEW pages, IsFile(pages), NEW ref \in Refs, pages[ref[1]].use \in {"data", "index"}
  PROVE  LET u == Removal(pages, ref)
         IN  /\ Erased(pages, u.pages, ref) /\ u.ref = ref
             /\ u.relinked \in BOOLEAN /\ (~u.relinked => SameUses(pages, u.pages))
<1>1. Erased(pages, Removed(pages, ref), ref)
  <2> DEFINE qgs == Removed(pages, ref)
  <2>1. /\ IsFile(qgs)
        /\ \A r \in Refs : At(qgs, r) = IF r = ref THEN Empty ELSE At(pages, r)
        /\ KeepsUses(pages, qgs)
    BY RemovedProps, RemoveKeepsUses
  <2> HIDE DEF qgs
  <2> QED BY <2>1 DEF Erased, KeepsUses, qgs
<1>2. ~Releases(pages, ref) => SameUses(pages, Removed(pages, ref))
  <2>1. Empty \in Contents(pages[ref[1]].use)
    BY DEF Contents
  <2>2. ~Releases(pages, ref) => Removed(pages, ref) = Put(pages, ref, Empty)
    BY DEF Removed
  <2> QED BY <2>1, <2>2, PutProps DEF SameUses
<1> QED BY <1>1, <1>2 DEF Removal, Releases

\* A record is updated: it stays, or moves to a slot that was free.
LEMMA UpdatesProps ==
  ASSUME NEW pages, IsFile(pages), NEW use \in {"data", "index"}, NEW ref \in Refs,
         pages[ref[1]].use = use, NEW rec \in Contents(use),
         NEW u \in Updates(pages, use, ref, rec)
  PROVE  /\ Wrote(pages, u.pages, use, {ref}, u.ref, rec)
         /\ u.relinked \in BOOLEAN /\ (~u.relinked => SameUses(pages, u.pages))
         /\ u = [pages |-> u.pages, ref |-> u.ref, relinked |-> u.relinked]
<1>1. ref[1] \in Pages /\ \A r \in Refs : r[1] \in Pages
  BY SlotFacts
<1>2. CASE u = [pages |-> Put(pages, ref, rec), ref |-> ref, relinked |-> FALSE]
  <2>1. u.pages = Put(pages, ref, rec) /\ u.ref = ref /\ u.relinked = FALSE
    BY <1>2
  <2>2. /\ IsFile(u.pages)
        /\ \A r \in Refs : At(u.pages, r) = IF r = ref THEN rec ELSE At(pages, r)
        /\ \A p \in Pages : u.pages[p].use = pages[p].use
    BY <2>1, PutProps
  <2> QED BY <1>1, <1>2, <2>1, <2>2 DEF Wrote, SameUses
<1>3. ASSUME NEW i \in Insertions(Removed(pages, ref), use, rec),
             u = [i EXCEPT !.relinked = @ \/ Releases(pages, ref)]
      PROVE  /\ Wrote(pages, u.pages, use, {ref}, u.ref, rec)
             /\ u.relinked \in BOOLEAN /\ (~u.relinked => SameUses(pages, u.pages))
             /\ u = [pages |-> u.pages, ref |-> u.ref, relinked |-> u.relinked]
  <2> DEFINE less == Removed(pages, ref)
  <2>1. /\ Erased(pages, less, ref)
        /\ ~Releases(pages, ref) => SameUses(pages, less)
    BY RemovalProps DEF Removal
  <2>2. i \in Insertions(less, use, rec)
    OBVIOUS
  <2> HIDE DEF less
  <2>3. /\ Wrote(less, i.pages, use, {}, i.ref, rec)
        /\ i.relinked \in BOOLEAN /\ (~i.relinked => SameUses(less, i.pages))
        /\ i = [pages |-> i.pages, ref |-> i.ref, relinked |-> i.relinked]
    BY <2>1, <2>2, InsertionsProps DEF Erased
  <2>4. /\ u.pages = i.pages /\ u.ref = i.ref /\ u.relinked = (i.relinked \/ Releases(pages, ref))
        /\ u = [pages |-> u.pages, ref |-> u.ref, relinked |-> u.relinked]
    <3>1. ASSUME NEW was, was = [pages |-> was.pages, ref |-> was.ref, relinked |-> was.relinked],
                 NEW flag
          PROVE  [was EXCEPT !.relinked = flag]
                   = [pages |-> was.pages, ref |-> was.ref, relinked |-> flag]
      BY <3>1
    <3>2. u = [pages |-> i.pages, ref |-> i.ref, relinked |-> (i.relinked \/ Releases(pages, ref))]
      BY <1>3, <2>3, <3>1
    <3> QED BY <3>2
  <2>5. u.relinked \in BOOLEAN /\ (~u.relinked => SameUses(pages, u.pages))
    <3>1. Releases(pages, ref) \in BOOLEAN
      BY DEF Releases
    <3> QED BY <2>1, <2>3, <2>4, <3>1 DEF SameUses
  <2>6. \A r \in Refs \ {ref} : At(pages, r) # Empty => u.pages[r[1]].use = pages[r[1]].use
    BY <2>1, <2>3, <2>4 DEF Wrote, Erased
  <2>7. Wrote(pages, u.pages, use, {ref}, u.ref, rec)
    BY <2>1, <2>3, <2>4, <2>6 DEF Wrote, Erased
  <2> QED BY <2>4, <2>5, <2>7
<1> QED BY <1>2, <1>3 DEF Updates

\* What is written to the slots of one store leaves the pages of the other alone.
LEMMA SamePages ==
  ASSUME NEW pages, IsFile(pages), NEW qgs, IsFile(qgs), NEW use, NEW refs,
         \A r \in Refs \ refs : At(qgs, r) = At(pages, r),
         \A r \in refs : qgs[r[1]].use = use \/ pages[r[1]].use = use
  PROVE  OnlyOf(use, pages, qgs)
<1> SUFFICES ASSUME SameUses(pages, qgs), NEW p \in Pages, pages[p].use # use
             PROVE  qgs[p] = pages[p]
  BY DEF OnlyOf
<1>1. qgs[p].use = pages[p].use
  BY DEF SameUses
<1>2. ASSUME NEW s \in Slots PROVE qgs[p].recs[s] = pages[p].recs[s]
  <2> DEFINE r == <<p, s>>
  <2>1. r \in Refs /\ r[1] = p /\ r[2] = s
    BY DEF Refs
  <2> HIDE DEF r
  <2>2. r \notin refs
    BY <1>1, <2>1
  <2> QED BY <2>1, <2>2 DEF At
<1>3. CASE pages[p].use \in {"data", "index"}
  <2>1. /\ pages[p].recs \in [Slots -> Contents(pages[p].use)]
        /\ qgs[p].recs \in [Slots -> Contents(pages[p].use)]
    BY <1>1, <1>3, PageParts
  <2>2. \A f, g : f \in [Slots -> Contents(pages[p].use)] /\ g \in [Slots -> Contents(pages[p].use)]
                  /\ (\A s \in Slots : f[s] = g[s]) => f = g
    OBVIOUS
  <2>3. qgs[p].recs = pages[p].recs
    BY ONLY <1>2, <2>1, <2>2
  <2>4. /\ pages[p] = [use |-> pages[p].use, recs |-> pages[p].recs]
        /\ qgs[p] = [use |-> qgs[p].use, recs |-> qgs[p].recs]
    BY PageParts
  <2> QED BY <1>1, <2>3, <2>4
<1>4. CASE pages[p].use \notin {"data", "index"}
  BY <1>1, <1>4, PageParts
<1> QED BY <1>3, <1>4

LEMMA WroteOnly ==
  ASSUME NEW pages, IsFile(pages), NEW qgs, NEW use, NEW was \in SUBSET Refs, NEW to, NEW rec,
         Wrote(pages, qgs, use, was, to, rec), \A r \in was : pages[r[1]].use = use
  PROVE  OnlyOf(use, pages, qgs)
<1> DEFINE refs == was \cup {to}
<1>1. \A r \in Refs \ refs : At(qgs, r) = At(pages, r)
  BY DEF Wrote
<1>2. \A r \in refs : qgs[r[1]].use = use \/ pages[r[1]].use = use
  BY DEF Wrote
<1>3. IsFile(qgs)
  BY DEF Wrote
<1> HIDE DEF refs
<1> QED BY <1>1, <1>2, <1>3, SamePages

LEMMA ErasedOnly ==
  ASSUME NEW pages, IsFile(pages), NEW qgs, NEW use, NEW ref \in Refs,
         Erased(pages, qgs, ref), pages[ref[1]].use = use
  PROVE  OnlyOf(use, pages, qgs)
<1> DEFINE refs == {ref}
<1>1. \A r \in Refs \ refs : At(qgs, r) = At(pages, r)
  BY DEF Erased
<1>2. IsFile(qgs)
  BY DEF Erased
<1>3. \A r \in refs : qgs[r[1]].use = use \/ pages[r[1]].use = use
  OBVIOUS
<1> HIDE DEF refs
<1> QED BY <1>1, <1>2, <1>3, SamePages

-----------------------------------------------------------------------------
(* A sound file and its index.                                              *)

\* The slots of an object.
Own(index, id) == IF id \in DOMAIN index THEN {index[id].ref, index[id].indexRef} ELSE {}

LEMMA RecordFacts ==
  ASSUME NEW o \in Objects, NEW ref \in Refs
  PROVE  /\ DataRecord(o) \in Contents("data") /\ DataRecord(o) # Empty
         /\ IndexRecord(o, ref) \in Contents("index") /\ IndexRecord(o, ref) # Empty
         /\ IndexRecord(o, ref).object = o /\ IndexRecord(o, ref).ref = ref
         /\ o.id \in Ids
BY SpecialValues DEF DataRecord, IndexRecord, IndexRecords, Contents, Objects

LEMMA IndexFacts ==
  ASSUME NEW index, IsIndex(index), NEW id \in DOMAIN index
  PROVE  /\ id \in Ids /\ index[id].object \in Objects
         /\ index[id].ref \in Refs /\ index[id].indexRef \in Refs
         /\ index[id] = [object |-> index[id].object, ref |-> index[id].ref,
                         indexRef |-> index[id].indexRef]
BY DEF IsIndex

\* The slots of two objects are different, and hold something.
LEMMA OwnFacts ==
  ASSUME NEW pages, NEW index, IsFile(pages), IsIndex(index), Sound(pages, index)
  PROVE  /\ \A id \in DOMAIN index :
              /\ index[id].ref # index[id].indexRef
              /\ \A r \in Own(index, id) : r \in Refs /\ At(pages, r) # Empty
         /\ \A i, j \in DOMAIN index : i # j => Own(index, i) \cap Own(index, j) = {}
         /\ \A r \in Refs : At(pages, r) # Empty => \E id \in DOMAIN index : r \in Own(index, id)
<1>1. \A id \in DOMAIN index :
        /\ index[id].object \in Objects /\ index[id].object.id = id
        /\ index[id].ref \in Refs /\ index[id].indexRef \in Refs
        /\ At(pages, index[id].ref) = DataRecord(index[id].object)
        /\ pages[index[id].ref[1]].use = "data"
        /\ At(pages, index[id].indexRef) = IndexRecord(index[id].object, index[id].ref)
        /\ pages[index[id].indexRef[1]].use = "index"
  BY IndexFacts DEF Sound
<1>2. \A id \in DOMAIN index :
        /\ At(pages, index[id].ref) # Empty /\ At(pages, index[id].indexRef) # Empty
        /\ At(pages, index[id].indexRef).object = index[id].object
  BY <1>1, RecordFacts
<1>3. \A i, j \in DOMAIN index : index[i].ref # index[j].indexRef
  BY <1>1
<1>4. \A i, j \in DOMAIN index : i # j => index[i].ref # index[j].ref
  BY DEF Sound
<1>5. \A i, j \in DOMAIN index : i # j => index[i].indexRef # index[j].indexRef
  BY <1>1, <1>2
<1>6. \A i, j \in DOMAIN index : i # j => Own(index, i) \cap Own(index, j) = {}
  BY <1>3, <1>4, <1>5 DEF Own
<1>7. \A r \in Refs : At(pages, r) # Empty => \E id \in DOMAIN index : r \in Own(index, id)
  BY DEF Sound, Own
<1>8. \A id \in DOMAIN index : \A r \in Own(index, id) : r \in Refs /\ At(pages, r) # Empty
  BY <1>1, <1>2 DEF Own
<1> QED BY <1>3, <1>6, <1>7, <1>8

\* One object gets new slots, and those it had are free.
LEMMA SoundWith ==
  ASSUME NEW pages, NEW index, IsFile(pages), IsIndex(index), Sound(pages, index),
         NEW o \in Objects, NEW ref \in Refs, NEW indexRef \in Refs, NEW qgs, NEW after,
         after = [id \in DOMAIN index \cup {o.id} |->
                    IF id = o.id THEN [object |-> o, ref |-> ref, indexRef |-> indexRef]
                                 ELSE index[id]],
         qgs[ref[1]].use = "data", At(qgs, ref) = DataRecord(o),
         qgs[indexRef[1]].use = "index", At(qgs, indexRef) = IndexRecord(o, ref),
         \A r \in Refs : r \notin Own(index, o.id) /\ At(pages, r) # Empty =>
           r \notin {ref, indexRef} /\ At(qgs, r) = At(pages, r) /\ qgs[r[1]].use = pages[r[1]].use,
         \A r \in Refs \ {ref, indexRef} :
           At(qgs, r) # Empty => r \notin Own(index, o.id) /\ At(pages, r) # Empty
  PROVE  IsIndex(after) /\ Sound(qgs, after)
<1>1. o.id \in Ids
  BY RecordFacts
<1>2. /\ DOMAIN after = DOMAIN index \cup {o.id}
      /\ after[o.id] = [object |-> o, ref |-> ref, indexRef |-> indexRef]
      /\ \A id \in DOMAIN index \ {o.id} : after[id] = index[id]
  OBVIOUS
<1>3. IsIndex(after)
  BY <1>1 DEF IsIndex
<1>4. ASSUME NEW id \in DOMAIN index \ {o.id}
      PROVE  /\ after[id].object.id = id
             /\ qgs[after[id].ref[1]].use = "data"
             /\ At(qgs, after[id].ref) = DataRecord(after[id].object)
             /\ qgs[after[id].indexRef[1]].use = "index"
             /\ At(qgs, after[id].indexRef) = IndexRecord(after[id].object, after[id].ref)
             /\ after[id].ref # ref
  <2>1. index[id].ref \in Own(index, id) /\ index[id].indexRef \in Own(index, id)
    BY DEF Own
  <2>2. index[id].ref \notin Own(index, o.id) /\ index[id].indexRef \notin Own(index, o.id)
    <3>1. CASE o.id \in DOMAIN index
      BY <2>1, <3>1, OwnFacts
    <3>2. CASE o.id \notin DOMAIN index
      BY <3>2 DEF Own
    <3> QED BY <3>1, <3>2
  <2>3. /\ index[id].ref \in Refs /\ At(pages, index[id].ref) # Empty
        /\ index[id].indexRef \in Refs /\ At(pages, index[id].indexRef) # Empty
    BY <2>1, OwnFacts
  <2>4. /\ index[id].object.id = id
        /\ pages[index[id].ref[1]].use = "data"
        /\ At(pages, index[id].ref) = DataRecord(index[id].object)
        /\ pages[index[id].indexRef[1]].use = "index"
        /\ At(pages, index[id].indexRef) = IndexRecord(index[id].object, index[id].ref)
    BY DEF Sound
  <2> QED BY <1>2, <2>2, <2>3, <2>4
<1>5. ASSUME NEW r \in Refs, At(qgs, r) # Empty
      PROVE  \E id \in DOMAIN after : r \in {after[id].ref, after[id].indexRef}
  <2>1. CASE r \in {ref, indexRef}
    BY <1>2, <2>1
  <2>2. CASE r \notin {ref, indexRef}
    <3>1. r \notin Own(index, o.id) /\ At(pages, r) # Empty
      BY <1>5, <2>2
    <3>2. PICK id \in DOMAIN index : r \in Own(index, id)
      BY <3>1, OwnFacts
    <3>3. id # o.id /\ r \in {index[id].ref, index[id].indexRef}
      BY <3>1, <3>2 DEF Own
    <3> QED BY <1>2, <3>3
  <2> QED BY <2>1, <2>2
<1>6. ASSUME NEW i \in DOMAIN after, NEW j \in DOMAIN after, i # j
      PROVE  after[i].ref # after[j].ref
  <2>1. CASE i = o.id \/ j = o.id
    BY <1>2, <1>4, <1>6, <2>1
  <2>2. CASE i # o.id /\ j # o.id
    BY <1>2, <1>6, <2>2 DEF Sound
  <2> QED BY <2>1, <2>2
<1>7. /\ after[o.id].object.id = o.id
      /\ qgs[after[o.id].ref[1]].use = "data"
      /\ At(qgs, after[o.id].ref) = DataRecord(after[o.id].object)
      /\ qgs[after[o.id].indexRef[1]].use = "index"
      /\ At(qgs, after[o.id].indexRef) = IndexRecord(after[o.id].object, after[o.id].ref)
  BY <1>2
<1>8. ASSUME NEW id \in DOMAIN after
      PROVE  /\ after[id].object.id = id
             /\ qgs[after[id].ref[1]].use = "data"
             /\ At(qgs, after[id].ref) = DataRecord(after[id].object)
             /\ qgs[after[id].indexRef[1]].use = "index"
             /\ At(qgs, after[id].indexRef) = IndexRecord(after[id].object, after[id].ref)
  BY <1>2, <1>4, <1>7
<1>9. Sound(qgs, after)
  BY ONLY <1>5, <1>6, <1>8 DEF Sound
<1> QED BY <1>3, <1>9

\* One object goes with its slots.
LEMMA SoundWithout ==
  ASSUME NEW pages, NEW index, IsFile(pages), IsIndex(index), Sound(pages, index),
         NEW gone \in DOMAIN index, NEW qgs, NEW after,
         after = [id \in DOMAIN index \ {gone} |-> index[id]],
         \A r \in Refs : At(qgs, r) = IF r \in Own(index, gone) THEN Empty ELSE At(pages, r),
         KeepsUses(pages, qgs)
  PROVE  IsIndex(after) /\ Sound(qgs, after)
<1>1. DOMAIN after = DOMAIN index \ {gone} /\ \A id \in DOMAIN after : after[id] = index[id]
  OBVIOUS
<1>2. IsIndex(after)
  BY DEF IsIndex
<1>3. ASSUME NEW id \in DOMAIN after
      PROVE  /\ after[id].object.id = id
             /\ qgs[after[id].ref[1]].use = "data"
             /\ At(qgs, after[id].ref) = DataRecord(after[id].object)
             /\ qgs[after[id].indexRef[1]].use = "index"
             /\ At(qgs, after[id].indexRef) = IndexRecord(after[id].object, after[id].ref)
  <2>1. index[id].ref \in Own(index, id) /\ index[id].indexRef \in Own(index, id)
    BY <1>1 DEF Own
  <2>2. index[id].ref \notin Own(index, gone) /\ index[id].indexRef \notin Own(index, gone)
    BY <1>1, <2>1, OwnFacts
  <2>3. /\ index[id].ref \in Refs /\ At(pages, index[id].ref) # Empty
        /\ index[id].indexRef \in Refs /\ At(pages, index[id].indexRef) # Empty
    BY <1>1, <2>1, OwnFacts
  <2>4. /\ At(qgs, index[id].ref) = At(pages, index[id].ref)
        /\ At(qgs, index[id].indexRef) = At(pages, index[id].indexRef)
        /\ qgs[index[id].ref[1]].use = pages[index[id].ref[1]].use
        /\ qgs[index[id].indexRef[1]].use = pages[index[id].indexRef[1]].use
    BY <2>2, <2>3 DEF KeepsUses
  <2>5. /\ index[id].object.id = id
        /\ pages[index[id].ref[1]].use = "data"
        /\ At(pages, index[id].ref) = DataRecord(index[id].object)
        /\ pages[index[id].indexRef[1]].use = "index"
        /\ At(pages, index[id].indexRef) = IndexRecord(index[id].object, index[id].ref)
    BY <1>1 DEF Sound
  <2> QED BY <1>1, <2>4, <2>5
<1>4. ASSUME NEW r \in Refs, At(qgs, r) # Empty
      PROVE  \E id \in DOMAIN after : r \in {after[id].ref, after[id].indexRef}
  <2>1. r \notin Own(index, gone) /\ At(pages, r) # Empty
    BY <1>4
  <2>2. PICK id \in DOMAIN index : r \in Own(index, id)
    BY <2>1, OwnFacts
  <2>3. id # gone /\ r \in {index[id].ref, index[id].indexRef}
    BY <2>1, <2>2 DEF Own
  <2> QED BY <1>1, <2>3
<1>5. \A i, j \in DOMAIN after : i # j => after[i].ref # after[j].ref
  BY <1>1 DEF Sound
<1> QED BY <1>2, <1>3, <1>4, <1>5 DEF Sound

-----------------------------------------------------------------------------
(* Storing and dropping an object keep the file sound.                      *)

\* A record of an object in both stores, where its old ones, if any, were.
LEMMA StoredSound ==
  ASSUME NEW pages, NEW index, IsFile(pages), IsIndex(index), Sound(pages, index),
         NEW o \in Objects, NEW half, NEW ref, NEW qgs, NEW indexRef, NEW after,
         Wrote(pages, half, "data", DataOf(index, o.id), ref, DataRecord(o)),
         Wrote(half, qgs, "index", IndexOf(index, o.id), indexRef, IndexRecord(o, ref)),
         after = [id \in DOMAIN index \cup {o.id} |->
                    IF id = o.id THEN [object |-> o, ref |-> ref, indexRef |-> indexRef]
                                 ELSE index[id]]
  PROVE  IsIndex(after) /\ Sound(qgs, after)
<1> DEFINE d == DataOf(index, o.id)
           x == IndexOf(index, o.id)
<1>1. /\ ref \in Refs /\ half[ref[1]].use = "data" /\ (ref \in d \/ At(pages, ref) = Empty)
      /\ \A r \in Refs : At(half, r) = IF r = ref THEN DataRecord(o)
                                        ELSE IF r \in d THEN Empty ELSE At(pages, r)
      /\ \A r \in Refs \ d : At(pages, r) # Empty => half[r[1]].use = pages[r[1]].use
  BY DEF Wrote
<1>2. /\ indexRef \in Refs /\ qgs[indexRef[1]].use = "index"
      /\ indexRef \in x \/ At(half, indexRef) = Empty
      /\ \A r \in Refs : At(qgs, r) = IF r = indexRef THEN IndexRecord(o, ref)
                                       ELSE IF r \in x THEN Empty ELSE At(half, r)
      /\ \A r \in Refs \ x : At(half, r) # Empty => qgs[r[1]].use = half[r[1]].use
  BY DEF Wrote
<1>3. /\ Own(index, o.id) = d \cup x /\ d \cap x = {}
      /\ \A r \in d \cup x : r \in Refs /\ At(pages, r) # Empty
  <2>1. Own(index, o.id) = d \cup x
    BY DEF Own, DataOf, IndexOf
  <2>2. d \cap x = {}
    BY OwnFacts DEF DataOf, IndexOf
  <2>3. o.id \in DOMAIN index => \A r \in Own(index, o.id) : r \in Refs /\ At(pages, r) # Empty
    BY OwnFacts
  <2> QED BY <2>1, <2>2, <2>3 DEF Own
<1> HIDE DEF d, x
<1>4. DataRecord(o) # Empty /\ IndexRecord(o, ref) # Empty
  BY <1>1, RecordFacts
<1>5. ref \notin x /\ indexRef # ref
  BY <1>1, <1>2, <1>3, <1>4
<1>6. At(qgs, ref) = DataRecord(o) /\ qgs[ref[1]].use = "data" /\ At(qgs, indexRef) = IndexRecord(o, ref)
  BY <1>1, <1>2, <1>4, <1>5
<1>7. ASSUME NEW r \in Refs, r \notin Own(index, o.id), At(pages, r) # Empty
      PROVE  /\ r \notin {ref, indexRef} /\ At(qgs, r) = At(pages, r)
             /\ qgs[r[1]].use = pages[r[1]].use
  <2>1. r \notin d /\ r \notin x /\ r # ref
    BY <1>1, <1>3, <1>7
  <2>2. At(half, r) = At(pages, r) /\ half[r[1]].use = pages[r[1]].use
    BY <1>1, <1>7, <2>1
  <2>3. r # indexRef
    BY <1>2, <1>7, <2>1, <2>2
  <2> QED BY <1>2, <1>7, <2>1, <2>2, <2>3
<1>8. ASSUME NEW r \in Refs \ {ref, indexRef}, At(qgs, r) # Empty
      PROVE  r \notin Own(index, o.id) /\ At(pages, r) # Empty
  BY <1>1, <1>2, <1>3, <1>8
<1>9. \A r \in Refs : r \notin Own(index, o.id) /\ At(pages, r) # Empty =>
        r \notin {ref, indexRef} /\ At(qgs, r) = At(pages, r) /\ qgs[r[1]].use = pages[r[1]].use
  BY ONLY <1>7
<1>10. \A r \in Refs \ {ref, indexRef} :
         At(qgs, r) # Empty => r \notin Own(index, o.id) /\ At(pages, r) # Empty
  BY ONLY <1>8
<1>11. qgs[indexRef[1]].use = "index" /\ ref \in Refs /\ indexRef \in Refs
  BY ONLY <1>1, <1>2
<1> QED BY ONLY IsFile(pages), IsIndex(index), Sound(pages, index), o \in Objects,
              after = [id \in DOMAIN index \cup {o.id} |->
                         IF id = o.id THEN [object |-> o, ref |-> ref, indexRef |-> indexRef]
                                      ELSE index[id]],
              <1>6, <1>9, <1>10, <1>11, SoundWith

\* An object is gone from both stores.
LEMMA DroppedSound ==
  ASSUME NEW pages, NEW index, IsFile(pages), IsIndex(index), Sound(pages, index),
         NEW gone \in DOMAIN index, NEW half, NEW qgs, NEW after,
         Erased(pages, half, index[gone].ref), Erased(half, qgs, index[gone].indexRef),
         after = [id \in DOMAIN index \ {gone} |-> index[id]]
  PROVE  IsIndex(after) /\ Sound(qgs, after)
<1> DEFINE ref == index[gone].ref
           indexRef == index[gone].indexRef
<1>1. Own(index, gone) = {ref, indexRef}
  BY DEF Own
<1>2. /\ \A r \in Refs : At(half, r) = IF r = ref THEN Empty ELSE At(pages, r)
      /\ \A r \in Refs : At(qgs, r) = IF r = indexRef THEN Empty ELSE At(half, r)
      /\ \A r \in Refs \ {ref} : At(pages, r) # Empty => half[r[1]].use = pages[r[1]].use
      /\ \A r \in Refs \ {indexRef} : At(half, r) # Empty => qgs[r[1]].use = half[r[1]].use
  BY DEF Erased
<1> HIDE DEF ref, indexRef
<1>3. \A r \in Refs : At(qgs, r) = IF r \in Own(index, gone) THEN Empty ELSE At(pages, r)
  BY <1>1, <1>2
<1>4. KeepsUses(pages, qgs)
  BY <1>2 DEF KeepsUses
<1> QED BY <1>3, <1>4, SoundWithout

\* The index after an operation: one object changed, or gone.
NowHolds(o) ==
  /\ DOMAIN byId' = DOMAIN byId \cup {o.id}
  /\ byId'[o.id].object = o
  /\ \A id \in DOMAIN byId \ {o.id} : byId'[id] = byId[id]

NowLacks(gone) ==
  /\ DOMAIN byId' = DOMAIN byId \ {gone}
  /\ \A id \in DOMAIN byId' : byId'[id] = byId[id]

LEMMA IndexedFacts ==
  ASSUME NEW o, NEW ref, NEW indexRef, byId' = Indexed(o, ref, indexRef)
  PROVE  /\ NowHolds(o)
         /\ byId' = [id \in DOMAIN byId \cup {o.id} |->
                       IF id = o.id THEN [object |-> o, ref |-> ref, indexRef |-> indexRef]
                                    ELSE byId[id]]
BY DEF Indexed, NowHolds

SoundNow == IsFile(mem) /\ IsIndex(byId) /\ Sound(mem, byId)

Storing ==
  /\ Ready
  /\ \E o \in Objects :
       /\ Fits(byId, o)
       /\ \/ o.id \notin DOMAIN byId /\ StoreNew(o)
          \/ o.id \in DOMAIN byId /\ StoreAgain(o)

Dropping == Ready /\ \E gone \in DOMAIN byId : Unused(byId, gone) /\ Drop(gone)

\* What a half of an operation leaves alone and records.
HalfDone(next) ==
  /\ phase' \in {"lost", next} /\ UNCHANGED <<disk, saved>>
  /\ relinked' \in BOOLEAN /\ (~relinked' => ~relinked /\ SameUses(mem, mem'))

LEMMA HalfFacts ==
  ASSUME relinked \in BOOLEAN, NEW step, NEW next, Half(step, next), step.relinked \in BOOLEAN,
         ~step.relinked => SameUses(mem, step.pages)
  PROVE  HalfDone(next) /\ mem' = step.pages
BY DEF Half, HalfDone

\* The first half of an operation, which is on the data store.
LEMMA StoringHalf ==
  ASSUME SoundNow, relinked \in BOOLEAN, Storing
  PROVE  /\ HalfWay(byId, mem, mem', pending') /\ byId' = byId
         /\ HalfDone("indexing") /\ pending'.object # Absent
<1>1. PICK o \in Objects : /\ Fits(byId, o)
                           /\ \/ o.id \notin DOMAIN byId /\ StoreNew(o)
                              \/ o.id \in DOMAIN byId /\ StoreAgain(o)
  BY DEF Storing
<1>2. PICK step :
        /\ DataHalf(o.id, o, step)
        /\ Wrote(mem, step.pages, "data", DataOf(byId, o.id), step.ref, DataRecord(o))
        /\ step.relinked \in BOOLEAN /\ (~step.relinked => SameUses(mem, step.pages))
  <2>1. IsFile(mem) /\ DataRecord(o) \in Contents("data")
    BY DEF SoundNow, DataRecord, Contents
  <2>2. CASE o.id \notin DOMAIN byId /\ StoreNew(o)
    <3>1. PICK step \in Insertions(mem, "data", DataRecord(o)) : DataHalf(o.id, o, step)
      BY <2>2 DEF StoreNew
    <3>2. DataOf(byId, o.id) = {}
      BY <2>2 DEF DataOf
    <3> QED BY <2>1, <3>1, <3>2, InsertionsProps
  <2>3. CASE o.id \in DOMAIN byId /\ StoreAgain(o)
    <3>1. PICK step \in Updates(mem, "data", byId[o.id].ref, DataRecord(o)) :
            DataHalf(o.id, o, step)
      BY <2>3 DEF StoreAgain
    <3>2. DataOf(byId, o.id) = {byId[o.id].ref}
      BY <2>3 DEF DataOf
    <3>3. byId[o.id].ref \in Refs /\ mem[byId[o.id].ref[1]].use = "data"
      BY <2>3, IndexFacts DEF SoundNow, Sound
    <3> QED BY <2>1, <3>1, <3>2, <3>3, UpdatesProps
  <2> QED BY <1>1, <2>2, <2>3
<1>3. /\ pending' = [id |-> o.id, object |-> o, ref |-> step.ref] /\ byId' = byId
      /\ Half(step, "indexing")
  BY <1>2 DEF DataHalf
<1>4. HalfDone("indexing") /\ mem' = step.pages
  BY <1>2, <1>3, HalfFacts
<1>5. o.id \in Ids /\ step.ref \in Refs /\ o # Absent
  BY <1>2, SpecialValues DEF Wrote, Objects
<1>6. /\ pending' \in Changes
      /\ pending'.id = o.id /\ pending'.object = o /\ pending'.ref = step.ref
  BY <1>3, <1>5 DEF Changes
<1>7. Wrote(mem, mem', "data", DataOf(byId, o.id), step.ref, DataRecord(o))
  BY <1>2, <1>4
<1> QED BY <1>1, <1>3, <1>4, <1>5, <1>6, <1>7 DEF HalfWay

LEMMA DroppingHalf ==
  ASSUME SoundNow, relinked \in BOOLEAN, Dropping
  PROVE  /\ HalfWay(byId, mem, mem', pending') /\ byId' = byId
         /\ HalfDone("indexing") /\ pending'.object = Absent
<1>1. PICK gone \in DOMAIN byId : Unused(byId, gone) /\ Drop(gone)
  BY DEF Dropping
<1> DEFINE ref == byId[gone].ref
           step == Removal(mem, ref)
<1>2. ref \in Refs /\ mem[ref[1]].use = "data" /\ gone \in Ids
  BY IndexFacts DEF SoundNow, Sound
<1>3. DataHalf(gone, Absent, step)
  BY <1>1 DEF Drop
<1> HIDE DEF ref
<1>4. /\ Erased(mem, step.pages, ref) /\ step.ref = ref
      /\ step.relinked \in BOOLEAN /\ (~step.relinked => SameUses(mem, step.pages))
  BY <1>2, RemovalProps DEF SoundNow
<1> HIDE DEF step
<1>5. /\ pending' = [id |-> gone, object |-> Absent, ref |-> ref] /\ byId' = byId
      /\ Half(step, "indexing")
  BY <1>3, <1>4 DEF DataHalf
<1>6. HalfDone("indexing") /\ mem' = step.pages
  BY <1>4, <1>5, HalfFacts
<1>7. pending' \in Changes /\ pending'.id = gone /\ pending'.object = Absent
  BY <1>2, <1>5 DEF Changes
<1> QED BY <1>1, <1>4, <1>5, <1>6, <1>7 DEF HalfWay, ref

\* An object's index record is untouched while only the data store has changed.
LEMMA HalfWayIndex ==
  ASSUME NEW pages, NEW index, IsFile(pages), IsIndex(index), Sound(pages, index),
         NEW half, NEW change, HalfWay(index, pages, half, change),
         NEW id \in DOMAIN index
  PROVE  /\ IsFile(half)
         /\ index[id].indexRef \in Refs /\ half[index[id].indexRef[1]].use = "index"
         /\ At(half, index[id].indexRef) = At(pages, index[id].indexRef)
<1> DEFINE r == index[id].indexRef
<1>1. r \in Refs /\ At(pages, r) # Empty /\ pages[r[1]].use = "index"
  BY OwnFacts DEF Own, Sound
<1>2. \A i \in DOMAIN index : index[i].ref # r
  BY <1>1 DEF Sound
<1> HIDE DEF r
<1>3. CASE change.object = Absent
  <2>1. Erased(pages, half, index[change.id].ref) /\ change.id \in DOMAIN index
    BY <1>3 DEF HalfWay, Unused
  <2> QED BY <1>1, <1>2, <2>1 DEF Erased, r
<1>4. CASE change.object # Absent
  <2> DEFINE d == DataOf(index, change.id)
  <2>1. Wrote(pages, half, "data", d, change.ref, DataRecord(change.object))
    BY <1>4 DEF HalfWay
  <2>2. r \notin d
    BY <1>2 DEF DataOf
  <2> HIDE DEF d
  <2>3. r # change.ref
    BY <1>1, <2>1, <2>2 DEF Wrote
  <2> QED BY <1>1, <2>1, <2>2, <2>3 DEF Wrote, r
<1> QED BY <1>3, <1>4

LEMMA HalfWayOnly ==
  ASSUME NEW pages, NEW index, IsFile(pages), IsIndex(index), Sound(pages, index),
         NEW half, NEW change, HalfWay(index, pages, half, change)
  PROVE  OnlyOf("data", pages, half)
<1>1. \A id \in DOMAIN index : index[id].ref \in Refs /\ pages[index[id].ref[1]].use = "data"
  BY IndexFacts DEF Sound
<1>2. CASE change.object = Absent
  BY <1>1, <1>2, ErasedOnly DEF HalfWay, Unused
<1>3. CASE change.object # Absent
  <2> DEFINE d == DataOf(index, change.id)
  <2>1. d \in SUBSET Refs /\ \A r \in d : pages[r[1]].use = "data"
    BY <1>1 DEF DataOf
  <2> HIDE DEF d
  <2>2. Wrote(pages, half, "data", d, change.ref, DataRecord(change.object))
    BY <1>3 DEF HalfWay, d
  <2> QED BY <2>1, <2>2, WroteOnly
<1> QED BY <1>2, <1>3

\* The second half, on the index store.
LEMMA StoreIndexedSound ==
  ASSUME NEW pages, IsFile(pages), IsIndex(byId), Sound(pages, byId), relinked \in BOOLEAN,
         HalfWay(byId, pages, mem, pending), StoreIndexed
  PROVE  /\ SoundNow' /\ NowHolds(pending.object) /\ Fits(byId, pending.object)
         /\ pending.object # Absent /\ pending.object.id = pending.id
         /\ phase = "indexing" /\ pending' = NoChange /\ HalfDone("committing")
         /\ OnlyOf("index", mem, mem')
<1> DEFINE o == pending.object
           ref == pending.ref
           rec == IndexRecord(o, ref)
<1>1. /\ o # Absent /\ Fits(byId, o) /\ o.id = pending.id /\ o \in Objects
      /\ Wrote(pages, mem, "data", DataOf(byId, o.id), ref, DataRecord(o))
  BY DEF StoreIndexed, HalfWay, Fits
<1>2. IsFile(mem) /\ ref \in Refs
  BY <1>1 DEF Wrote
<1>3. rec \in Contents("index")
  BY <1>1, <1>2, RecordFacts
<1>4. PICK step \in IF o.id \in DOMAIN byId THEN Updates(mem, "index", byId[o.id].indexRef, rec)
                    ELSE Insertions(mem, "index", rec) :
        IndexHalf(Indexed(o, ref, step.ref), step)
  BY <1>1 DEF StoreIndexed
<1> HIDE DEF o, ref, rec
<1>5. /\ Wrote(mem, step.pages, "index", IndexOf(byId, o.id), step.ref, rec)
      /\ step.relinked \in BOOLEAN /\ (~step.relinked => SameUses(mem, step.pages))
  <2>1. CASE o.id \in DOMAIN byId
    <3>1. byId[o.id].indexRef \in Refs /\ mem[byId[o.id].indexRef[1]].use = "index"
      BY <2>1, HalfWayIndex
    <3>2. IndexOf(byId, o.id) = {byId[o.id].indexRef}
      BY <2>1 DEF IndexOf
    <3> QED BY <1>2, <1>3, <1>4, <2>1, <3>1, <3>2, UpdatesProps
  <2>2. CASE o.id \notin DOMAIN byId
    <3>1. IndexOf(byId, o.id) = {}
      BY <2>2 DEF IndexOf
    <3> QED BY <1>2, <1>3, <1>4, <2>2, <3>1, InsertionsProps
  <2> QED BY <2>1, <2>2
<1>6. /\ phase = "indexing" /\ pending' = NoChange /\ byId' = Indexed(o, ref, step.ref)
      /\ Half(step, "committing")
  BY <1>4 DEF IndexHalf
<1>7. HalfDone("committing") /\ mem' = step.pages
  BY <1>5, <1>6, HalfFacts
<1>8. NowHolds(o) /\ byId' = [id \in DOMAIN byId \cup {o.id} |->
                               IF id = o.id THEN [object |-> o, ref |-> ref, indexRef |-> step.ref]
                                            ELSE byId[id]]
  BY <1>6, IndexedFacts
<1>9. Wrote(mem, mem', "index", IndexOf(byId, o.id), step.ref, IndexRecord(o, ref))
  BY <1>5, <1>7 DEF rec
<1>10. IsIndex(byId') /\ Sound(mem', byId')
  BY <1>1, <1>8, <1>9, StoredSound
<1>11. IsFile(mem')
  BY <1>9 DEF Wrote
<1>12. OnlyOf("index", mem, mem')
  <2> DEFINE x == IndexOf(byId, o.id)
  <2>1. x \in SUBSET Refs /\ \A r \in x : mem[r[1]].use = "index"
    BY HalfWayIndex DEF IndexOf
  <2> HIDE DEF x
  <2>2. Wrote(mem, mem', "index", x, step.ref, IndexRecord(o, ref))
    BY <1>9 DEF x
  <2> QED BY <1>2, <2>1, <2>2, WroteOnly
<1> QED BY <1>1, <1>6, <1>7, <1>8, <1>10, <1>11, <1>12 DEF SoundNow, o

LEMMA DropIndexedSound ==
  ASSUME NEW pages, IsFile(pages), IsIndex(byId), Sound(pages, byId), relinked \in BOOLEAN,
         HalfWay(byId, pages, mem, pending), DropIndexed
  PROVE  /\ SoundNow' /\ NowLacks(pending.id) /\ Unused(byId, pending.id)
         /\ pending.object = Absent
         /\ phase = "indexing" /\ pending' = NoChange /\ HalfDone("committing")
         /\ OnlyOf("index", mem, mem')
<1> DEFINE gone == pending.id
           step == Removal(mem, byId[gone].indexRef)
<1>1. /\ pending.object = Absent /\ Unused(byId, gone) /\ gone \in DOMAIN byId
      /\ Erased(pages, mem, byId[gone].ref)
  BY DEF DropIndexed, HalfWay, Unused
<1>2. /\ IsFile(mem) /\ byId[gone].indexRef \in Refs
      /\ mem[byId[gone].indexRef[1]].use = "index"
  BY <1>1, HalfWayIndex
<1>3. /\ phase = "indexing" /\ pending' = NoChange
      /\ byId' = [id \in DOMAIN byId \ {gone} |-> byId[id]] /\ Half(step, "committing")
  BY DEF DropIndexed, IndexHalf
<1> HIDE DEF gone
<1>4. /\ Erased(mem, step.pages, byId[gone].indexRef)
      /\ step.relinked \in BOOLEAN /\ (~step.relinked => SameUses(mem, step.pages))
  BY <1>2, RemovalProps
<1> HIDE DEF step
<1>5. HalfDone("committing") /\ mem' = step.pages
  BY <1>3, <1>4, HalfFacts
<1>6. Erased(mem, mem', byId[gone].indexRef)
  BY <1>4, <1>5
<1>7. IsIndex(byId') /\ Sound(mem', byId')
  BY <1>1, <1>3, <1>6, DroppedSound
<1>8. NowLacks(gone)
  BY <1>3 DEF NowLacks
<1>9. IsFile(mem')
  BY <1>6 DEF Erased
<1>10. OnlyOf("index", mem, mem')
  BY <1>2, <1>6, ErasedOnly
<1> QED BY <1>1, <1>3, <1>5, <1>7, <1>8, <1>9, <1>10 DEF SoundNow, gone

-----------------------------------------------------------------------------
(* What reopening a file loads.                                             *)

\* The slots the loader finds, and the choices it may make between slots that
\* name the same id.
Found(pages) == {ref \in Refs : pages[ref[1]].use = "index" /\ At(pages, ref) # Empty}
Named(pages, ref) == At(pages, ref).object.id
Choices(pages) ==
  {c \in SUBSET Found(pages) :
     /\ \A ref \in Found(pages) : \E one \in c : Named(pages, one) = Named(pages, ref)
     /\ \A one, other \in c : Named(pages, one) = Named(pages, other) => one = other}
Loaded(pages, chosen) ==
  [id \in {Named(pages, ref) : ref \in chosen} |->
     LET indexRef == CHOOSE ref \in chosen : Named(pages, ref) = id
     IN  [object |-> At(pages, indexRef).object, ref |-> At(pages, indexRef).ref,
          indexRef |-> indexRef]]

LEMMA LoadingsParts ==
  ASSUME NEW pages
  PROVE  Loadings(pages) = {Loaded(pages, chosen) : chosen \in Choices(pages)}
BY DEF Loadings, Loaded, Choices, Named, Found

LEMMA FoundFacts ==
  ASSUME NEW pages, IsFile(pages), NEW r \in Found(pages)
  PROVE  /\ r \in Refs /\ At(pages, r) \in IndexRecords
         /\ At(pages, r).object \in Objects /\ At(pages, r).ref \in Refs
         /\ Named(pages, r) \in Ids
         /\ At(pages, r) = IndexRecord(At(pages, r).object, At(pages, r).ref)
<1>1. r \in Refs /\ pages[r[1]].use = "index" /\ At(pages, r) # Empty
  BY DEF Found
<1>2. At(pages, r) \in IndexRecords
  BY <1>1, SlotFacts DEF Contents
<1>3. \A rec \in IndexRecords : /\ rec.object \in Objects /\ rec.ref \in Refs
                                /\ rec = IndexRecord(rec.object, rec.ref)
  BY DEF IndexRecords, IndexRecord
<1>4. \A o \in Objects : o.id \in Ids
  BY DEF Objects
<1> QED BY <1>1, <1>2, <1>3, <1>4 DEF Named

\* Whatever was loaded describes the index records.
LEMMA LoadingFacts ==
  ASSUME NEW pages, IsFile(pages), NEW index \in Loadings(pages)
  PROVE  /\ IsIndex(index)
         /\ \A id \in DOMAIN index :
              LET r == index[id].indexRef
              IN  /\ r \in Found(pages) /\ Named(pages, r) = id
                  /\ index[id].object = At(pages, r).object /\ index[id].ref = At(pages, r).ref
         /\ \A r \in Found(pages) : Named(pages, r) \in DOMAIN index
<1>1. PICK chosen \in Choices(pages) : index = Loaded(pages, chosen)
  BY LoadingsParts
<1>2. chosen \subseteq Found(pages)
  BY DEF Choices
<1>3. DOMAIN index = {Named(pages, ref) : ref \in chosen}
  BY <1>1 DEF Loaded
<1>4. ASSUME NEW id \in DOMAIN index
      PROVE  /\ index[id].indexRef \in chosen /\ Named(pages, index[id].indexRef) = id
             /\ index[id] = [object |-> At(pages, index[id].indexRef).object,
                             ref |-> At(pages, index[id].indexRef).ref,
                             indexRef |-> index[id].indexRef]
  <2> DEFINE one == CHOOSE ref \in chosen : Named(pages, ref) = id
  <2>1. one \in chosen /\ Named(pages, one) = id
    BY <1>3
  <2>2. index[id] = [object |-> At(pages, one).object, ref |-> At(pages, one).ref, indexRef |-> one]
    BY <1>1, <1>3 DEF Loaded
  <2> HIDE DEF one
  <2> QED BY <2>1, <2>2
<1>5. ASSUME NEW id \in DOMAIN index
      PROVE  id \in Ids /\ index[id] \in [object : Objects, ref : Refs, indexRef : Refs]
  <2>1. index[id].indexRef \in Found(pages)
    BY <1>2, <1>4
  <2> QED BY <1>4, <2>1, FoundFacts
<1>6. IsIndex(index)
  <2>1. index = [id \in DOMAIN index |-> index[id]]
    BY <1>1 DEF Loaded
  <2> QED BY <1>5, <2>1 DEF IsIndex
<1>7. \A r \in Found(pages) : Named(pages, r) \in DOMAIN index
  BY <1>3 DEF Choices
<1>8. ASSUME NEW id \in DOMAIN index
      PROVE  LET r == index[id].indexRef
             IN  /\ r \in Found(pages) /\ Named(pages, r) = id
                 /\ index[id].object = At(pages, r).object /\ index[id].ref = At(pages, r).ref
  BY <1>2, <1>4
<1> QED BY <1>6, <1>7, <1>8

\* In a sound file each index record is where the index says.
LEMMA FoundInSound ==
  ASSUME NEW pages, NEW index, IsFile(pages), IsIndex(index), Sound(pages, index)
  PROVE  /\ \A id \in DOMAIN index :
              /\ index[id].indexRef \in Found(pages)
              /\ Named(pages, index[id].indexRef) = id
              /\ At(pages, index[id].indexRef) = IndexRecord(index[id].object, index[id].ref)
         /\ \A r \in Found(pages) :
              Named(pages, r) \in DOMAIN index /\ r = index[Named(pages, r)].indexRef
<1>1. ASSUME NEW id \in DOMAIN index
      PROVE  /\ index[id].indexRef \in Found(pages)
             /\ Named(pages, index[id].indexRef) = id
             /\ At(pages, index[id].indexRef) = IndexRecord(index[id].object, index[id].ref)
  <2>1. /\ index[id].object.id = id /\ pages[index[id].indexRef[1]].use = "index"
        /\ At(pages, index[id].indexRef) = IndexRecord(index[id].object, index[id].ref)
    BY DEF Sound
  <2>2. index[id].indexRef \in Refs /\ At(pages, index[id].indexRef) # Empty
    BY OwnFacts DEF Own
  <2>3. At(pages, index[id].indexRef).object = index[id].object
    BY <2>1 DEF IndexRecord
  <2> QED BY <2>1, <2>2, <2>3 DEF Found, Named
<1>2. ASSUME NEW r \in Found(pages)
      PROVE  Named(pages, r) \in DOMAIN index /\ r = index[Named(pages, r)].indexRef
  <2>1. r \in Refs /\ pages[r[1]].use = "index" /\ At(pages, r) # Empty
    BY DEF Found
  <2>2. PICK id \in DOMAIN index : r \in {index[id].ref, index[id].indexRef}
    BY <2>1 DEF Sound
  <2>3. r # index[id].ref
    BY <2>1 DEF Sound
  <2>4. r = index[id].indexRef
    BY <2>2, <2>3
  <2> QED BY <1>1, <2>4
<1> QED BY <1>1, <1>2

\* So reopening it, or a file with the same index records, loads that index.
LEMMA LoadingsSame ==
  ASSUME NEW pages, NEW index, IsFile(pages), IsIndex(index), Sound(pages, index),
         NEW qgs, IsFile(qgs), Found(qgs) = Found(pages),
         \A r \in Found(pages) : At(qgs, r) = At(pages, r), NEW other \in Loadings(qgs)
  PROVE  other = index
<1>1. IsIndex(other)
  BY LoadingFacts
<1>2. \A r \in Found(pages) : Named(qgs, r) = Named(pages, r)
  BY DEF Named
<1>3. ASSUME NEW id \in DOMAIN other
      PROVE  id \in DOMAIN index /\ other[id] = index[id]
  <2>1. /\ other[id].indexRef \in Found(pages) /\ Named(pages, other[id].indexRef) = id
        /\ other[id].object = At(pages, other[id].indexRef).object
        /\ other[id].ref = At(pages, other[id].indexRef).ref
    BY <1>2, LoadingFacts
  <2>2. id \in DOMAIN index /\ other[id].indexRef = index[id].indexRef
    BY <2>1, FoundInSound
  <2>3. At(pages, other[id].indexRef) = IndexRecord(index[id].object, index[id].ref)
    BY <2>2, FoundInSound
  <2>4. other[id].object = index[id].object /\ other[id].ref = index[id].ref
    BY <2>1, <2>3 DEF IndexRecord
  <2> QED BY <1>1, <2>2, <2>4, IndexFacts
<1>4. ASSUME NEW id \in DOMAIN index PROVE id \in DOMAIN other
  BY <1>2, FoundInSound, LoadingFacts
<1>5. DOMAIN other = DOMAIN index
  BY <1>3, <1>4
<1>6. other = [id \in DOMAIN other |-> other[id]] /\ index = [id \in DOMAIN index |-> index[id]]
  BY <1>1 DEF IsIndex
<1> QED BY <1>3, <1>5, <1>6

LEMMA LoadingsSound ==
  ASSUME NEW pages, NEW index, IsFile(pages), IsIndex(index), Sound(pages, index)
  PROVE  Loadings(pages) = {index}
<1>1. \A other \in Loadings(pages) : other = index
  BY LoadingsSame
<1>2. Found(pages) \in Choices(pages)
  <2>1. \A one, other \in Found(pages) : Named(pages, one) = Named(pages, other) => one = other
    BY FoundInSound
  <2> QED BY <2>1 DEF Choices
<1>3. Loaded(pages, Found(pages)) \in Loadings(pages)
  BY <1>2, LoadingsParts
<1> QED BY <1>1, <1>3

-----------------------------------------------------------------------------
(* What a caller sees of a sound file is told by its index.                 *)

LEMMA DataOfSound ==
  ASSUME NEW pages, NEW index, IsFile(pages), IsIndex(index), Sound(pages, index),
         NEW id \in DOMAIN index
  PROVE  Data(pages, index[id].ref) = Shown(index[id].object) /\ index[id].object.id = id
<1>1. /\ index[id].object.id = id /\ pages[index[id].ref[1]].use = "data"
      /\ At(pages, index[id].ref) = DataRecord(index[id].object)
  BY DEF Sound
<1>2. index[id].object \in Objects
  BY IndexFacts
<1> QED BY <1>1, <1>2, SpecialValues DEF Data, Shown, DataRecord

LEMMA ViewOfSound ==
  ASSUME NEW pages, NEW index, IsFile(pages), IsIndex(index), Sound(pages, index)
  PROVE  View(pages, index)
           = [id \in Ids |-> IF id \in DOMAIN index THEN Shown(index[id].object) ELSE Absent]
<1>1. \A id \in DOMAIN index : Data(pages, index[id].ref) = Shown(index[id].object)
  BY DataOfSound
<1> QED BY <1>1 DEF View, Get

-----------------------------------------------------------------------------
(* The operations, by what they do to the index.                            *)

LEMMA ObjectFacts ==
  /\ \A id \in Ids, folder \in Ids \cup {NoFolder}, text \in Texts \cup {Overlong} :
       \A type \in {"entry", "folder"} :
         LET o == Object(id, type, folder, text)
         IN  o \in Objects /\ o.id = id /\ o.type = type /\ o.folder = folder /\ o.text = text
  /\ \A o \in Objects, folder \in Ids \cup {NoFolder} :
       LET moved == [o EXCEPT !.folder = folder]
       IN  /\ moved \in Objects /\ moved.id = o.id /\ moved.type = o.type
           /\ moved.folder = folder /\ moved.text = o.text
  /\ \A o \in Objects : /\ o.type \in {"entry", "folder"} /\ o.id \in Ids
                        /\ o.folder \in Ids \cup {NoFolder} /\ o.text \in Texts \cup {Overlong}
BY DEF Object, Objects

\* The first half of every operation of the engine stores or drops one object.
LEMMA OperationCases ==
  ASSUME SoundNow, Housed(byId), Next
  PROVE  \/ Storing \/ Dropping \/ StoreIndexed \/ DropIndexed
         \/ WritePage \/ PersistHeader \/ Restart \/ CrashAtHeader \/ CrashTorn \/ CrashBroken
<1>1. /\ Entries \subseteq DOMAIN byId /\ Folders \subseteq DOMAIN byId
      /\ DOMAIN byId \subseteq Ids /\ Folding \subseteq Ids \cup {NoFolder}
      /\ NoFolder \in Folding /\ NoFolder \notin Ids
      /\ \A f \in Folding : f # NoFolder => f \in DOMAIN byId /\ byId[f].object.type = "folder"
  BY EngineAssumption DEF Entries, Folders, OfType, Folding, SoundNow, IsIndex
<1>2. \A id \in DOMAIN byId : byId[id].object \in Objects
  BY IndexFacts DEF SoundNow
<1>3. ASSUME NEW id \in Ids, NEW folder \in Ids \cup {NoFolder}, NEW text \in Texts \cup {Overlong},
             AddEntry(id, folder, text)
      PROVE  Storing
  <2> DEFINE o == Object(id, "entry", folder, text)
  <2>1. o \in Objects /\ o.id = id /\ o.type = "entry" /\ o.folder = folder
    BY ObjectFacts
  <2>2. Ready /\ folder \in Folding /\ StoreNew(o) /\ id \notin DOMAIN byId
    BY <1>3 DEF AddEntry, Fresh
  <2> HIDE DEF o
  <2> QED BY <1>1, <2>1, <2>2 DEF Storing, Fits
<1>4. ASSUME NEW id \in Ids, NEW folder \in Ids \cup {NoFolder}, NEW text \in Texts \cup {Overlong},
             UpdateEntry(id, folder, text)
      PROVE  Storing
  <2> DEFINE o == Object(id, "entry", folder, text)
  <2>1. o \in Objects /\ o.id = id /\ o.type = "entry" /\ o.folder = folder
    BY ObjectFacts
  <2>2. /\ Ready /\ folder \in Folding /\ StoreAgain(o)
        /\ id \in DOMAIN byId /\ byId[id].object.type = "entry"
    BY <1>4 DEF UpdateEntry, Entries, OfType
  <2> HIDE DEF o
  <2> QED BY <1>1, <2>1, <2>2 DEF Storing, Fits
<1>5. ASSUME NEW id \in Ids, NEW text \in Texts \cup {Overlong}, CreateFolder(id, text)
      PROVE  Storing
  <2> DEFINE o == Object(id, "folder", NoFolder, text)
  <2>1. o \in Objects /\ o.id = id /\ o.type = "folder" /\ o.folder = NoFolder
    BY ObjectFacts
  <2>2. Ready /\ StoreNew(o) /\ id \notin DOMAIN byId
    BY <1>5 DEF CreateFolder, Fresh
  <2> HIDE DEF o
  <2> QED BY <1>1, <2>1, <2>2 DEF Storing, Fits
<1>6. ASSUME NEW id \in Ids, NEW text \in Texts \cup {Overlong}, UpdateFolder(id, text)
      PROVE  Storing
  <2> DEFINE o == Object(id, "folder", NoFolder, text)
  <2>1. o \in Objects /\ o.id = id /\ o.type = "folder" /\ o.folder = NoFolder
    BY ObjectFacts
  <2>2. Ready /\ StoreAgain(o) /\ id \in DOMAIN byId /\ byId[id].object.type = "folder"
    BY <1>6 DEF UpdateFolder, Folders, OfType
  <2> HIDE DEF o
  <2> QED BY <1>1, <2>1, <2>2 DEF Storing, Fits
<1>7. ASSUME NEW id \in Ids, NEW folder \in Ids, AddToFolder(id, folder)
      PROVE  Storing
  <2> DEFINE was == byId[id].object
             o == [was EXCEPT !.folder = folder]
  <2>1. /\ Ready /\ folder \in Folding /\ id \in DOMAIN byId /\ was.type = "entry"
        /\ Data(mem, byId[id].ref) # Unreadable
        /\ StoreAgain([Data(mem, byId[id].ref) EXCEPT !.folder = folder])
    BY <1>7 DEF AddToFolder, Entries, OfType, Folding
  <2>2. Data(mem, byId[id].ref) = was /\ was.id = id
    BY <2>1, DataOfSound DEF SoundNow, Shown
  <2>3. was \in Objects
    BY <1>2, <2>1
  <2> HIDE DEF was
  <2>4. o \in Objects /\ o.id = id /\ o.type = "entry" /\ o.folder = folder
    BY <2>1, <2>2, <2>3, ObjectFacts
  <2>5. StoreAgain(o)
    BY <2>1, <2>2
  <2> HIDE DEF o
  <2>6. byId[id].object.type = "entry"
    BY <2>1 DEF was
  <2> QED BY <1>1, <2>1, <2>4, <2>5, <2>6 DEF Storing, Fits
<1>8. ASSUME NEW id \in Ids, DeleteEntry(id)
      PROVE  Dropping
  <2>1. Ready /\ id \in DOMAIN byId /\ Drop(id) /\ byId[id].object.type = "entry"
    BY <1>8 DEF DeleteEntry, Entries, OfType
  <2>2. ASSUME NEW j \in DOMAIN byId PROVE byId[j].object.folder # id
    BY <1>1, <2>1 DEF Housed
  <2> QED BY <2>1, <2>2 DEF Dropping, Unused
<1>9. ASSUME NEW id \in Ids, DeleteFolder(id)
      PROVE  Dropping
  <2>1. Ready /\ id \in DOMAIN byId /\ Drop(id) /\ InFolder(id) = {}
    BY <1>9 DEF DeleteFolder, Folders, OfType
  <2>2. ASSUME NEW j \in DOMAIN byId PROVE byId[j].object.folder # id
    <3>1. CASE byId[j].object.type = "entry"
      BY <2>1, <3>1 DEF InFolder, Entries, OfType
    <3>2. CASE byId[j].object.type = "folder"
      BY <1>1, <2>1, <3>2 DEF Housed
    <3> QED BY <1>2, <3>1, <3>2, ObjectFacts
  <2> QED BY <2>1, <2>2 DEF Dropping, Unused
<1> QED BY <1>3, <1>4, <1>5, <1>6, <1>7, <1>8, <1>9 DEF Next

-----------------------------------------------------------------------------
(* The invariant.                                                           *)

LEMMA HousedWith ==
  ASSUME Housed(byId), NEW o \in Objects, Fits(byId, o), NowHolds(o)
  PROVE  Housed(byId')
<1>1. /\ DOMAIN byId' = DOMAIN byId \cup {o.id} /\ byId'[o.id].object = o
      /\ \A id \in DOMAIN byId \ {o.id} : byId'[id] = byId[id]
  BY DEF NowHolds
<1>2. \A id \in DOMAIN byId' : id # o.id => id \in DOMAIN byId
  BY <1>1
<1>3. \A id \in DOMAIN byId : byId'[id].object.type = byId[id].object.type
  BY <1>1 DEF Fits
<1>4. ASSUME NEW folder \in DOMAIN byId, byId[folder].object.type = "folder"
      PROVE  folder \in DOMAIN byId' /\ byId'[folder].object.type = "folder"
  BY <1>1, <1>3, <1>4
<1>5. o.folder # NoFolder => o.folder \in DOMAIN byId /\ byId[o.folder].object.type = "folder"
  BY DEF Fits
<1>6. ASSUME NEW id \in DOMAIN byId'
      PROVE  /\ byId'[id].object.type = "folder" => byId'[id].object.folder = NoFolder
             /\ byId'[id].object.folder # NoFolder =>
                  /\ byId'[id].object.folder \in DOMAIN byId'
                  /\ byId'[byId'[id].object.folder].object.type = "folder"
  <2>1. CASE id = o.id
    BY <1>1, <1>4, <1>5, <2>1 DEF Fits
  <2>2. CASE id # o.id
    <3>1. id \in DOMAIN byId /\ byId'[id] = byId[id]
      BY <1>1, <1>2, <2>2
    <3> QED BY <1>4, <3>1 DEF Housed
  <2> QED BY <2>1, <2>2
<1> QED BY <1>6 DEF Housed

LEMMA HousedWithout ==
  ASSUME Housed(byId), NEW gone, NowLacks(gone), Unused(byId, gone)
  PROVE  Housed(byId')
<1>1. DOMAIN byId' = DOMAIN byId \ {gone} /\ \A id \in DOMAIN byId' : byId'[id] = byId[id]
  BY DEF NowLacks
<1>2. ASSUME NEW id \in DOMAIN byId'
      PROVE  /\ byId'[id].object.type = "folder" => byId'[id].object.folder = NoFolder
             /\ byId'[id].object.folder # NoFolder =>
                  /\ byId'[id].object.folder \in DOMAIN byId'
                  /\ byId'[byId'[id].object.folder].object.type = "folder"
  BY <1>1 DEF Housed, Unused
<1> QED BY <1>2 DEF Housed

\* What the second half of an operation does, in memory and before its commit.
LEMMA IndexedStep ==
  ASSUME IInv, StoreIndexed \/ DropIndexed
  PROVE  /\ phase = "indexing" /\ Good(mem', byId') /\ OneChange(byId', byId)
         /\ pending' = NoChange /\ HalfDone("committing") /\ OnlyOf("index", mem, mem')
<1>1. phase = "indexing"
  BY DEF StoreIndexed, DropIndexed, IndexHalf
<1>2. /\ byId = saved.byId /\ HalfWay(byId, saved.pages, mem, pending)
      /\ IsFile(saved.pages) /\ IsIndex(byId) /\ Sound(saved.pages, byId) /\ Housed(byId)
      /\ relinked \in BOOLEAN
  BY <1>1 DEF IInv, TypeOK, Working, Good
<1>3. CASE StoreIndexed
  <2> DEFINE o == pending.object
  <2>1. /\ SoundNow' /\ NowHolds(o) /\ Fits(byId, o)
        /\ pending' = NoChange /\ HalfDone("committing") /\ OnlyOf("index", mem, mem')
    BY <1>2, <1>3, StoreIndexedSound
  <2> HIDE DEF o
  <2>2. o \in Objects /\ o.id \in Ids
    BY <2>1, ObjectFacts DEF Fits
  <2>3. Housed(byId')
    BY <1>2, <2>1, <2>2, HousedWith
  <2>4. OneChange(byId', byId)
    BY <2>1, <2>2 DEF OneChange, AgreeBut, NowHolds
  <2> QED BY <1>1, <2>1, <2>3, <2>4 DEF SoundNow, Good
<1>4. CASE DropIndexed
  <2> DEFINE gone == pending.id
  <2>1. /\ SoundNow' /\ NowLacks(gone) /\ Unused(byId, gone)
        /\ pending' = NoChange /\ HalfDone("committing") /\ OnlyOf("index", mem, mem')
    BY <1>2, <1>4, DropIndexedSound
  <2> HIDE DEF gone
  <2>2. gone \in Ids
    BY <1>2, <2>1, IndexFacts DEF Unused
  <2>3. Housed(byId')
    BY <1>2, <2>1, HousedWithout
  <2>4. OneChange(byId', byId)
    BY <2>1, <2>2 DEF OneChange, AgreeBut, NowLacks
  <2> QED BY <1>1, <2>1, <2>3, <2>4 DEF SoundNow, Good
<1> QED BY <1>3, <1>4

LEMMA InitIInv == Init => IInv
<1> SUFFICES ASSUME Init PROVE IInv
  OBVIOUS
<1> DEFINE data == [use |-> "data", recs |-> NoRecords]
           index == [use |-> "index", recs |-> NoRecords]
<1>1. data \in PageType /\ index \in PageType /\ FreePage \in PageType
  BY DEF PageType, NoRecords, FreePage
<1>2. mem = [p \in Pages |-> IF p = DataRoot THEN data ELSE IF p = IndexRoot THEN index ELSE FreePage]
  <2>1. data = [FreePage EXCEPT !.use = "data"] /\ index = [FreePage EXCEPT !.use = "index"]
    BY DEF FreePage
  <2> HIDE DEF data, index
  <2> QED BY <2>1 DEF Init
<1>3. DataRoot \in Pages /\ IndexRoot \in Pages /\ DataRoot # IndexRoot
  BY EngineAssumption DEF Pages, Roots
<1>4. data.use = "data" /\ index.use = "index" /\ \A s \in Slots : /\ data.recs[s] = Empty
                                                                   /\ index.recs[s] = Empty
                                                                   /\ FreePage.recs[s] = Empty
  BY DEF NoRecords, FreePage
<1> HIDE DEF data, index
<1>5. IsFile(mem)
  BY <1>1, <1>2, <1>3, <1>4 DEF IsFile
<1>6. ASSUME NEW r \in Refs PROVE At(mem, r) = Empty
  <2>1. r[1] \in Pages /\ r[2] \in Slots
    BY DEF Refs
  <2> QED BY <1>2, <1>4, <2>1 DEF At
<1>7. DOMAIN byId = {} /\ IsIndex(byId)
  BY DEF Init, IsIndex
<1>8. Good(mem, byId)
  BY <1>5, <1>6, <1>7 DEF Good, Sound, Housed
<1>9. /\ disk = mem /\ saved = [pages |-> mem, byId |-> byId] /\ phase = "ready"
      /\ pending = NoChange /\ relinked = FALSE
  BY DEF Init
<1>10. saved.pages = mem /\ saved.byId = byId
  BY <1>9
<1>11. TypeOK
  BY <1>5, <1>7, <1>9, <1>10 DEF TypeOK
<1> QED BY <1>8, <1>9, <1>10, <1>11 DEF IInv, Working

\* A vault that is opened again from a sound file.
LEMMA OpenedSound ==
  ASSUME NEW pages, NEW index, Good(pages, index), Opened(pages), phase' = "ready"
  PROVE  /\ IInv' /\ mem' = pages /\ byId' = index /\ pending' = NoChange
         /\ saved' = [pages |-> pages, byId |-> index]
<1>1. /\ mem' = pages /\ disk' = pages /\ byId' = index /\ pending' = NoChange
      /\ relinked' = FALSE /\ saved' = [pages |-> pages, byId |-> index]
  BY LoadingsSound DEF Opened, Good
<1>2. saved'.pages = pages /\ saved'.byId = index
  BY <1>1
<1>3. TypeOK'
  BY <1>1, <1>2 DEF TypeOK, Good
<1> QED BY <1>1, <1>2, <1>3 DEF IInv, Working

LEMMA NextIInv == IInv /\ [Next]_vars => IInv'
<1> SUFFICES ASSUME IInv, [Next]_vars PROVE IInv'
  OBVIOUS
<1>1. /\ TypeOK /\ IsFile(mem) /\ IsFile(disk) /\ IsIndex(byId)
      /\ saved = [pages |-> saved.pages, byId |-> saved.byId]
      /\ IsFile(saved.pages) /\ IsIndex(saved.byId)
      /\ pending \in Changes \cup {NoChange} /\ relinked \in BOOLEAN
  BY DEF IInv, TypeOK
<1>2. CASE UNCHANGED vars
  BY <1>2 DEF vars, IInv, TypeOK, Consistent, Working
<1>3. ASSUME Ready
      PROVE  /\ SoundNow /\ Housed(byId) /\ Good(mem, byId) /\ disk = mem
             /\ saved = [pages |-> mem, byId |-> byId] /\ saved.pages = mem /\ saved.byId = byId
             /\ relinked = FALSE
  BY <1>3 DEF IInv, SoundNow, Good, Ready, Consistent
<1>4. ASSUME Storing \/ Dropping PROVE IInv'
  <2>1. /\ SoundNow /\ Good(mem, byId) /\ disk = mem
        /\ saved.pages = mem /\ saved.byId = byId
    BY <1>3, <1>4 DEF Storing, Dropping
  <2>2. HalfWay(byId, mem, mem', pending') /\ byId' = byId /\ HalfDone("indexing")
    BY <1>1, <1>4, <2>1, StoringHalf, DroppingHalf
  <2>3. IsFile(mem') /\ pending' \in Changes
    <3>1. pending'.object = Absent \/ pending'.object # Absent
      OBVIOUS
    <3> QED BY <2>2, <3>1 DEF HalfWay, Wrote, Erased
  <2>4. /\ phase' \in {"lost", "indexing"} /\ disk' = disk /\ saved' = saved
        /\ relinked' \in BOOLEAN /\ (~relinked' => SameUses(mem, mem'))
    BY <2>2 DEF HalfDone
  <2>5. TypeOK'
    BY <1>1, <2>2, <2>3, <2>4 DEF TypeOK
  <2>6. saved'.pages = mem /\ saved'.byId = byId
    BY <2>1, <2>4
  <2> QED BY <2>1, <2>2, <2>4, <2>5, <2>6 DEF IInv, Consistent, Working
<1>5. ASSUME StoreIndexed \/ DropIndexed PROVE IInv'
  <2>1. /\ phase = "indexing" /\ Good(mem', byId') /\ OneChange(byId', byId)
        /\ pending' = NoChange /\ HalfDone("committing") /\ OnlyOf("index", mem, mem')
    BY <1>5, IndexedStep
  <2>2. /\ byId = saved.byId /\ HalfWay(byId, saved.pages, mem, pending)
        /\ Good(saved.pages, saved.byId)
        /\ ~relinked => /\ SameUses(saved.pages, mem)
                        /\ \A p \in Pages : disk[p] \in {mem[p], saved.pages[p]}
    BY <2>1 DEF IInv, Working
  <2>3. /\ phase' \in {"lost", "committing"} /\ disk' = disk /\ saved' = saved
        /\ relinked' \in BOOLEAN /\ (~relinked' => ~relinked /\ SameUses(mem, mem'))
    BY <2>1 DEF HalfDone
  <2>4. TypeOK'
    BY <1>1, <2>1, <2>3 DEF TypeOK, Good
  <2>5. ~relinked' => SameUses(saved.pages, mem')
    BY <2>2, <2>3 DEF SameUses
  <2>6. OnlyOf("data", saved.pages, mem)
    BY <2>2, HalfWayOnly DEF Good
  <2>7. ASSUME ~relinked', NEW p \in Pages PROVE disk[p] \in {mem'[p], saved.pages[p]}
    <3>1. /\ ~relinked /\ SameUses(mem, mem') /\ SameUses(saved.pages, mem)
          /\ disk[p] \in {mem[p], saved.pages[p]}
      BY <2>2, <2>3, <2>7
    <3>2. CASE saved.pages[p].use = "data"
      <4>1. mem[p].use # "index"
        BY <3>1, <3>2 DEF SameUses
      <4>2. mem'[p] = mem[p]
        BY <2>1, <3>1, <4>1 DEF OnlyOf
      <4> QED BY <3>1, <4>2
    <3>3. CASE saved.pages[p].use # "data"
      BY <2>6, <3>1, <3>3 DEF OnlyOf
    <3> QED BY <3>2, <3>3
  <2> QED BY <2>1, <2>2, <2>3, <2>4, <2>5, <2>7 DEF IInv, Consistent, Working
<1>6. CASE WritePage
  <2>1. Working /\ UNCHANGED <<mem, byId, pending, saved, relinked, phase>>
    BY <1>6 DEF WritePage
  <2>2. PICK p \in Pages : disk' = [disk EXCEPT ![p] = mem[p]]
    BY <1>6 DEF WritePage, Unwritten
  <2>3. \A q \in Pages : disk'[q] = IF q = p THEN mem[q] ELSE disk[q]
    BY <1>1, <2>2 DEF IsFile
  <2>4. ~relinked => \A q \in Pages : disk'[q] \in {mem[q], saved.pages[q]}
    BY <2>1, <2>3 DEF IInv
  <2>5. IsFile(disk')
    <3>1. mem[p] \in PageType /\ (p \in Roots => mem[p].use = disk[p].use)
      BY <1>1 DEF IsFile, Roots
    <3> QED BY <1>1, <2>2, <3>1, PageReplaced
  <2>6. TypeOK'
    BY <1>1, <2>1, <2>5 DEF TypeOK
  <2>7. /\ mem' = mem /\ byId' = byId /\ pending' = pending /\ saved' = saved
        /\ relinked' = relinked /\ phase' = phase
    BY <2>1
  <2>8. phase # "ready"
    BY <2>1 DEF Working
  <2> QED BY <2>1, <2>4, <2>6, <2>7, <2>8 DEF IInv, Consistent, Working
<1>7. CASE PersistHeader
  <2>1. /\ phase = "committing" /\ phase' = "ready" /\ disk = mem
        /\ saved' = [pages |-> disk, byId |-> byId] /\ UNCHANGED <<mem, disk, byId, pending>>
        /\ relinked' = FALSE
    <3>1. disk = [p \in Pages |-> disk[p]] /\ mem = [p \in Pages |-> mem[p]]
      BY <1>1 DEF IsFile
    <3>2. \A p \in Pages : mem[p] = disk[p]
      BY <1>7 DEF PersistHeader, Unwritten
    <3> QED BY <1>7, <3>1, <3>2 DEF PersistHeader
  <2>2. saved'.pages = mem /\ saved'.byId = byId
    BY <2>1
  <2>3. TypeOK'
    BY <1>1, <2>1, <2>2 DEF TypeOK
  <2>4. Good(mem, byId) /\ pending = NoChange
    BY <2>1 DEF IInv, Consistent
  <2> QED BY <2>1, <2>2, <2>3, <2>4 DEF IInv, Consistent, Working
<1>8. CASE Restart
  <2>1. CASE phase = "ready"
    BY <1>3, <1>8, <2>1, OpenedSound DEF Restart, Ready
  <2>2. CASE Working /\ disk = saved.pages
    <3>1. Good(saved.pages, saved.byId)
      BY <2>2 DEF IInv
    <3> QED BY <1>8, <2>2, <3>1, OpenedSound DEF Restart
  <2> QED BY <1>8, <2>1, <2>2 DEF Restart
<1>9. CASE CrashAtHeader
  <2>1. disk = mem /\ Good(mem, byId)
    <3>1. disk = [p \in Pages |-> disk[p]] /\ mem = [p \in Pages |-> mem[p]]
      BY <1>1 DEF IsFile
    <3>2. \A p \in Pages : mem[p] = disk[p]
      BY <1>9 DEF CrashAtHeader, Unwritten
    <3>3. Good(mem, byId)
      BY <1>9 DEF CrashAtHeader, IInv, Consistent
    <3> QED BY <3>1, <3>2, <3>3
  <2> QED BY <1>9, <2>1, OpenedSound DEF CrashAtHeader
<1>10. CASE CrashTorn
  <2>1. /\ mem' = disk /\ disk' = disk /\ byId' \in Loadings(disk)
        /\ pending' = NoChange /\ relinked' = FALSE
        /\ saved' = [pages |-> disk, byId |-> byId'] /\ phase' = "torn"
    BY <1>10 DEF CrashTorn, Opened
  <2>2. IsIndex(byId')
    BY <1>1, <2>1, LoadingFacts
  <2>3. saved'.pages = disk /\ saved'.byId = byId'
    BY <2>1
  <2>4. TypeOK'
    BY <1>1, <2>1, <2>2, <2>3 DEF TypeOK
  <2> QED BY <2>1, <2>4 DEF IInv, Consistent, Working
<1>11. CASE CrashBroken
  BY <1>1, <1>11 DEF CrashBroken, IInv, TypeOK, Consistent, Working
<1>12. CASE Next
  <2>1. CASE Ready
    BY <1>3, <1>4, <1>5, <1>6, <1>7, <1>8, <1>9, <1>10, <1>11, <1>12, <2>1, OperationCases
  <2>2. CASE ~Ready
    <3>1. \/ StoreIndexed \/ DropIndexed \/ WritePage \/ PersistHeader \/ Restart
          \/ CrashAtHeader \/ CrashTorn \/ CrashBroken
      BY <1>12, <2>2 DEF Next, AddEntry, UpdateEntry, CreateFolder, UpdateFolder, AddToFolder,
         DeleteEntry, DeleteFolder
    <3> QED BY <1>5, <1>6, <1>7, <1>8, <1>9, <1>10, <1>11, <3>1
  <2> QED BY <2>1, <2>2
<1> QED BY <1>2, <1>12

-----------------------------------------------------------------------------
(* The queries.                                                             *)

\* Reading the objects of some ids gives what the index says of them.
LEMMA ReadAllOfSound ==
  ASSUME SoundNow, NEW ids \in SUBSET DOMAIN byId
  PROVE  LET shown == {Shown(byId[id].object) : id \in ids}
         IN  ReadAll(ids) = IF Unreadable \in shown THEN Threw ELSE shown
<1>1. \A id \in ids : Data(mem, byId[id].ref) = Shown(byId[id].object)
  BY DataOfSound DEF SoundNow
<1>2. {Data(mem, byId[id].ref) : id \in ids} = {Shown(byId[id].object) : id \in ids}
  BY <1>1
<1> QED BY <1>2 DEF ReadAll

LEMMA QueriesOfSound == SoundNow /\ Consistent => QueriesAgree
<1> SUFFICES ASSUME SoundNow, Consistent PROVE QueriesAgree
  OBVIOUS
<1> DEFINE view == View(mem, byId)
           those(type) == {view[id] : id \in OfType(type)}
           Exact(answer, wanted, type) ==
             \/ answer = wanted
             \/ answer = Threw /\ Unreadable \in those(type)
           shown(ids) == {Shown(byId[id].object) : id \in ids}
<1>1. ASSUME NEW type
      PROVE  OfType(type) \subseteq DOMAIN byId /\ those(type) = shown(OfType(type))
  <2>1. OfType(type) \subseteq DOMAIN byId /\ DOMAIN byId \subseteq Ids
    BY DEF OfType, SoundNow, IsIndex
  <2>2. \A id \in OfType(type) : view[id] = Shown(byId[id].object)
    BY <2>1, ViewOfSound DEF SoundNow
  <2> QED BY <2>1, <2>2
<1>2. \A ids \in SUBSET DOMAIN byId :
        ReadAll(ids) = IF Unreadable \in shown(ids) THEN Threw ELSE shown(ids)
  BY ReadAllOfSound
<1>3. ASSUME NEW type
      PROVE  Exact(ReadAll(OfType(type)), those(type), type)
  BY <1>1, <1>2
<1>4. ASSUME NEW f \in Ids \cup {NoFolder}
      PROVE  Exact(GetByFolder(f), {o \in those("entry") \ {Unreadable} : o.folder = f}, "entry")
  <2>1. InFolder(f) \subseteq OfType("entry")
    BY DEF InFolder, Entries
  <2>2. shown(InFolder(f)) \ {Unreadable}
          = {o \in shown(OfType("entry")) \ {Unreadable} : o.folder = f}
    BY DEF InFolder, Entries, Shown
  <2>3. Unreadable \in shown(InFolder(f)) => Unreadable \in shown(OfType("entry"))
    BY <2>1
  <2> HIDE DEF shown, view
  <2>4. GetByFolder(f) = IF Unreadable \in shown(InFolder(f)) THEN Threw ELSE shown(InFolder(f))
    BY <1>1, <1>2, <2>1 DEF GetByFolder
  <2> QED BY <1>1, <2>2, <2>3, <2>4
<1>5. ASSUME NEW t \in Texts, NEW type
      PROVE  ReadAll({id \in OfType(type) : byId[id].object.text = t})
               = {o \in those(type) \ {Unreadable} : o.text = t}
  <2> DEFINE ids == {id \in OfType(type) : byId[id].object.text = t}
  <2>1. t # Overlong
    BY EngineAssumption
  <2>2. \A id \in OfType(type) : byId[id].object # Unreadable
    BY <1>1, IndexFacts, SpecialValues DEF SoundNow
  <2>3. Unreadable \notin shown(ids)
    BY <2>1, <2>2 DEF Shown
  <2>4. shown(ids) = {o \in shown(OfType(type)) \ {Unreadable} : o.text = t}
    BY <2>1, <2>2 DEF Shown
  <2>5. ids \in SUBSET DOMAIN byId
    BY <1>1
  <2> HIDE DEF ids, shown, view
  <2> QED BY <1>1, <1>2, <2>3, <2>4, <2>5 DEF ids
<1> HIDE DEF view, those, shown
<1>6. Exact(GetAllEntries, those("entry"), "entry") /\ Exact(GetFolders, those("folder"), "folder")
  BY <1>3 DEF GetAllEntries, GetFolders, Entries, Folders
<1>7. \A t \in Texts : /\ SearchEntries(t) = {o \in those("entry") \ {Unreadable} : o.text = t}
                       /\ SearchFolders(t) = {o \in those("folder") \ {Unreadable} : o.text = t}
  BY <1>5 DEF SearchEntries, SearchFolders, Entries, Folders
<1> QED BY <1>4, <1>6, <1>7 DEF QueriesAgree, those, view

-----------------------------------------------------------------------------
(* Theorems.                                                                *)

\* The inductive invariant holds in every reachable state.
THEOREM Invariance == Spec => []IInv
BY InitIInv, NextIInv, PTL DEF Spec

\* Pages, references and the index keep their types; the roots stay in their stores.
THEOREM TypeCorrect == Spec => []TypeOK
<1>1. IInv => TypeOK
  BY DEF IInv
<1> QED BY <1>1, Invariance, PTL

\* In memory and after reopening, every reference of the index leads to the
\* records of its object, and no record is without an object (VaultEngine.cpp).
THEOREM RefsCorrect == Spec => []RefsSound
<1>1. IInv => RefsSound
  BY LoadingsSound DEF IInv, RefsSound, Good
<1> QED BY <1>1, Invariance, PTL

\* The queries of the engine answer from the data records, or fail as a whole
\* when one of those they read cannot be read.
THEOREM QueriesCorrect == Spec => []QueriesAgree
<1>1. IInv => QueriesAgree
  <2>1. CASE Consistent
    BY <2>1, QueriesOfSound DEF IInv, Good, SoundNow
  <2>2. CASE ~Consistent
    BY <2>2 DEF QueriesAgree
  <2> QED BY <2>1, <2>2
<1> QED BY <1>1, Invariance, PTL

-----------------------------------------------------------------------------
(* The engine implements the abstract vault.                                *)

\* A file some pages of which are of one commit and some of the next, which has
\* one object changed and no page linked or unlinked.
Torn(id, pages, old, oldIndex, new, newIndex) ==
  /\ IsFile(pages) /\ Good(old, oldIndex) /\ Good(new, newIndex)
  /\ AgreeBut(id, newIndex, oldIndex)
  /\ \A p \in Pages : pages[p] \in {new[p], old[p]} /\ new[p].use = old[p].use

LEMMA TornSlots ==
  ASSUME NEW id, NEW pages, NEW old, NEW oldIndex, NEW new, NEW newIndex,
         Torn(id, pages, old, oldIndex, new, newIndex), NEW r \in Refs
  PROVE  /\ At(pages, r) \in {At(new, r), At(old, r)}
         /\ pages[r[1]].use = new[r[1]].use /\ pages[r[1]].use = old[r[1]].use
<1>1. r[1] \in Pages
  BY DEF Refs
<1> QED BY <1>1 DEF Torn, At

\* An index record of a torn file is one of the old or of the new index.
LEMMA TornFound ==
  ASSUME NEW id, NEW pages, NEW old, NEW oldIndex, NEW new, NEW newIndex,
         Torn(id, pages, old, oldIndex, new, newIndex), NEW r \in Found(pages)
  PROVE  LET j == Named(pages, r)
             From(index) == /\ j \in DOMAIN index /\ r = index[j].indexRef
                            /\ At(pages, r) = IndexRecord(index[j].object, index[j].ref)
         IN  From(newIndex) \/ From(oldIndex)
<1>1. r \in Refs /\ pages[r[1]].use = "index" /\ At(pages, r) # Empty
  BY DEF Found
<1>2. ASSUME NEW file, NEW index, Good(file, index), At(pages, r) = At(file, r),
             pages[r[1]].use = file[r[1]].use
      PROVE  LET j == Named(pages, r)
             IN  /\ j \in DOMAIN index /\ r = index[j].indexRef
                 /\ At(pages, r) = IndexRecord(index[j].object, index[j].ref)
  <2>1. r \in Found(file) /\ Named(file, r) = Named(pages, r)
    BY <1>1, <1>2 DEF Found, Named
  <2> QED BY <1>2, <2>1, FoundInSound DEF Good
<1> QED BY <1>1, <1>2, TornSlots DEF Torn

\* What reopening a torn file loads of the objects that were not changed.
LEMMA TornIndex ==
  ASSUME NEW id, NEW pages, NEW old, NEW oldIndex, NEW new, NEW newIndex,
         Torn(id, pages, old, oldIndex, new, newIndex), NEW index \in Loadings(pages)
  PROVE  AgreeBut(id, index, oldIndex)
<1> SUFFICES ASSUME NEW j \in Ids \ {id}
             PROVE  /\ j \in DOMAIN index <=> j \in DOMAIN oldIndex
                    /\ j \in DOMAIN index => index[j] = oldIndex[j]
  BY DEF AgreeBut
<1>1. /\ IsFile(pages) /\ IsFile(old) /\ IsFile(new) /\ IsIndex(oldIndex) /\ IsIndex(newIndex)
      /\ Sound(old, oldIndex) /\ Sound(new, newIndex)
      /\ j \in DOMAIN newIndex <=> j \in DOMAIN oldIndex
      /\ j \in DOMAIN newIndex => newIndex[j] = oldIndex[j]
  BY DEF Torn, Good, AgreeBut
<1>2. ASSUME j \in DOMAIN oldIndex PROVE j \in DOMAIN index
  <2> DEFINE r == oldIndex[j].indexRef
  <2>1. /\ r \in Found(old) /\ Named(old, r) = j
        /\ At(new, r) = IndexRecord(oldIndex[j].object, oldIndex[j].ref)
        /\ At(old, r) = IndexRecord(oldIndex[j].object, oldIndex[j].ref)
    BY <1>1, <1>2, FoundInSound
  <2> HIDE DEF r
  <2>2. r \in Refs /\ At(pages, r) = At(old, r) /\ pages[r[1]].use = old[r[1]].use
    <3>1. r \in Refs
      BY <2>1 DEF Found
    <3> QED BY <2>1, <3>1, TornSlots
  <2>3. r \in Found(pages) /\ Named(pages, r) = j
    BY <2>1, <2>2 DEF Found, Named
  <2> QED BY <1>1, <2>3, LoadingFacts
<1>3. ASSUME j \in DOMAIN index PROVE j \in DOMAIN oldIndex /\ index[j] = oldIndex[j]
  <2> DEFINE r == index[j].indexRef
  <2>1. /\ r \in Found(pages) /\ Named(pages, r) = j
        /\ index[j].object = At(pages, r).object /\ index[j].ref = At(pages, r).ref
    BY <1>1, <1>3, LoadingFacts
  <2>2. \/ /\ j \in DOMAIN newIndex /\ r = newIndex[j].indexRef
           /\ At(pages, r) = IndexRecord(newIndex[j].object, newIndex[j].ref)
        \/ /\ j \in DOMAIN oldIndex /\ r = oldIndex[j].indexRef
           /\ At(pages, r) = IndexRecord(oldIndex[j].object, oldIndex[j].ref)
    BY <2>1, TornFound
  <2>3. /\ j \in DOMAIN oldIndex /\ r = oldIndex[j].indexRef
        /\ At(pages, r) = IndexRecord(oldIndex[j].object, oldIndex[j].ref)
    BY <1>1, <2>2
  <2>4. index[j].object = oldIndex[j].object /\ index[j].ref = oldIndex[j].ref
    BY <2>1, <2>3 DEF IndexRecord
  <2>5. IsIndex(index)
    BY <1>1, LoadingFacts
  <2> QED BY <1>1, <1>3, <2>3, <2>4, <2>5, IndexFacts
<1> QED BY <1>2, <1>3

\* A record that can be read where one of two commits has the changed object is
\* that object's in the other as well.
LEMMA TornRecord ==
  ASSUME NEW id, NEW pages, NEW index, Good(pages, index), NEW other, IsIndex(other),
         \A i, j \in DOMAIN other : i # j => other[i].ref # other[j].ref,
         AgreeBut(id, index, other), id \in DOMAIN other,
         pages[other[id].ref[1]].use = "data", At(pages, other[id].ref) \notin {Empty, Cut}
  PROVE  id \in DOMAIN index /\ At(pages, other[id].ref) = Shown(index[id].object)
<1> DEFINE r == other[id].ref
<1>1. r \in Refs
  BY IndexFacts
<1>2. PICK i \in DOMAIN index : r \in {index[i].ref, index[i].indexRef}
  BY <1>1 DEF Good, Sound
<1>3. /\ pages[index[i].indexRef[1]].use = "index"
      /\ At(pages, index[i].ref) = DataRecord(index[i].object)
  BY DEF Good, Sound
<1>4. r = index[i].ref
  BY <1>2, <1>3
<1>5. i = id
  <2>1. i \in Ids
    BY IndexFacts DEF Good
  <2>2. i # id => i \in DOMAIN other /\ other[i].ref = r
    BY <1>4, <2>1 DEF AgreeBut
  <2> QED BY <2>2
<1>6. At(pages, r) = Shown(index[i].object)
  BY <1>3, <1>4 DEF DataRecord, Shown
<1> QED BY <1>5, <1>6

\* What a caller sees of a torn file: the changed object as before or after the
\* change, absent or unreadable, and the others as they were.
LEMMA TornView ==
  ASSUME NEW id \in Ids, NEW pages, NEW old, NEW oldIndex, NEW new, NEW newIndex,
         Torn(id, pages, old, oldIndex, new, newIndex), NEW index \in Loadings(pages)
  PROVE  /\ \A j \in Ids \ {id} : View(pages, index)[j] = View(old, oldIndex)[j]
         /\ View(pages, index)[id] \in
              {View(old, oldIndex)[id], View(new, newIndex)[id], Absent, Unreadable}
<1>1. /\ IsFile(pages) /\ IsFile(old) /\ IsFile(new) /\ IsIndex(oldIndex) /\ IsIndex(newIndex)
      /\ Sound(old, oldIndex) /\ Sound(new, newIndex)
      /\ AgreeBut(id, newIndex, oldIndex) /\ Good(old, oldIndex) /\ Good(new, newIndex)
  BY DEF Torn, Good
<1>2. IsIndex(index) /\ AgreeBut(id, index, oldIndex)
  BY <1>1, LoadingFacts, TornIndex
<1>3. ASSUME NEW j \in Ids \ {id} PROVE View(pages, index)[j] = View(old, oldIndex)[j]
  <2>1. CASE j \notin DOMAIN oldIndex
    BY <1>2, <2>1 DEF AgreeBut, View, Get
  <2>2. CASE j \in DOMAIN oldIndex
    <3> DEFINE r == oldIndex[j].ref
    <3>1. /\ j \in DOMAIN index /\ index[j] = oldIndex[j]
          /\ j \in DOMAIN newIndex /\ newIndex[j] = oldIndex[j]
      BY <1>1, <1>2, <2>2 DEF AgreeBut
    <3>2. /\ At(old, r) = DataRecord(oldIndex[j].object) /\ old[r[1]].use = "data"
          /\ At(new, r) = DataRecord(oldIndex[j].object)
      BY <1>1, <2>2, <3>1 DEF Sound
    <3>3. r \in Refs
      BY <1>1, <2>2, IndexFacts
    <3> HIDE DEF r
    <3>4. At(pages, r) = At(old, r) /\ pages[r[1]].use = old[r[1]].use
      BY <3>2, <3>3, TornSlots
    <3>5. Data(pages, r) = Data(old, r)
      BY <3>4 DEF Data
    <3> QED BY <2>2, <3>1, <3>5 DEF View, Get, r
  <2> QED BY <2>1, <2>2
<1>4. CASE id \notin DOMAIN index
  BY <1>3, <1>4 DEF View, Get
<1>5. CASE id \in DOMAIN index
  <2> DEFINE r == index[id].ref
  <2>1. View(pages, index)[id] = Data(pages, r)
    BY <1>5 DEF View, Get
  <2>2. r \in Refs
    BY <1>2, <1>5, IndexFacts
  <2>3. CASE ~(pages[r[1]].use = "data" /\ At(pages, r) \notin {Empty, Cut})
    BY <1>3, <2>1, <2>3 DEF Data
  <2>4. CASE pages[r[1]].use = "data" /\ At(pages, r) \notin {Empty, Cut}
    <3>1. Data(pages, r) = At(pages, r)
      BY <2>4 DEF Data
    <3>2. \/ id \in DOMAIN newIndex /\ r = newIndex[id].ref
          \/ id \in DOMAIN oldIndex /\ r = oldIndex[id].ref
      <4>1. /\ index[id].indexRef \in Found(pages) /\ Named(pages, index[id].indexRef) = id
            /\ r = At(pages, index[id].indexRef).ref
        BY <1>1, <1>5, LoadingFacts
      <4> HIDE DEF r
      <4> QED BY <4>1, TornFound DEF IndexRecord
    <3>3. /\ At(pages, r) \in {At(new, r), At(old, r)}
          /\ new[r[1]].use = "data" /\ old[r[1]].use = "data"
      BY <2>2, <2>4, TornSlots
    <3>4. AgreeBut(id, oldIndex, newIndex) /\ AgreeBut(id, newIndex, newIndex)
          /\ AgreeBut(id, oldIndex, oldIndex) /\ AgreeBut(id, newIndex, oldIndex)
      BY <1>1 DEF AgreeBut
    <3>5. /\ \A i, j \in DOMAIN newIndex : i # j => newIndex[i].ref # newIndex[j].ref
          /\ \A i, j \in DOMAIN oldIndex : i # j => oldIndex[i].ref # oldIndex[j].ref
      BY <1>1 DEF Sound
    <3> HIDE DEF r
    <3>6. CASE At(pages, r) = At(new, r)
      <4>1. id \in DOMAIN newIndex /\ At(new, r) = Shown(newIndex[id].object)
        <5>1. new[r[1]].use = "data" /\ At(new, r) \notin {Empty, Cut}
          BY <2>4, <3>3, <3>6
        <5>2. CASE id \in DOMAIN newIndex /\ r = newIndex[id].ref
          BY <1>1, <3>4, <3>5, <5>1, <5>2, TornRecord
        <5>3. CASE id \in DOMAIN oldIndex /\ r = oldIndex[id].ref
          BY <1>1, <3>4, <3>5, <5>1, <5>3, TornRecord
        <5> QED BY <3>2, <5>2, <5>3
      <4>2. View(new, newIndex)[id] = Shown(newIndex[id].object)
        BY <1>1, <4>1, ViewOfSound
      <4> QED BY <1>3, <2>1, <3>1, <3>6, <4>1, <4>2
    <3>7. CASE At(pages, r) = At(old, r)
      <4>1. id \in DOMAIN oldIndex /\ At(old, r) = Shown(oldIndex[id].object)
        <5>1. old[r[1]].use = "data" /\ At(old, r) \notin {Empty, Cut}
          BY <2>4, <3>3, <3>7
        <5>2. CASE id \in DOMAIN newIndex /\ r = newIndex[id].ref
          BY <1>1, <3>4, <3>5, <5>1, <5>2, TornRecord
        <5>3. CASE id \in DOMAIN oldIndex /\ r = oldIndex[id].ref
          BY <1>1, <3>4, <3>5, <5>1, <5>3, TornRecord
        <5> QED BY <3>2, <5>2, <5>3
      <4>2. View(old, oldIndex)[id] = Shown(oldIndex[id].object)
        BY <1>1, <4>1, ViewOfSound
      <4> QED BY <1>3, <2>1, <3>1, <3>7, <4>1, <4>2
    <3> QED BY <3>3, <3>6, <3>7
  <2> QED BY <2>3, <2>4
<1> QED BY <1>3, <1>4, <1>5

\* The same when the data store has the change, maybe in part, and the index store
\* does not: all index records are as they were.
LEMMA HalfTornView ==
  ASSUME NEW old, NEW index, Good(old, index), NEW half, NEW change,
         HalfWay(index, old, half, change), SameUses(old, half),
         NEW pages, IsFile(pages), \A p \in Pages : pages[p] \in {half[p], old[p]},
         NEW loaded \in Loadings(pages)
  PROVE  /\ \A j \in Ids \ {change.id} : View(pages, loaded)[j] = View(old, index)[j]
         /\ change.id \in Ids =>
              View(pages, loaded)[change.id] \in
                {View(old, index)[change.id], Unreadable,
                 IF change.object = Absent THEN Absent ELSE Shown(change.object)}
<1>1. IsFile(old) /\ IsIndex(index) /\ Sound(old, index)
  BY DEF Good
<1>2. ASSUME NEW r \in Refs
      PROVE  /\ pages[r[1]].use = old[r[1]].use
             /\ old[r[1]].use # "data" => At(pages, r) = At(old, r)
             /\ At(pages, r) \in {At(half, r), At(old, r)}
  <2>1. r[1] \in Pages
    BY DEF Refs
  <2>2. OnlyOf("data", old, half)
    BY <1>1, HalfWayOnly
  <2> QED BY <2>1, <2>2 DEF SameUses, OnlyOf, At
<1>3. Found(pages) = Found(old) /\ \A r \in Found(old) : At(pages, r) = At(old, r)
  BY <1>2 DEF Found
<1>4. loaded = index
  BY <1>1, <1>3, LoadingsSame
<1>5. ASSUME NEW j \in Ids, j \notin DOMAIN index
      PROVE  View(pages, loaded)[j] = View(old, index)[j]
  BY <1>4, <1>5 DEF View, Get
<1>6. ASSUME NEW j \in Ids, j \in DOMAIN index
      PROVE  /\ index[j].ref \in Refs /\ old[index[j].ref[1]].use = "data"
             /\ At(old, index[j].ref) # Empty
             /\ View(pages, loaded)[j] = Data(pages, index[j].ref)
             /\ View(old, index)[j] = Data(old, index[j].ref)
  <2>1. index[j].ref \in Refs /\ index[j].object \in Objects
    BY <1>1, <1>6, IndexFacts
  <2>2. /\ old[index[j].ref[1]].use = "data"
        /\ At(old, index[j].ref) = DataRecord(index[j].object)
    BY <1>1, <1>6 DEF Sound
  <2> QED BY <1>4, <1>6, <2>1, <2>2, SpecialValues DEF View, Get, DataRecord
<1>7. ASSUME NEW j \in Ids, j \in DOMAIN index
      PROVE  /\ j # change.id => At(half, index[j].ref) = At(old, index[j].ref)
             /\ j = change.id =>
                  \/ At(half, index[j].ref) = Empty
                  \/ change.object # Absent /\ At(half, index[j].ref) = DataRecord(change.object)
  <2> DEFINE r == index[j].ref
  <2>1. r \in Refs /\ At(old, r) # Empty
    BY <1>6, <1>7
  <2>2. j # change.id => r \notin DataOf(index, change.id)
    BY <1>1, <1>7 DEF Sound, DataOf
  <2>3. j = change.id => r \in DataOf(index, change.id)
    BY <1>7 DEF DataOf
  <2>4. CASE change.object = Absent
    <3>1. change.id \in DOMAIN index /\ Erased(old, half, index[change.id].ref)
      BY <2>4 DEF HalfWay, Unused
    <3>2. DataOf(index, change.id) = {index[change.id].ref}
      BY <3>1 DEF DataOf
    <3> HIDE DEF r
    <3>3. At(half, r) = IF r \in DataOf(index, change.id) THEN Empty ELSE At(old, r)
      BY <2>1, <3>1, <3>2 DEF Erased
    <3> QED BY <2>2, <2>3, <3>3 DEF r
  <2>5. CASE change.object # Absent
    <3> DEFINE d == DataOf(index, change.id)
    <3>1. Wrote(old, half, "data", d, change.ref, DataRecord(change.object))
      BY <2>5 DEF HalfWay
    <3> HIDE DEF d, r
    <3>2. /\ r = change.ref => At(half, r) = DataRecord(change.object) /\ r \in d
          /\ r # change.ref => At(half, r) = IF r \in d THEN Empty ELSE At(old, r)
      BY <2>1, <3>1 DEF Wrote
    <3> QED BY <2>2, <2>3, <2>5, <3>2 DEF d, r
  <2> QED BY <2>4, <2>5
<1>8. ASSUME NEW j \in Ids \ {change.id} PROVE View(pages, loaded)[j] = View(old, index)[j]
  <2>1. CASE j \in DOMAIN index
    <3> DEFINE r == index[j].ref
    <3>1. /\ r \in Refs /\ At(half, r) = At(old, r)
          /\ View(pages, loaded)[j] = Data(pages, r) /\ View(old, index)[j] = Data(old, r)
      BY <1>6, <1>7, <2>1
    <3> HIDE DEF r
    <3>2. At(pages, r) = At(old, r) /\ pages[r[1]].use = old[r[1]].use
      BY <1>2, <3>1
    <3> QED BY <3>1, <3>2 DEF Data
  <2> QED BY <1>5, <2>1
<1>9. ASSUME change.id \in Ids, change.id \in DOMAIN index
      PROVE  View(pages, loaded)[change.id] \in
               {View(old, index)[change.id], Unreadable,
                IF change.object = Absent THEN Absent ELSE Shown(change.object)}
  <2> DEFINE r == index[change.id].ref
  <2>1. /\ r \in Refs /\ old[r[1]].use = "data"
        /\ View(pages, loaded)[change.id] = Data(pages, r)
        /\ View(old, index)[change.id] = Data(old, r)
        /\ \/ At(half, r) = Empty
           \/ change.object # Absent /\ At(half, r) = DataRecord(change.object)
    BY <1>6, <1>7, <1>9
  <2> HIDE DEF r
  <2>2. pages[r[1]].use = "data" /\ old[r[1]].use = "data"
    BY <1>2, <2>1
  <2>3. CASE At(pages, r) = At(old, r)
    BY <2>1, <2>2, <2>3 DEF Data
  <2>4. CASE At(pages, r) = Empty
    BY <2>1, <2>4 DEF Data
  <2>5. CASE change.object # Absent /\ At(pages, r) = DataRecord(change.object)
    <3>1. Data(pages, r) \in {Unreadable, Shown(change.object)}
      BY <2>5 DEF Data, DataRecord, Shown
    <3> QED BY <2>1, <2>5, <3>1
  <2>6. At(pages, r) \in {At(half, r), At(old, r)}
    BY <1>2, <2>1
  <2> QED BY <2>1, <2>3, <2>4, <2>5, <2>6
<1> QED BY <1>5, <1>8, <1>9

\* What a caller sees of an object is an object of the vault, or Unreadable.
LEMMA ShownFacts ==
  ASSUME NEW o \in Objects, o.type = "folder" => o.folder = NoFolder
  PROVE  /\ o.text # Overlong => Shown(o) = o /\ o \in Promise!Readable
                                 /\ (o.type = "folder" => o \in Promise!Folder)
         /\ o.text = Overlong => Shown(o) = Unreadable
         /\ Shown(o) # Absent
<1>2. o = [id |-> o.id, type |-> o.type, folder |-> o.folder, text |-> o.text]
      /\ o.id \in Ids /\ o.type \in {"entry", "folder"} /\ o.folder \in Ids \cup {NoFolder}
      /\ o.text \in Texts \cup {Overlong}
  BY DEF Objects
<1>3. CASE o.text # Overlong
  <2>1. o.type = "entry" => o \in Promise!Entry
    BY <1>2, <1>3 DEF Promise!Entry
  <2>2. o.type = "folder" => o \in Promise!Folder
    BY <1>2, <1>3 DEF Promise!Folder
  <2> QED BY <1>2, <1>3, <2>1, <2>2, SpecialValues DEF Shown, Promise!Readable
<1>4. CASE o.text = Overlong
  BY <1>4, SpecialValues DEF Shown
<1> QED BY <1>3, <1>4

LEMMA ReadableFacts ==
  /\ Promise!Readable \subseteq Objects /\ Promise!Entry \subseteq Objects
  /\ Absent \notin Promise!Readable /\ Unreadable \notin Promise!Readable
<1>1. Promise!Entry \subseteq Objects /\ Promise!Folder \subseteq Objects
  BY DEF Promise!Entry, Promise!Folder, Objects
<1> QED BY <1>1, SpecialValues DEF Promise!Readable

\* Storing an object is the abstract Store, or Spoil when its record is cut.
LEMMA StoringRefines ==
  ASSUME IInv, Storing
  PROVE  Promise!Next
<1>1. /\ phase = "ready" /\ saved.pages = mem /\ saved.byId = byId /\ pending = NoChange
      /\ IsFile(mem) /\ IsIndex(byId) /\ Sound(mem, byId) /\ Housed(byId) /\ SoundNow
      /\ relinked \in BOOLEAN
  BY DEF IInv, TypeOK, Good, SoundNow, Storing, Ready, Consistent
<1>2. /\ HalfWay(byId, mem, mem', pending') /\ saved' = saved /\ phase' # "broken"
      /\ pending'.object # Absent
  BY <1>1, StoringHalf DEF HalfDone
<1> DEFINE o == pending'.object
           id == pending'.id
           objects == View(mem, byId)
<1>3. Fits(byId, o) /\ o.id = id /\ o \in Objects /\ pending' # NoChange
  BY <1>2, RecordAssumption DEF HalfWay, Fits
<1>4. Held = objects /\ View(saved.pages, saved.byId) = objects
  BY <1>1 DEF Held
<1>5. Held' = [objects EXCEPT ![id] = Shown(o)] /\ View(saved'.pages, saved'.byId) = objects
  BY <1>1, <1>2, <1>3 DEF Held
<1>6. objects = [j \in Ids |-> IF j \in DOMAIN byId THEN Shown(byId[j].object) ELSE Absent]
  BY <1>1, ViewOfSound
<1> HIDE DEF o, id, objects
<1>7. id \in Ids /\ (o.type = "folder" => o.folder = NoFolder)
  BY <1>3, ObjectFacts DEF Fits
<1>8. Promise!Settled
  BY <1>1, <1>4 DEF Promise!Settled
<1>9. CASE o.text = Overlong
  <2>1. Shown(o) = Unreadable
    BY <1>3, <1>7, <1>9, ShownFacts
  <2>2. Promise!Spoil(id)
    BY <1>1, <1>2, <1>4, <1>5, <1>8, <2>1 DEF Promise!Spoil
  <2> QED BY <1>7, <2>2 DEF Promise!Next
<1>10. CASE o.text # Overlong
  <2>1. Shown(o) = o /\ o \in Promise!Readable
    BY <1>3, <1>7, <1>10, ShownFacts
  <2>2. ASSUME objects[id] \in Promise!Readable PROVE objects[id].type = o.type
    <3>1. id \in DOMAIN byId
      BY <1>6, <1>7, <2>2, ReadableFacts
    <3>2. objects[id] = byId[id].object
      BY <1>6, <1>7, <2>2, <3>1, ReadableFacts DEF Shown
    <3> QED BY <1>3, <3>1, <3>2 DEF Fits
  <2>3. ASSUME o.folder # NoFolder PROVE objects[o.folder] \in Promise!Folder \cup {Unreadable}
    <3>1. o.folder \in DOMAIN byId /\ byId[o.folder].object.type = "folder"
      BY <1>3, <2>3 DEF Fits
    <3>2. /\ o.folder \in Ids /\ byId[o.folder].object \in Objects
          /\ byId[o.folder].object.folder = NoFolder
      BY <1>1, <3>1, IndexFacts DEF Housed
    <3> QED BY <1>6, <3>1, <3>2, ShownFacts
  <2>4. Held'[id] = o /\ Held' = [objects EXCEPT ![id] = o]
    BY <1>5, <1>6, <1>7, <2>1
  <2>5. Promise!Store(id)
    BY <1>1, <1>2, <1>3, <1>4, <1>5, <1>8, <2>1, <2>2, <2>3, <2>4 DEF Promise!Store
  <2> QED BY <1>7, <2>5 DEF Promise!Next
<1> QED BY <1>9, <1>10

\* Dropping an object is the abstract Remove.
LEMMA DroppingRefines ==
  ASSUME IInv, Dropping
  PROVE  Promise!Next
<1>1. /\ phase = "ready" /\ saved.pages = mem /\ saved.byId = byId /\ pending = NoChange
      /\ IsFile(mem) /\ IsIndex(byId) /\ Sound(mem, byId) /\ SoundNow /\ relinked \in BOOLEAN
  BY DEF IInv, TypeOK, Good, SoundNow, Dropping, Ready, Consistent
<1>2. /\ HalfWay(byId, mem, mem', pending') /\ saved' = saved /\ phase' # "broken"
      /\ pending'.object = Absent
  BY <1>1, DroppingHalf DEF HalfDone
<1> DEFINE gone == pending'.id
           objects == View(mem, byId)
<1>3. Unused(byId, gone) /\ gone \in DOMAIN byId /\ pending' # NoChange
  BY <1>2, RecordAssumption DEF HalfWay, Unused
<1>4. Held = objects /\ View(saved.pages, saved.byId) = objects
  BY <1>1 DEF Held
<1>5. Held' = [objects EXCEPT ![gone] = Absent] /\ View(saved'.pages, saved'.byId) = objects
  BY <1>1, <1>2, <1>3 DEF Held
<1>6. objects = [j \in Ids |-> IF j \in DOMAIN byId THEN Shown(byId[j].object) ELSE Absent]
  BY <1>1, ViewOfSound
<1> HIDE DEF gone, objects
<1>7. gone \in Ids /\ byId[gone].object \in Objects
  BY <1>1, <1>3, IndexFacts
<1>8. objects[gone] # Absent
  BY <1>3, <1>6, <1>7, SpecialValues DEF Shown
<1>9. ASSUME NEW e \in Ids, objects[e] \in Promise!Entry
      PROVE  objects[e].folder # gone
  <2>1. objects[e] \in Promise!Readable
    BY <1>9 DEF Promise!Readable
  <2>2. e \in DOMAIN byId
    BY <1>6, <2>1, ReadableFacts
  <2>3. objects[e] = byId[e].object
    BY <1>6, <2>1, <2>2, ReadableFacts DEF Shown
  <2> QED BY <1>3, <2>2, <2>3 DEF Unused
<1>10. Promise!Settled
  BY <1>1, <1>4 DEF Promise!Settled
<1>11. Promise!Remove(gone)
  BY <1>1, <1>2, <1>4, <1>5, <1>8, <1>9, <1>10 DEF Promise!Remove
<1> QED BY <1>7, <1>11 DEF Promise!Next

\* What the program has does not change when the index store follows the data store.
LEMMA IndexedHeld ==
  ASSUME IInv, StoreIndexed \/ DropIndexed
  PROVE  /\ Held' = Held /\ View(saved'.pages, saved'.byId) = View(saved.pages, saved.byId)
         /\ phase # "broken" /\ phase' # "broken"
<1> DEFINE old == View(saved.pages, saved.byId)
           id == pending.id
<1>1. /\ phase = "indexing" /\ byId = saved.byId /\ relinked \in BOOLEAN
      /\ HalfWay(byId, saved.pages, mem, pending)
      /\ IsFile(saved.pages) /\ IsIndex(byId) /\ Sound(saved.pages, byId)
  BY DEF IInv, TypeOK, Good, Working, StoreIndexed, DropIndexed, IndexHalf
<1>2. old = [j \in Ids |-> IF j \in DOMAIN byId THEN Shown(byId[j].object) ELSE Absent]
  BY <1>1, ViewOfSound
<1>3. pending # NoChange /\ id \in Ids
  <2>1. \A c \in Changes : c.id \in Ids
    BY DEF Changes
  <2> QED BY <1>1, <2>1, RecordAssumption DEF HalfWay
<1>4. Held = [old EXCEPT ![id] = IF pending.object = Absent THEN Absent ELSE Shown(pending.object)]
  BY <1>3 DEF Held
<1>5. /\ SoundNow' /\ pending' = NoChange /\ saved' = saved /\ phase' # "broken"
      /\ \/ pending.object # Absent /\ pending.object.id = id /\ NowHolds(pending.object)
         \/ pending.object = Absent /\ NowLacks(id)
  BY <1>1, StoreIndexedSound, DropIndexedSound DEF HalfDone
<1>6. Held' = [j \in Ids |-> IF j \in DOMAIN byId' THEN Shown(byId'[j].object) ELSE Absent]
  <2>1. Held' = View(mem', byId')
    BY <1>5 DEF Held
  <2>2. IsFile(mem') /\ IsIndex(byId') /\ Sound(mem', byId')
    BY <1>5 DEF SoundNow
  <2> QED BY <2>1, <2>2, ViewOfSound
<1> HIDE DEF old, id
<1>7. CASE pending.object # Absent /\ pending.object.id = id /\ NowHolds(pending.object)
  <2>1. /\ DOMAIN byId' = DOMAIN byId \cup {id} /\ byId'[id].object = pending.object
        /\ \A j \in DOMAIN byId \ {id} : byId'[j] = byId[j]
    BY <1>7 DEF NowHolds
  <2>2. Held' = [old EXCEPT ![id] = Shown(pending.object)]
    BY <1>2, <1>3, <1>6, <2>1
  <2> QED BY <1>1, <1>4, <1>5, <1>7, <2>2 DEF old
<1>8. CASE pending.object = Absent /\ NowLacks(id)
  <2>1. DOMAIN byId' = DOMAIN byId \ {id} /\ \A j \in DOMAIN byId' : byId'[j] = byId[j]
    BY <1>8 DEF NowLacks
  <2>2. Held' = [old EXCEPT ![id] = Absent]
    BY <1>2, <1>3, <1>6, <2>1
  <2> QED BY <1>1, <1>4, <1>5, <1>8, <2>2 DEF old
<1> QED BY <1>5, <1>7, <1>8

\* A file with a part of an operation's pages shows the object that was being
\* changed damaged at worst, and the others as they were.
LEMMA TornRefines ==
  ASSUME IInv, CrashTorn
  PROVE  Promise!Next
<1>1. /\ phase \in {"indexing", "committing"} /\ mem' = disk /\ byId' \in Loadings(disk)
      /\ saved' = [pages |-> disk, byId |-> byId'] /\ phase' = "torn" /\ ~relinked
      /\ pending' = NoChange
  BY DEF CrashTorn, Opened, Working
<1>2. /\ saved'.pages = disk /\ saved'.byId = byId' /\ IsFile(disk)
      /\ Good(saved.pages, saved.byId) /\ SameUses(saved.pages, mem)
      /\ \A p \in Pages : disk[p] \in {mem[p], saved.pages[p]}
  BY <1>1 DEF IInv, TypeOK, Working
<1> DEFINE now == View(disk, byId')
           durable == View(saved.pages, saved.byId)
<1>3. PICK id \in Ids : /\ \A j \in Ids \ {id} : now[j] = durable[j]
                        /\ now[id] \in {durable[id], Held[id], Absent, Unreadable}
  <2>1. CASE phase = "committing"
    <3>1. Good(mem, byId) /\ pending = NoChange /\ Held = View(mem, byId)
      BY <2>1 DEF IInv, Consistent, Held
    <3>2. PICK id \in Ids : AgreeBut(id, byId, saved.byId)
      BY <2>1 DEF IInv, OneChange
    <3>3. Torn(id, disk, saved.pages, saved.byId, mem, byId)
      BY <1>2, <3>1, <3>2 DEF Torn, SameUses
    <3> HIDE DEF now, durable
    <3> QED BY <1>1, <3>1, <3>3, TornView DEF now, durable
  <2>2. CASE phase = "indexing"
    <3>1. byId = saved.byId /\ HalfWay(byId, saved.pages, mem, pending)
      BY <2>2 DEF IInv
    <3>2. pending.id \in Ids /\ pending # NoChange
      <4>1. \A c \in Changes : c.id \in Ids
        BY DEF Changes
      <4> QED BY <3>1, <4>1, RecordAssumption DEF HalfWay
    <3> DEFINE shown == IF pending.object = Absent THEN Absent ELSE Shown(pending.object)
    <3>3. Held[pending.id] = shown
      BY <3>2 DEF Held, View
    <3> HIDE DEF now, durable, shown
    <3>4. /\ \A j \in Ids \ {pending.id} : now[j] = durable[j]
          /\ now[pending.id] \in {durable[pending.id], Unreadable, shown}
      BY <1>1, <1>2, <3>1, <3>2, HalfTornView DEF now, durable, shown
    <3> QED BY <3>2, <3>3, <3>4
  <2> QED BY <1>1, <2>1, <2>2
<1>4. now = [durable EXCEPT ![id] = now[id]]
  <2>1. now = [j \in Ids |-> now[j]] /\ durable = [j \in Ids |-> durable[j]]
    BY DEF View
  <2> HIDE DEF now, durable
  <2> QED BY <1>3, <2>1
<1>5. Held' = now /\ View(saved'.pages, saved'.byId) = now
  BY <1>1, <1>2 DEF Held
<1>6. Promise!Tear(id)
  <2> HIDE DEF now
  <2> QED BY <1>1, <1>3, <1>4, <1>5 DEF Promise!Tear
<1> QED BY <1>6 DEF Promise!Next

\* The caller's view: what the program has, what it would have after a restart,
\* and whether the chains of the file hold together.
Seen == <<Held, View(saved.pages, saved.byId), phase # "broken">>

LEMMA InitRefines == Init => Promise!Init
<1> SUFFICES ASSUME Init PROVE Promise!Init
  OBVIOUS
<1>1. /\ saved.pages = mem /\ saved.byId = byId /\ DOMAIN byId = {} /\ phase = "ready"
      /\ pending = NoChange
  BY DEF Init
<1>2. View(mem, byId) = [id \in Ids |-> Absent]
  BY <1>1 DEF View, Get
<1> QED BY <1>1, <1>2 DEF Promise!Init, Held

LEMMA NextRefines == IInv /\ [Next]_vars => [Promise!Next]_Seen
<1> SUFFICES ASSUME IInv, [Next]_vars PROVE [Promise!Next]_Seen
  OBVIOUS
<1>1. CASE UNCHANGED vars
  BY <1>1 DEF vars, Seen, Held
<1>2. ASSUME phase = "committing", Unwritten = {}
      PROVE  disk = mem /\ Good(mem, byId) /\ pending = NoChange
  <2>1. disk = [p \in Pages |-> disk[p]] /\ mem = [p \in Pages |-> mem[p]]
    BY DEF IInv, TypeOK, IsFile
  <2>2. \A p \in Pages : mem[p] = disk[p]
    BY <1>2 DEF Unwritten
  <2> QED BY <1>2, <2>1, <2>2 DEF IInv, Consistent
<1>3. CASE WritePage
  BY <1>3 DEF WritePage, Seen, Held
<1>4. CASE PersistHeader
  <2>1. /\ phase = "committing" /\ Unwritten = {} /\ mem' = mem /\ byId' = byId
        /\ phase' = "ready" /\ pending' = pending /\ saved' = [pages |-> disk, byId |-> byId]
    BY <1>4 DEF PersistHeader
  <2>2. disk = mem /\ pending = NoChange /\ saved'.pages = mem /\ saved'.byId = byId
    BY <1>2, <2>1
  <2>3. Promise!Commit
    BY <2>1, <2>2 DEF Promise!Commit, Held
  <2> QED BY <2>3 DEF Promise!Next
<1>5. CASE Restart
  <2>1. /\ disk = saved.pages /\ Good(saved.pages, saved.byId) /\ phase # "broken"
        /\ Opened(saved.pages) /\ phase' = "ready"
    <3>1. CASE phase = "ready"
      <4>1. disk = mem /\ saved.pages = mem /\ saved.byId = byId /\ Good(mem, byId)
        BY <3>1 DEF IInv, Consistent
      <4> QED BY <1>5, <3>1, <4>1 DEF Restart
    <3>2. CASE Working /\ disk = saved.pages
      BY <1>5, <3>2 DEF IInv, Restart, Working
    <3> QED BY <1>5, <3>1, <3>2 DEF Restart
  <2>2. /\ mem' = saved.pages /\ byId' = saved.byId /\ pending' = NoChange
        /\ saved' = [pages |-> saved.pages, byId |-> saved.byId]
    BY <2>1, OpenedSound
  <2>3. saved'.pages = saved.pages /\ saved'.byId = saved.byId
    BY <2>2
  <2>4. Promise!Fail
    BY <2>1, <2>2, <2>3 DEF Promise!Fail, Held
  <2> QED BY <2>4 DEF Promise!Next
<1>6. CASE CrashAtHeader
  <2>1. phase = "committing" /\ Unwritten = {} /\ Opened(disk) /\ phase' = "ready"
    BY <1>6 DEF CrashAtHeader
  <2>2. disk = mem /\ Good(mem, byId) /\ pending = NoChange
    BY <1>2, <2>1
  <2>3. /\ mem' = mem /\ byId' = byId /\ pending' = NoChange
        /\ saved' = [pages |-> mem, byId |-> byId]
    BY <2>1, <2>2, OpenedSound
  <2>4. saved'.pages = mem /\ saved'.byId = byId
    BY <2>3
  <2>5. Promise!Commit
    BY <2>1, <2>2, <2>3, <2>4 DEF Promise!Commit, Held
  <2> QED BY <2>5 DEF Promise!Next
<1>7. CASE CrashTorn
  BY <1>7, TornRefines
<1>8. CASE CrashBroken
  <2>1. phase # "broken" /\ phase' = "broken"
    BY <1>8 DEF CrashBroken, Working
  <2>2. Promise!Break
    BY <2>1 DEF Promise!Break
  <2> QED BY <2>2 DEF Promise!Next
<1>9. CASE StoreIndexed \/ DropIndexed
  BY <1>9, IndexedHeld DEF Seen
<1>10. CASE Storing \/ Dropping
  BY <1>10, StoringRefines, DroppingRefines
<1>11. CASE Next
  <2>1. CASE Ready
    <3>1. SoundNow /\ Housed(byId)
      BY <2>1 DEF IInv, Ready, Consistent, Good, SoundNow
    <3> QED BY <1>3, <1>4, <1>5, <1>6, <1>7, <1>8, <1>9, <1>10, <1>11, <3>1, OperationCases
  <2>2. CASE ~Ready
    <3>1. \/ StoreIndexed \/ DropIndexed \/ WritePage \/ PersistHeader \/ Restart
          \/ CrashAtHeader \/ CrashTorn \/ CrashBroken
      BY <1>11, <2>2 DEF Next, AddEntry, UpdateEntry, CreateFolder, UpdateFolder, AddToFolder,
         DeleteEntry, DeleteFolder
    <3> QED BY <1>3, <1>4, <1>5, <1>6, <1>7, <1>8, <1>9, <3>1
  <2> QED BY <2>1, <2>2
<1> QED BY <1>1, <1>11

\* The engine implements the abstract vault for every set of ids, texts and pages:
\* one object changes at a time, durable at the header, undone before; a crash
\* within the commit damages no object but the changed one (VaultEngine.cpp:28).
THEOREM Refinement == Spec => VaultSpec
<1>1. Init => Promise!Init
  BY InitRefines
<1>2. IInv /\ [Next]_vars => [Promise!Next]_Seen
  BY NextRefines
<1> QED BY <1>1, <1>2, Invariance, PTL DEF Spec, VaultSpec, Promise!Spec, Seen

=============================================================================
