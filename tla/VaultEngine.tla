---------------------------- MODULE VaultEngine ----------------------------
(***************************************************************************)
(* VaultEngine over its two stores (core/VaultEngine.cpp): every entry and *)
(* folder is a record of the data store and a record of the index store,   *)
(* which holds the reference to the first; the in-memory index holds the   *)
(* references to both.  An operation changes the data store in memory, then*)
(* the index store, then commit() writes the changed pages one by one, in  *)
(* any order, and the header last.  While the index store is changed the   *)
(* cache may already evict pages of the data store's change to the file.   *)
(* A crash may come anywhere.                                              *)
(*                                                                         *)
(* A page is its slots and the store it belongs to.  That chains are sound,*)
(* that the pages a manager operation changes are dirty and in the cache   *)
(* while it runs, and that a page has one use, is what RecordStore,        *)
(* PagerCache and Freelist show; where RecordStore shows otherwise, the    *)
(* last record of a root, this model stops ("lost"), and a record that the *)
(* handler copies past the end of its page is left to SlottedPage.  Names  *)
(* and folders are looked up in four maps, the matter of VaultIndex; here  *)
(* they are read off byId.                                                 *)
(***************************************************************************)
EXTENDS Naturals

CONSTANTS
  Ids, Texts, NoFolder,
  Overlong,           \* a text whose record is stored cut to its length mod 65536
  DataRoot, IndexRoot,
  Pool,               \* the pages besides the two roots
  SlotCount,          \* bound: slots of a page
  Empty,              \* a slot that is deleted or not there
  Cut,                \* a record that lost its end: decoding it throws
  Absent, Unreadable, \* what a caller sees of an object
  NoChange            \* no operation is between its stores

ASSUME EngineAssumption ==
  /\ DataRoot # IndexRoot /\ {DataRoot, IndexRoot} \cap Pool = {}
  /\ NoFolder \notin Ids /\ Overlong \notin Texts /\ SlotCount \in Nat \ {0}

VARIABLES
  mem,      \* the pages as the program has them
  disk,     \* the pages as the file has them
  byId,     \* the in-memory index
  pending,  \* the change made to the data store and not yet to the index store
  saved,    \* history: pages and index after the last complete commit
  relinked, \* history: a page was taken or released since then
  phase     \* between operations, in one, in its commit, or at an end of the model

vars == <<mem, disk, byId, pending, saved, relinked, phase>>

Roots == {DataRoot, IndexRoot}
Pages == Roots \cup Pool
Slots == 1..SlotCount
Refs == Pages \X Slots

Object(id, type, folder, text) == [id |-> id, type |-> type, folder |-> folder, text |-> text]

At(pages, ref) == pages[ref[1]].recs[ref[2]]
Put(pages, ref, rec) == [pages EXCEPT ![ref[1]].recs[ref[2]] = rec]

\* The records of an object in the two stores.
DataRecord(o) == IF o.text = Overlong THEN Cut ELSE o
IndexRecord(o, ref) == [object |-> o, ref |-> ref]

-----------------------------------------------------------------------------
(* The stores *)

NoRecords == [s \in Slots |-> Empty]
FreePage == [use |-> "free", recs |-> NoRecords]

\* Where a record may be inserted: in the first slot not in use of a page of the
\* store, or in a new page.  Which page has the space is left open.
Places(pages, use) ==
  {ref \in Refs :
     \/ /\ pages[ref[1]].use = use /\ At(pages, ref) = Empty
        /\ \A s \in 1 .. ref[2] - 1 : pages[ref[1]].recs[s] # Empty
     \/ pages[ref[1]].use = "free" /\ ref[2] = 1}

Inserted(pages, use, ref, rec) == Put([pages EXCEPT ![ref[1]].use = use], ref, rec)

\* insertRecord: a page that was free is linked behind the last one.
Insertions(pages, use, rec) ==
  {[pages |-> Inserted(pages, use, ref, rec), ref |-> ref,
    relinked |-> pages[ref[1]].use = "free"] : ref \in Places(pages, use)}

Empties(pages, ref) == Put(pages, ref, Empty)[ref[1]].recs = NoRecords

\* Wrong: an emptied root is released as well.
RemovedWithRoot(pages, ref) ==
  IF Empties(pages, ref) THEN [pages EXCEPT ![ref[1]] = FreePage] ELSE Put(pages, ref, Empty)

\* deleteRecord: an emptied page other than the root is released.
Releases(pages, ref) == Empties(pages, ref) /\ ref[1] \notin Roots

Removed(pages, ref) ==
  IF Releases(pages, ref) THEN [pages EXCEPT ![ref[1]] = FreePage] ELSE Put(pages, ref, Empty)

Removal(pages, ref) ==
  [pages |-> Removed(pages, ref), ref |-> ref, relinked |-> Releases(pages, ref)]

\* updateRecord: in place, or removed and inserted again, maybe in the very page
\* that was released, which is then the last of the chain.
Updates(pages, use, ref, rec) ==
  {[pages |-> Put(pages, ref, rec), ref |-> ref, relinked |-> FALSE]} \cup
  {[i EXCEPT !.relinked = @ \/ Releases(pages, ref)] :
     i \in Insertions(Removed(pages, ref), use, rec)}

\* loadIndex and rebuild: for each id one of the index records that name it.
Loadings(pages) ==
  LET found == {ref \in Refs : pages[ref[1]].use = "index" /\ At(pages, ref) # Empty}
      named(ref) == At(pages, ref).object.id
      choices == {c \in SUBSET found :
                    /\ \A ref \in found : \E one \in c : named(one) = named(ref)
                    /\ \A one, other \in c : named(one) = named(other) => one = other}
  IN  {[id \in {named(ref) : ref \in chosen} |->
          LET indexRef == CHOOSE ref \in chosen : named(ref) = id
          IN  [object |-> At(pages, indexRef).object, ref |-> At(pages, indexRef).ref,
               indexRef |-> indexRef]] :
         chosen \in choices}

-----------------------------------------------------------------------------
(* What the getters see *)

\* dataManager->read, decodeData and deserialize: they throw for a slot that is
\* deleted and for a record that is cut.
Data(pages, ref) ==
  IF pages[ref[1]].use = "data" /\ At(pages, ref) \notin {Empty, Cut}
  THEN At(pages, ref) ELSE Unreadable

\* getEntry, getFolder.
Get(pages, index, id) == IF id \in DOMAIN index THEN Data(pages, index[id].ref) ELSE Absent

View(pages, index) == [id \in Ids |-> Get(pages, index, id)]

Threw == {Unreadable}

\* One throwing record is the end of the whole call.
ReadAll(ids) ==
  LET read == {Data(mem, byId[id].ref) : id \in ids}
  IN  IF Unreadable \in read THEN Threw ELSE read

OfType(type) == {id \in DOMAIN byId : byId[id].object.type = type}
Entries == OfType("entry")
Folders == OfType("folder")
InFolder(folder) == {id \in Entries : byId[id].object.folder = folder}

GetAllEntries == ReadAll(Entries)
GetFolders == ReadAll(Folders)
GetByFolder(folder) == ReadAll(InFolder(folder))
SearchEntries(text) == ReadAll({id \in Entries : byId[id].object.text = text})
SearchFolders(text) == ReadAll({id \in Folders : byId[id].object.text = text})

-----------------------------------------------------------------------------
(* The two halves of an operation, "step" being what a manager's operation  *)
(* does to the pages.  The last record of a root that is gone ends the      *)
(* model: that page is not marked dirty.                                    *)

Lost(pages) == \E r \in Roots : pages[r].recs = NoRecords /\ disk[r].recs # NoRecords

Half(step, next) ==
  /\ mem' = step.pages
  /\ relinked' = (relinked \/ step.relinked)
  /\ phase' = IF Lost(step.pages) THEN "lost" ELSE next
  /\ UNCHANGED <<disk, saved>>

\* The data store is changed; the index store is to have this object, or none.
DataHalf(id, object, step) ==
  /\ pending' = [id |-> id, object |-> object, ref |-> step.ref]
  /\ UNCHANGED byId
  /\ Half(step, "indexing")

IndexHalf(index, step) ==
  /\ phase = "indexing" /\ pending' = NoChange
  /\ byId' = index
  /\ Half(step, "committing")

\* dataManager->insert.
StoreNew(o) ==
  \E step \in Insertions(mem, "data", DataRecord(o)) : DataHalf(o.id, o, step)

\* Wrong: the reference fetched before the data store moved the record is kept.
StoreAgainUnmoved(o) ==
  \E step \in Updates(mem, "data", byId[o.id].ref, DataRecord(o)) :
    DataHalf(o.id, o, [step EXCEPT !.ref = byId[o.id].ref])

\* dataManager->update, which returns where the record moved to.
StoreAgain(o) ==
  \E step \in Updates(mem, "data", byId[o.id].ref, DataRecord(o)) : DataHalf(o.id, o, step)

\* dataManager->remove.
Drop(id) == DataHalf(id, Absent, Removal(mem, byId[id].ref))

Indexed(o, ref, indexRef) ==
  [id \in DOMAIN byId \cup {o.id} |->
     IF id = o.id THEN [object |-> o, ref |-> ref, indexRef |-> indexRef] ELSE byId[id]]

\* indexManager->insert or update with the data store's reference.
StoreIndexed ==
  /\ pending # NoChange /\ pending.object # Absent
  /\ LET rec == IndexRecord(pending.object, pending.ref)
     IN  \E step \in IF pending.id \in DOMAIN byId
                     THEN Updates(mem, "index", byId[pending.id].indexRef, rec)
                     ELSE Insertions(mem, "index", rec) :
           IndexHalf(Indexed(pending.object, pending.ref, step.ref), step)

\* indexManager->remove.
DropIndexed ==
  /\ pending # NoChange /\ pending.object = Absent
  /\ IndexHalf([id \in DOMAIN byId \ {pending.id} |-> byId[id]],
               Removal(mem, byId[pending.id].indexRef))

-----------------------------------------------------------------------------
(* The operations *)

Ready == phase = "ready"
Fresh == Ids \ DOMAIN byId
Folding == Folders \cup {NoFolder}

AddEntry(id, folder, text) ==
  Ready /\ id \in Fresh /\ folder \in Folding /\ StoreNew(Object(id, "entry", folder, text))

UpdateEntry(id, folder, text) ==
  Ready /\ id \in Entries /\ folder \in Folding /\ StoreAgain(Object(id, "entry", folder, text))

CreateFolder(id, text) == Ready /\ id \in Fresh /\ StoreNew(Object(id, "folder", NoFolder, text))

UpdateFolder(id, text) ==
  Ready /\ id \in Folders /\ StoreAgain(Object(id, "folder", NoFolder, text))

\* Wrong: the index record keeps the old folder.
AddToFolderUnindexed(id, folder) ==
  /\ Ready /\ id \in Entries /\ folder \in Folders
  /\ Data(mem, byId[id].ref) # Unreadable
  /\ \E step \in Updates(mem, "data", byId[id].ref,
                         [Data(mem, byId[id].ref) EXCEPT !.folder = folder]) :
       DataHalf(id, byId[id].object, step)

\* Reads the entry first: with an unreadable one it throws.
AddToFolder(id, folder) ==
  /\ Ready /\ id \in Entries /\ folder \in Folders
  /\ Data(mem, byId[id].ref) # Unreadable
  /\ StoreAgain([Data(mem, byId[id].ref) EXCEPT !.folder = folder])

DeleteEntry(id) == Ready /\ id \in Entries /\ Drop(id)

DeleteFolder(id) == Ready /\ id \in Folders /\ InFolder(id) = {} /\ Drop(id)

-----------------------------------------------------------------------------
(* Commit and crash *)

Unwritten == {p \in Pages : mem[p] # disk[p]}
Working == phase \in {"indexing", "committing"}

\* Pager::flush, one page; or the cache evicts a page of the data store's change
\* while the index store is changed: the two together may use up to ten pages.
WritePage ==
  /\ Working
  /\ \E p \in Unwritten : disk' = [disk EXCEPT ![p] = mem[p]]
  /\ UNCHANGED <<mem, byId, pending, saved, relinked, phase>>

\* Wrong: the header is written while pages wait.
PersistHeaderEarly ==
  /\ phase = "committing"
  /\ phase' = "ready" /\ saved' = [pages |-> disk, byId |-> byId] /\ relinked' = FALSE
  /\ UNCHANGED <<mem, disk, byId, pending>>

\* The header, and the operation returns.
PersistHeader ==
  /\ phase = "committing" /\ Unwritten = {}
  /\ phase' = "ready" /\ saved' = [pages |-> disk, byId |-> byId] /\ relinked' = FALSE
  /\ UNCHANGED <<mem, disk, byId, pending>>

Opened(pages) ==
  /\ mem' = pages /\ disk' = pages
  /\ byId' \in Loadings(pages)
  /\ pending' = NoChange /\ relinked' = FALSE
  /\ saved' = [pages |-> pages, byId |-> byId']

\* The program ends and the vault is opened again: it was closed, stopped from
\* outside, or an exception ended it: a record did not fit into its page, maybe
\* after the data store was changed, or a record that is read is cut.  No page of
\* the operation is in the file.
Restart ==
  /\ phase = "ready" \/ (Working /\ disk = saved.pages)
  /\ Opened(disk)
  /\ phase' = "ready"

\* A crash when all pages are written and the header is not, which then says the
\* same as before: neither roots nor freelist have changed.
CrashAtHeader ==
  /\ phase = "committing" /\ Unwritten = {} /\ ~relinked
  /\ Opened(disk)
  /\ phase' = "ready"

\* The program ends with a part of the operation's pages in the file, none of
\* which was linked or unlinked.  What the program does with such a vault after
\* reopening it is left out.
CrashTorn ==
  /\ Working /\ disk # saved.pages /\ ~relinked
  /\ phase = "indexing" \/ Unwritten # {}
  /\ Opened(disk)
  /\ phase' = "torn"

\* The program ends before the header is written, with pages linked or unlinked:
\* the chains and the freelist of the file are of two commits, and a page that was
\* released and taken again can close a chain to a circle.
CrashBroken ==
  /\ Working /\ relinked
  /\ phase' = "broken"
  /\ UNCHANGED <<mem, disk, byId, pending, saved, relinked>>

Init ==
  /\ mem = [p \in Pages |-> IF p = DataRoot THEN [FreePage EXCEPT !.use = "data"]
                            ELSE IF p = IndexRoot THEN [FreePage EXCEPT !.use = "index"]
                            ELSE FreePage]
  /\ disk = mem
  /\ byId = [id \in {} |-> id]
  /\ pending = NoChange
  /\ saved = [pages |-> mem, byId |-> byId]
  /\ relinked = FALSE
  /\ phase = "ready"

Next ==
  \/ \E id \in Ids, folder \in Ids \cup {NoFolder}, text \in Texts \cup {Overlong} :
       AddEntry(id, folder, text) \/ UpdateEntry(id, folder, text)
  \/ \E id \in Ids, text \in Texts \cup {Overlong} : CreateFolder(id, text) \/ UpdateFolder(id, text)
  \/ \E id, folder \in Ids : AddToFolder(id, folder)
  \/ \E id \in Ids : DeleteEntry(id) \/ DeleteFolder(id)
  \/ StoreIndexed \/ DropIndexed
  \/ WritePage \/ PersistHeader \/ Restart \/ CrashAtHeader \/ CrashTorn \/ CrashBroken

Spec == Init /\ [][Next]_vars

-----------------------------------------------------------------------------
(* Properties *)

Objects == [id : Ids, type : {"entry", "folder"}, folder : Ids \cup {NoFolder},
            text : Texts \cup {Overlong}]
IndexRecords == [object : Objects, ref : Refs]
Changes == [id : Ids, object : Objects \cup {Absent}, ref : Refs]

\* The special values are none of the records.
ASSUME RecordAssumption ==
  /\ Empty # Cut /\ Absent # Unreadable
  /\ {Empty, Cut, Absent, Unreadable} \cap (Objects \cup IndexRecords) = {}
  /\ NoChange \notin Changes

PageType ==
  [use : {"data"}, recs : [Slots -> Objects \cup {Empty, Cut}]] \cup
  [use : {"index"}, recs : [Slots -> IndexRecords \cup {Empty}]] \cup {FreePage}

IsFile(pages) ==
  /\ pages \in [Pages -> PageType]
  /\ pages[DataRoot].use = "data" /\ pages[IndexRoot].use = "index"

IsIndex(index) ==
  /\ DOMAIN index \subseteq Ids
  /\ index \in [DOMAIN index -> [object : Objects, ref : Refs, indexRef : Refs]]

\* Type invariant.  The roots stay in their stores, a free page holds nothing.
TypeOK ==
  /\ IsFile(mem) /\ IsFile(disk) /\ IsIndex(byId)
  /\ saved = [pages |-> saved.pages, byId |-> saved.byId]
  /\ IsFile(saved.pages) /\ IsIndex(saved.byId)
  /\ pending \in Changes \cup {NoChange} /\ relinked \in BOOLEAN
  /\ phase \in {"ready", "indexing", "committing", "lost", "torn", "broken"}

Consistent == phase \in {"ready", "committing"}

\* Each reference leads to a record of its object, every record is some object's,
\* and no two objects share one.
Sound(pages, index) ==
  /\ \A id \in DOMAIN index :
       LET e == index[id]
       IN  /\ e.object.id = id
           /\ pages[e.ref[1]].use = "data" /\ At(pages, e.ref) = DataRecord(e.object)
           /\ pages[e.indexRef[1]].use = "index"
           /\ At(pages, e.indexRef) = IndexRecord(e.object, e.ref)
  /\ \A ref \in Refs :
       At(pages, ref) # Empty => \E id \in DOMAIN index : ref \in {index[id].ref, index[id].indexRef}
  /\ \A i, j \in DOMAIN index : i # j => index[i].ref # index[j].ref

\* Both stores and the in-memory index describe the same objects, and reopening
\* would load the same index (the data record is stored first and the reference
\* goes through two updates; VaultEngine.cpp:177, :223).
RefsSound == Consistent => Sound(mem, byId) /\ Loadings(mem) = {byId}

\* The queries, which look into the index, give what the data records say:
\* getByFolder the entries whose folder it is, the searches those with the text.
\* A record that cannot be read fails the queries that meet it, and no others.
QueriesAgree ==
  Consistent =>
    LET view == View(mem, byId)
        those(type) == {view[id] : id \in OfType(type)}
        Exact(answer, wanted, type) ==
          \/ answer = wanted
          \/ answer = Threw /\ Unreadable \in those(type)
    IN  /\ Exact(GetAllEntries, those("entry"), "entry")
        /\ Exact(GetFolders, those("folder"), "folder")
        /\ \A f \in Ids \cup {NoFolder} :
             Exact(GetByFolder(f), {o \in those("entry") \ {Unreadable} : o.folder = f}, "entry")
        /\ \A t \in Texts :
             /\ SearchEntries(t) = {o \in those("entry") \ {Unreadable} : o.text = t}
             /\ SearchFolders(t) = {o \in those("folder") \ {Unreadable} : o.text = t}

\* What a caller sees of an object that is stored.
Shown(o) == IF o.text = Overlong THEN Unreadable ELSE o

\* What the program has: between the stores, what it had with the change in it.
Held ==
  IF pending = NoChange THEN View(mem, byId)
  ELSE [View(saved.pages, saved.byId) EXCEPT
          ![pending.id] = IF pending.object = Absent THEN Absent ELSE Shown(pending.object)]

\* The engine implements the abstract vault: each operation changes one object,
\* is durable after its commit and undone by a failure before it; a crash in the
\* middle of the commit damages the object being changed and no other, and never
\* shows one object's data as another's (VaultEngine.cpp:28).
Promise == INSTANCE Vault WITH
  objects <- Held,
  durable <- View(saved.pages, saved.byId),
  whole   <- phase # "broken"

\* The refinement: see Vault.
VaultSpec == Promise!Spec
=============================================================================
