# Vaultea in TLA+

Formal models of Vaultea, an encrypted vault kept in one file of slotted
pages: TLA+ modules translated from `src/src/`, TLC configurations that check
them on small instances, and TLAPS proofs for every size of the instance.

Paths below are relative to the repository's own `src/` directory, so
`managers/SlottedManager.cpp` is `src/src/managers/SlottedManager.cpp` in
`PROJECT.json`, which maps every definition to the lines it models.

## 1. The system

The program has one thread: a Qt front end calls `VaultEngine`, which runs each
operation to its end, commit included, before the next one starts. What makes
it hard is what lies between two calls: a cache of eight pages
that writes and forgets pages when it likes, a restart that rebuilds every
table from the file, exceptions that end the program in the middle of an
operation, a commit that is many writes, a lock timer that fires inside the
event loop of a modal dialog, and long sequences of legal calls.

| component | state | operations |
|---|---|---|
| slotted page (`storage/page/SlottedPageHandler`) | `lower`, `upper`, slot array, payload bytes | insert, read, update, remove, compact |
| slotted manager (`managers/SlottedManager`, one for data, one for the index) | root, tail, free-space map; chain of pages | insert, read, update (in place or relocating), delete; load at opening |
| index manager, loader, in-memory index (`managers/IndexManager`, `core/VaultLoader`, `index/BTreeIndex`) | `byId`, `byFolder`, two name maps | insert, update, remove, find, prefix search, rebuild |
| pager (`storage/page/Pager`, `PageAllocator`) | cache, LRU list, pins, dirty flags; free ids, next id, freelist pages | getPage, pin, allocate, free, evict, flush, persist and load the freelist |
| engine (`core/VaultEngine`) | header (roots, counters), key, open flag | create, open, close, verify password; entries and folders; commit after each change |
| storage engine (`storage/StorageEngine`) | one `fstream` | create, open, read, write, flush, size |
| codec, serialization, UUID, crypto (`pipeline`, `storage/UUID`, `crypto`) | key | encode, decode, compress, encrypt |
| user interface (`ui`) | current page, lock timer | the user's clicks, the timer |

How they interact. The engine stores an entry's payload with the data manager
and gets a `RecordRef` (page, slot); it stores an index record holding that
reference with the index manager, which keeps its own reference to the index
record in `byId`. Both managers ask the pager for pages and share its pool of
free ids. Every changing operation ends in `commit()`: write the freelist,
write the dirty pages, write the header. Opening reads the header, the
freelist, walks both chains for free space and decodes every index record.
Exceptions are caught nowhere: one ends the program without a commit.

What is correct, component by component:

* page: records never overlap, each reads back as written, through any
  overwrite, deletion, slot reuse, compaction and write to the file;
* manager: the chain is doubly linked from root to tail, the free-space map
  agrees with the pages, a page is never full when chosen because of a stale map;
* index: a reference leads to its key's current record; no record is left
  without a reference; reopening gives back what was stored;
* pager: a page has one use at a time; what the file lists as free is free; a
  clean page is what the file has;
* engine: operations are durable once committed and leave no trace otherwise;
  each object's two records and its index entry describe the same object;
* codec and formats: what is written reads back the same, what was cut is refused,
  the regions of the file keep their sizes;
* session: an open vault is the one asked for, its pages show what is in it, and
  one that is left alone gets locked.

`PROJECT.json` lists under `hazards` each place where one of these is at risk
and no ordinary test would see it, with the properties aimed at it.

## 2. The modules

    PageOps        one page's layout as a value: operators only
      ├─ RecordStore        a manager over pages, file, cache effects, restarts
      │    ├─ MCRecordStore        symmetry for TLC
      │    └─ RecordStoreProofs    the inductive invariant, its consequences, and reopening
      └─ SlottedPage        one page with its bytes
           ├─ MCSlottedPage        symmetry for TLC
           └─ SlottedPageProofs    no overlap, no loss, and the loop of compact()
    PageSupply     abstract: what the managers expect of the pager
      └─ Freelist           allocation, release, freelist pages; implements it
           └─ FreelistProofs       the one use of every page, and the refinement
    PagerCache     the page cache, call by call
      ├─ MCPagerCache       symmetry for TLC
      └─ PagerCacheProofs        every operation keeps its pages
    VaultIndex     the in-memory index under the engine's operations
      ├─ MCVaultIndex       names and symmetry for TLC
      └─ VaultIndexProofs        what searches find and a rebuild restores
    Vault          abstract: what the engine promises of a vault
      └─ VaultEngine        the engine over its two stores; implements it
           ├─ MCVaultEngine      symmetry for TLC
           └─ VaultEngineProofs       the invariant and the refinement
    Serialization, UUIDText   the byte formats and the text of a UUID: operators only
      └─ Codec              an object on its way to the disk and back
           └─ CodecProofs         what is read is what was written
    VaultSession   windows, dialogs, the lock timer; creating, opening, closing
      └─ VaultSessionProofs      the session's invariants

### PageOps

The code of `SlottedPageHandler` on the layout. A page is a record with
`lower`, `upper`, `slots` (slot id 0 is element 1), and the header's two links.
A slot has its offset, size, state, and `rec`, a token for the record whose
bytes were copied there. The 4096/25/5 of `Constants.h` are `PageSize`,
`HeaderSize` and `SlotSize`, and `Word` is 2^16: the space a record needs (`Needed`) and
`upper` are computed modulo `Word`, as the `uint16_t` of the code are, and `Wraps` says that
a sum did not fit. Encryption and encoding are abstracted: a record is a token and a length.

### RecordStore

One `SlottedManager` whose records are indexed and rediscovered at opening: the
index store. The data store runs the same code and differs only in who holds
the references (the index records instead of `byId`).

* `heap` is the running program: `mem` (pages as the cache sees them), `dirty`,
  `tail`, `fs` (the free-space map), `free` (ids the allocator may return).
* `disk` is the file. `index` is `byId`. `phase` says whether an operation
  waits for its commit, or the program was ended by an exception.
* `store` and `tainted` are history: the length each key was last given, and
  whether a deletion on the root has been lost (see section 4).

| action | code |
|---|---|
| `Insert` | `IndexManager::insert`: `findPageWithSpace`, linking a new page at the tail, the page's insert, `updatePageSpace` |
| `UpdateInPlace`, `Relocate` | `IndexManager::update` over `updateRecord`; the relocation deletes, possibly releasing the page, then inserts |
| `Delete` | `IndexManager::remove`: `deleteRecord`, `freeEmptyPage` |
| `PageFull` (a branch of the above) | the exception `"page full"`, which ends the program before the commit |
| `Overrun` (a branch of the above) | a record whose needed space wrapped is copied past its page: the program ends, or the model stops (`phase = "overrun"`) |
| `Commit` | `VaultEngine::commit`: every dirty page is written |
| `Evict` | `Pager::evictOne` plus the next `getPage`: dirty pages are written, clean ones replaced by the file's copy |
| `Reopen` | close or crash, then `loadFreeSpaceMap`, `loadIndex`, `rebuild` |

An operation is one action because nothing but evictions can happen inside it,
and an operation touches at most four pages while the cache keeps the eight
most recently used (`OperationKeepsPages` of `PagerCache`). `Evict` may hit any page between the operation and its
commit and at any other time, which is more than the LRU allows. The order of
the free ids is left open: any free page may be next. `Reopen` is an opening
that succeeds; whether it does is a matter of `Freelist`.

### SlottedPage

The same page with the buffer `Page::data`. A byte is a pair (record, place in
it). `compact()` is the code's loop, sliding one record after the other;
`Save` is `writePageToDisk`, which copies the header and the serialized layout
over the start of the page's own buffer. `squeezed` records that a page was
written while its gap was smaller than the stored layout's surplus, `wrapped` that a
record was placed because its length and a slot entry together exceed 16 bits; there the
model stops, since the copy runs over memory that is not the page's (section 4).

### PageSupply and Freelist

`PageSupply` says what a manager may expect: a page it is given is not in use
and is its own until given back. `Freelist` is `PageAllocator` with the pager's
`allocatePage`, `freePage`, `persistFreelist` (both ways of writing the list,
loop by loop), `loadFreelist` and the header's root of the freelist. It
implements `PageSupply` under the mapping `used <- owned`,
`avail <- free ids and pages the file has not grown to`.
`RecordStore` relies on that interface: `Grown` takes any page of `free` and
`Unlinked` returns one; it does not model a page going to the other manager,
which `PageSupply` allows only while this one does not use it.

`Freelist` stops at the first commit that has more ids to list than the
freelist pages take (`overflowed`): from there on the code's list is wrong
(section 4). A read past the end of the shortened list is a choice among all
ids (`stray`).

### PagerCache

The one module that looks inside an operation. `Plans` is the set of sequences
of pager calls that `SlottedManager`, `VaultLoader` and `persistFreelist` make;
`Start` picks one for any pages in use and each later action is one call: `Get`,
`Pin`, `Unpin`, `Alloc`, `Free`, `Flush`, or something done through a reference
without a call: `Use` (a read), `Change` (a change with the dirty flag set) and
`Slip` (a change without it, as on an emptied page or in `flushAppendOnly`).

* `pager` holds the members of `Pager`: `cache` with each page's dirty flag and
  pins, the list `lru`, and `mapped`, the keys of `lruMap`; and the file.
  `evictOne` is `Evicted`: it passes over pinned pages, which leave the list but
  not the map.
* Contents are abstracted to one bit per copy, current or stale: a change makes
  the cached copy current and the file's stale, writing copies the bit, loading
  copies it back. `unmarked` are the pages whose last change had no dirty flag.
* `refs` are the references the running operation can use: a page's reference is
  good until the page leaves the cache. `touched` are the pages it has accessed.

Which page is before or after which is left open, so more sequences are tried
than a chain allows. A released page may be the one allocated next, as when a
relocation empties a page and then needs one.

### VaultIndex

`BTreeIndex` with its four maps (`index`; a multimap is a bag of pairs), the
header's counters (`counts`), and the index records in the file. `file` gives the
record in each place, a place being one slot of one page in the order in which
`loadIndex` meets them, so that `Rebuilt` inserts them one after the other as
`rebuild` does. The actions are the engine's: `AddEntry`, `UpdateEntry`,
`AddToFolder`, `DeleteEntry`, `CreateFolder`, `UpdateFolder`, `DeleteFolder`, each with
its commit, and `Reopen`. `Put`, `Rewrite` and `Drop` are `IndexManager::insert`,
`update` and `remove`.

Which place a record gets is left open, and any deletion may be lost in the file
(`Deletions`), where the code loses those of the last record of the root: what
`RecordStore` shows about pages is an assumption here that is wider than the fact. A record
that moves leaves its old copy behind only while another record exists (`Relocations`):
a new page would be linked behind the root, which is then written, and any other page
has a record of its own.

A search is `FoundByName`: the ids of the pairs in the range (`Hits`), or no answer at all
when one of them is not in `byId`, where `byId.at` throws.
`doubled` tells that the last rebuild met two records of one id, `revived` that some
rebuild loaded a deleted one; the properties that such a file does break are stated
until then. The folder given to an entry is one the editor offers, which lists the
vault's folders when it opens and is left before a folder can be deleted.

Names are sequences of bytes, `normalize` and `nextPrefix` are the code's, and
`Before` is the order of `std::string`. The constants `UpperCase` and `CaseShift` stand
for `tolower`, `TopByte` for 255.

### Vault and VaultEngine

`Vault` is the promise: a function from ids to entries, folders, `Absent` or
`Unreadable`, changed one object at a time (`Store`, `Remove`, and `Spoil` for an
object too long to be stored whole), durable after `Commit`, back to what was durable
after `Fail`. `Tear` is a crash in the middle of a commit: it may leave the object
that was being changed in its old state, its new state, gone or unreadable, and no other
object touched. After `Break` nothing is promised.

`VaultEngine` implements it. A page is the store it belongs to and its slots; a slot
holds a data record (the object, or `Cut`) or an index record (the object's index part
and the reference to its data record). `mem` and `disk` are the pages in memory and in
the file, `byId` the index with both references, `pending` the change that the data store
has and the index store has not, `saved` (history) pages and index after the last whole
commit, `relinked` (history) whether a page was linked or released since. The mapping is
`objects <- Held`, what `getEntry` and `getFolder` return for every id (between the two
stores: what they returned before, with the change), `durable <- View(saved...)`,
`whole <- phase # "broken"`.

| action | code |
|---|---|
| `AddEntry`, `CreateFolder` | `StoreNew`: `dataManager->insert` |
| `UpdateEntry`, `UpdateFolder`, `AddToFolder` | `StoreAgain`: `dataManager->update`; `AddToFolder` reads the entry before |
| `DeleteEntry`, `DeleteFolder` | `Drop`: `dataManager->remove` |
| `StoreIndexed`, `DropIndexed` | `indexManager->insert`, `update` with the reference the data store moved to, `remove` |
| `WritePage` | one page of `Pager::flush`; or, while the index store is changed, an eviction of a page that the data store changed |
| `PersistHeader` | the end of `commit()`: the header, when all pages are written |
| `Restart` | closed, stopped from outside, or ended by an exception before a page was written; then opened again |
| `CrashAtHeader`, `CrashTorn`, `CrashBroken` | the program ends in the middle with pages of the operation in the file |

An engine operation is an operation of each manager. Each of them finds its pages in
the cache (`OperationKeepsPages`: at most five of eight), but the two together may use ten,
so pages of the first may be written by an eviction while the second one runs: a failure
there may find a part of the operation in the file.

A crash after a page was linked or released is `CrashBroken`, whichever pages are written by
then: a page that a relocation releases and takes again has the same use as before and
other neighbours, so its chain may be closed to a circle in the file. `relinked` is
therefore set by the step (`Insertions`, `Releases`) and not by comparing the pages.

The model stops in four phases: `lost` when the last record of a root is removed (the
deletion does not reach the file, which is the matter of `RecordStore`), `torn` and
`broken` after a crash between two page writes. A record that the handler copies past its
page is left to `SlottedPage`.

### Serialization, UUIDText and Codec

Every format is two lists of fields, as it is two functions in the code: the order
in which `serialize...` writes the members and the order in which `deserialize...` reads
them. `Serialize` and `Deserialize` interpret them byte by byte, with each count in
its width and each bounds check of a read. `WritePage` and `LoadPage` are the page image
of the pager, header and layout over the buffer. `UUIDText` is `random`, `toString` and
the loop of `fromString`.

`Codec` takes an object through it: `Edit` gives members other values, `SerializeIt`,
`EncodeIt` (compressor by size, encryption, blob), `CutRecord` (what a record longer than
16 bits can say loses when the manager stores it), `DecodeIt`, `DeserializeIt`.
Encrypted and compressed bytes are tokens that say what they are part of: a sealed text
opens with its nonce whole or not at all, a compressor's output opens to its input.

### VaultSession

What the user sees and does, and what the engine makes of it.

| variable | code |
|---|---|
| `files` | what is at each path: nothing, less than a preamble, a vault with its password and its flaws |
| `storage` | `StorageEngine::file`: the file it is open on, its error flag |
| `engine` | `opened`, `path`, `password` of `VaultEngine`, and the flaws of what it has in memory |
| `window` | the page on top of the `QStackedWidget`, `m_previousPage`, the stack of modal dialogs, whether the search field has a text |
| `timer` | `m_logoutTimer`: active, intervals left |
| `fresh` | history: the lists (vault page, folder page, the editor's folders) rebuilt since something in them may have gone |
| `form` | the editor: new or old, the kind loaded, and whose data each kind's fields hold |
| `program` | running or gone |

Each slot that is connected to a button, a list, the search field or the timer is an action
with the engine's calls it makes. `OpenVault` is `VaultEngine::openVault` with the stream it
leaves behind: a wrong password returns with the stream open. `HandleLogout` is run by
the button and by the timer, in whatever event loop runs: dialogs over the page stay open,
and their callers go on (`Accept`) or throw (`CallOnClosed`) when they are answered.
`Input` is an action under which no dialog is open, as modality has it. Vault contents
are left out, so whether a deletion is accepted is a choice.

What is wrong with a vault is not left out, because it ends the program. `Flaws` are those
the other modules show to be possible: a file that cannot be loaded (a commit or a creation
that stopped half way, an index record cut to 16 bits: `VaultEngine`), a data record that
cannot be read (cut, or gone), an id with two records, and in memory a name left over when
one with two records was deleted (`VaultIndex`). `Listing` says whether a list over such a vault can be
built: without a text `performSearch` reads all objects, so it throws exactly if one is
unreadable; with one it reads those that match, which may be any. `SaveEntry`,
`Accept`, `DeleteEntry` and `DeleteFolder` may add flaws when they commit, in the file as in
memory or in the file only. `CallCut` is a call that ends the program in the middle: `"page
full"`, a failing read or write, a kill; it may leave any flaw in the file.

## 3. The runs

| run | shows | instance |
|---|---|---|
| `RecordStore.cfg` | `TypeOK`, `FreeSpaceMapExact`, `ChainSound`, `IndexResolves`, `NoOrphanSlot`, `CleanPagesMatchDisk`, `ReopenRestores` | 3 pages of 9 bytes (header 1, slot 1), 2 keys, lengths 2, 3 and 14, 16 bits up to 15; 185,505 states |
| `SlottedPage.cfg` | `TypeOK`, `SlotsDisjoint`, `RecordsIntact`, `LoopCompacts`, `RejectsOnlyWhenFull` | a page of 10 bytes, 2 records, lengths 2, 5 and 14, 16 bits up to 15, layout surplus 2; 207,170 states |
| `Freelist.cfg` | `TypeOK`, `EveryPageHasOneUse`, `FileListIsSafe`, `RestartCountsPages`, `SupplySpec` (refinement of `PageSupply`) | 6 pages, 2 ids per freelist page, 2 releases between commits; 49,466 states |
| `PagerCache.cfg` | `TypeOK`, `Transparent`, `ReferencesValid`, `EvictionSound`, `OperationKeepsPages` | 4 pages, 2 of them roots, a cache of 3; 1,291,420 states |
| `VaultIndex.cfg` | `TypeOK`, `MapsMirror`, `SearchFindsAll`, `FoldersAndCountsExact`, `ReopenRestores` | 3 ids, 3 names over 4 bytes, 3 places in the file; 84,394 states |
| `VaultEngine.cfg` | `TypeOK`, `RefsSound`, `QueriesAgree`, `VaultSpec` (refinement of `Vault`) | 2 ids, 2 texts and one that is too long, 2 roots and 2 more pages of 2 slots; 924,514 states |
| `Codec.cfg` | `RoundTrip`, `TruncatedIsRefused`, `RegionsKeepTheirSize` | bytes 0 and 255, lists of up to 2 items, 2 members differing, pages of 48 bytes, compressors from 64 and from 72 bytes on; 148,434 states |
| `VaultSession.cfg` | `TypeOK`, `OpenVaultIsGuarded`, `PagesShowTheVault`, `WholeVaultIsListed`, `IdleVaultIsLocked` (liveness) | 2 paths, 2 passwords, 1 kind of entry, 2 intervals; 407,419 states |
| `RecordStoreDelete.cfg` | `DeleteIsPermanent` is violated | 2 pages |
| `SlottedPageMeta.cfg` | `PayloadsSurviveSave` is violated | as `SlottedPage.cfg`, lengths 2 and 3 |
| `FreelistOpen.cfg` | `VaultOpensAgain` is violated | as `Freelist.cfg` |
| `SessionPassword.cfg` | `RightPasswordOpens` is violated | 2 paths, 2 passwords, 2 kinds, 1 interval |

Bounds, and why they are enough.

* Three pages give the chain a root, a middle and a tail, so a release hits
  each of them, and the file runs out of pages. Nine bytes hold two records of
  length 3 exactly; two of length 2 leave two bytes, so the case occurs where the free
  space equals the record without its slot entry (and `"page full"` is thrown), as
  does growth past a page. Two keys let one key's slot be reused by the
  other; the lengths 2 and 3 give both kinds of update. Length 14 with `Word` 15 is a
  record that is longer than a page: it is refused where a slot can be reused and wraps
  where none can.
* A page of ten bytes holds three records of length 2, enough for a hole in the
  middle, reuse and compaction of two records over it, or one of length 5 with one of
  length 2; length 14 wraps. The surplus of 2 stands
  for the 6 bytes of `lower`, `upper` and the slot count.
* Two ids per freelist page and six pages make the list fill a page, shrink to
  none and overflow. `MaxPages` bounds the file, `MaxFreed` the releases
  between two commits; nothing else is bounded.
* A cache of three for four pages, where the program has eight: an operation of
  `PagerCache` accesses up to four pages, so it meets an eviction in nearly every
  call and sometimes evicts a page of its own. Up to two pages are pinned at a
  time, so a victim always exists. An operation of one manager accesses at most
  five pages, fewer than the program's cache holds; an operation of the engine is two of
  them, which `VaultEngine` allows for.
* Three ids are two entries in a folder, or an entry and two folders. The names have
  a capital letter, a prefix of another name, and the greatest byte at the end and
  alone, the two cases of the carry in `nextPrefix`. `CounterRange` is 4: three
  objects are counted without wrapping, and 0 - 1 wraps. `MaxStale` bounds the lost
  deletions to two at a time, and none is lost after one has come back.

* Two ids are an entry in a folder, two entries or two folders: every pair of
  objects whose references could be exchanged. Two pages besides the roots let each
  store grow and give a page to the other; two slots let a deleted one be
  reused and a record move inside its store. `Overlong` stands for every text
  whose record loses its end.
* `Bits` has the least and the greatest byte, so that a count and a member differ
  in every byte of their width. Two members are changed at a time because the faults
  aimed at exchange two; the samples of one member have distinct bytes. With 64 and 72
  for the compressors' limits (512 and 65536 in `DefaultCodec.cpp`) an entry reaches
  all three. A page of 48 bytes holds a layout and payload behind it.
* Two paths are the vault that was open and the one asked for; two passwords the
  right one and a wrong one. One kind of entry is enough for `FieldsAreOwn`, which speaks of
  the kind that was loaded, and each kind has its own fields (`PagesCorrect` is proved for
  all). `Patience` 2 separates a reset timer from one that runs on.

Keys, ids, and pages other than the roots, are symmetric: no definition orders them.
`RecordStore.cfg`, `SlottedPage.cfg`, `Freelist.cfg`, `VaultEngine.cfg` and two runs of the
same modules that end in a counterexample switch the deadlock check off where these models
stop: after a record was copied past its page, at the overflow of the freelist and after a failed
opening, and in the phases `lost`, `torn` and `broken`. The other runs check it.

Fairness. `VaultSession` assumes `WF(Tick)` and `WF(Timeout)`: time passes, and Qt
delivers a timer event that is due in whatever event loop runs, the main one or a
dialog's. Nothing is assumed of the user, whose actions are `UserActs`:
`IdleVaultIsLocked` says that either the user acts again and again or the vault is
locked in the end. The other modules assume no fairness: their operations end by
themselves and nothing has to happen unless the user asks for it.

## 4. What the checks found

Four runs end in a counterexample; each is a listed finding with the line.

* **A deletion on the root is not written** (`DeleteIsPermanent`). `deleteRecord` marks
  the page dirty only when it keeps a record; an emptied page goes to `freeEmptyPage`,
  which returns at once for the root. The last record of the root is deleted in memory
  only. `tainted` marks the runs where that loss has become real; `NoOrphanSlot` and
  `ReopenRestores` hold until then. An update that moves that record away loses its
  deletion the same way, and the file has the record twice.
* **A nearly full page damages its lowest record when written**
  (`PayloadsSurviveSave`): the stored layout is six bytes longer than `lower` accounts for.
* **Opening a vault that has a freelist page is undefined behaviour**
  (`VaultOpensAgain`): the pager reads the page while constructing its first members.
* **After a wrong password the right one ends the program** (`RightPasswordOpens`): the
  stream is still open, opening it again fails, and the first read throws.

What the passing properties had to leave out, and the branches the models had to have, tell
as much:

* A record of 65531 to 65535 bytes is copied past its page: the sum of its length and a new
  slot's entry wraps in 16 bits and passes the space check
  (`storage/page/SlottedPageHandler.cpp:39`). With a slot to reuse there is no sum, and the
  same record is refused. What the program does after the copy is undefined; the models of a
  page (`wrapped`) and of a store (`Overrun`) stop there, and the properties of `SlottedPage`
  are stated until then.
* One overlong object hides all. A record longer than 65535 bytes is stored without its end
  and committed; reading it throws, and so does every query that meets it
  (`core/VaultEngine.cpp:273`): `QueriesAgree` allows that. `VaultEngine.h:82` says of
  `getAllEntries` that it "Decrypts and returns all entries in the vault". The list of the
  vault page is one of these queries, so that the vault cannot be entered any more.
* A search can end the program. A file that has kept a deleted copy of a record is loaded with
  two records of one id, both in the name map; when the entry is deleted one stays, and a
  search meeting it throws at `byId.at` (`index/BTreeIndex.cpp:140`). `MapsMirror` and
  `SearchExact` are stated for files without doubles; `NoEntryHidden` says of all files that a
  search that returns hides nothing.
* `FileListIsSafe` says only that what the file lists as free is free, not that every
  free page is listed: ids appended to a clean freelist page, and freelist pages
  released while the list is written, are not in the file.
* `Freelist` ends at `overflowed`: once the list outgrows a page, the freelist takes its
  own pages from the list it is writing, and a page in use is listed as free.
* `Vault` has `Unreadable` objects and `Break`: a crash in the commit may leave an unreadable
  object. A crash after pages were linked or released leaves chains of two commits, or a circle.
* `WholeVaultIsListed` is what remains to be said of a vault with an unreadable record: the
  program does not show the rest as if it were all, it ends. Exceptions end it in many ways
  besides; each action of `VaultSession` that can has a branch for it.
* `ReopenRestores` (of the store and of the index) and `MapsMirror` are stated for files that
  have lost no deletion, `FoldersAndCountsExact` until a lost one has come back.
* `FieldsAreOwn` is about the kind of entry that was loaded: with another kind chosen
  for an old entry, the editor shows what it last held for that kind, of another
  entry or of a vault closed since.

Two divergences have no run. `SPECIFICATION.md:66` says that "when a slot is deleted, the
`SlottedPageHandler` performs sliding compaction to defragment the page and recover contiguous
free space". `remove` only marks the slot, and `compact()` is not reached later either, which
is proved (`NoCompaction`): a deleted record's space comes back only with its whole page, as
the free-space map is not changed by a deletion. And `SPECIFICATION.md:98` gives the nonce 24
bytes, the code 12, which is what `BlobWritten` has.

What holds in spite of all this is the larger part: see the passing runs. Two
things one might doubt when reading the code do not happen: `evictOne` would
leave a dangling iterator for a pinned page at the end of the list, but no
pinned page ever gets there (`ListExact`), and references kept across other
pager calls without a pin stay valid (`ReferencesValid`).

## 5. What is proved

Eight modules hold theorems. Each proves `Spec => []IInv` (`Invariance`) for an inductive
invariant `IInv` of its own, and the properties of the runs from it. They hold for every
value of the constants that meets the named assumption.

| module | theorem | statement |
|---|---|---|
| `RecordStoreProofs` | `TypeCorrect` | `Spec => []TypeOK` |
| | `SpaceCorrect` | `Spec => []FreeSpaceMapExact` |
| | `ChainCorrect` | `Spec => []ChainSound` |
| | `IndexCorrect` | `Spec => []IndexResolves` |
| | `CacheCorrect` | `Spec => []CleanPagesMatchDisk` |
| | `NoCompaction` | `Spec => []CompactionUnreached` |
| | `NoOrphans` | `Spec => []NoOrphanSlot` |
| | `ReopenCorrect` | `Spec => ReopenRestores` |
| `SlottedPageProofs` | `TypeCorrect` | `Spec => []TypeOK` |
| | `DisjointCorrect` | `Spec => []SlotsDisjoint` |
| | `IntactCorrect` | `Spec => []RecordsIntact` |
| | `LoopCorrect` | `Spec => []LoopCompacts` |
| | `RejectsCorrect` | `Spec => []RejectsOnlyWhenFull` |
| `FreelistProofs` | `TypeCorrect` | `Spec => []TypeOK` |
| | `UseCorrect` | `Spec => []EveryPageHasOneUse` |
| | `ListCorrect` | `Spec => []FileListIsSafe` |
| | `CountCorrect` | `Spec => RestartCountsPages` |
| | `Refinement` | `Spec => SupplySpec`, the refinement of `PageSupply` |
| `PagerCacheProofs` | `TypeCorrect` | `Spec => []TypeOK` |
| | `TransparentCorrect` | `Spec => []Transparent` |
| | `ReferencesCorrect` | `Spec => []ReferencesValid` |
| | `EvictionCorrect` | `Spec => []EvictionSound` |
| | `OperationCorrect` | `Spec => []OperationKeepsPages` |
| `VaultIndexProofs` | `TypeCorrect` | `Spec => []TypeOK` |
| | `MapsCorrect` | `Spec => []MapsMirror` |
| | `SearchCorrect` | `Spec => []SearchFindsAll` |
| | `FoldersCorrect` | `Spec => []FoldersAndCountsExact` |
| | `ReopenCorrect` | `Spec => []ReopenRestores` |
| `VaultEngineProofs` | `TypeCorrect` | `Spec => []TypeOK` |
| | `RefsCorrect` | `Spec => []RefsSound` |
| | `QueriesCorrect` | `Spec => []QueriesAgree` |
| | `Refinement` | `Spec => VaultSpec`, the refinement of `Vault` |
| `VaultSessionProofs` | `TypeCorrect` | `Spec => []TypeOK` |
| | `GuardCorrect` | `Spec => []OpenVaultIsGuarded` |
| | `PagesCorrect` | `Spec => []PagesShowTheVault` |
| | `ListedCorrect` | `Spec => []WholeVaultIsListed` |
| `CodecProofs` | `WrittenIsRead` | `Deserialize` gives back what `Serialize` wrote, for all fields and values |
| | `CutIsRefused` | `Deserialize` refuses what lost its end |
| | `RoundTripCorrect` | `Spec => []RoundTrip` |
| | `TruncatedCorrect` | `Spec => []TruncatedIsRefused` |
| | `RegionsCorrect` | `Spec => []RegionsKeepTheirSize` |

The assumptions: `GeometryAssumption` (the header and one slot fit into a page) and
`StoreAssumption` (the root is a page, lengths are positive, the two special values are
none of the others); `SlottedPage`'s `RecordAssumption` (lengths are positive, the junk byte is
no record's); `FreelistAssumption` (room for the two roots, a freelist page takes an id);
`CacheAssumption` (the cache takes two pages or more, the roots are
pages); `IndexAssumption` (names are strings of bytes, `tolower` of a byte is a byte, and a
file has fewer places for records than a 64-bit counter has numbers: each place takes
several bytes of a file whose offsets have 64 bits) and `VaultIndex`'s `RecordAssumption` (an
empty place is not a record); `VaultEngine`'s `EngineAssumption` and `RecordAssumption`, and
`SessionAssumption` (the two roots are two pages outside the pool, a page has a slot, there
is a kind of entry and some patience, special values are distinct from the ordinary ones);
and `CodecAssumption` (bytes are numbers below 256, two bytes count the items of a list,
and the longest list fits into a page behind its header).

### RecordStore

None of the invariants is inductive alone; `IInv` is the conjunction that is:

* `TypeOK`, which needs the next part: a page is written only if it `Accepts` the
  record and its length does not wrap, so that `upper` stays above `lower`, and the map must
  say what the page has.
* `HeapInv(heap)`: the chain is sound and the free-space map exact. A chosen page
  has at least the record's length of free space, so that with a deleted slot it
  needs no more and is never compacted; that is `CompactionUnreached`.
* `DiskInv(heap, disk)`: a clean page is the file's copy, except that the root may be
  emptied in memory only, and then it still has the file's links. It makes
  `Evict` and `Reopen` preserve the rest: what they read back is linked as memory is.
* `IndexResolves`, which needs the chain: a page with a used slot is not released,
  and a reference of another key survives the write of this one (`DistinctRefs`).
* When no operation waits for its commit, nothing is dirty, so that the file a
  `Reopen` reads is the whole of memory.

`Reach`, the pages a walk finds, is defined as the least set closed under `next`, so
no recursion is needed. `ReachLeast` is the tool: to show that something holds of
all registered pages, exhibit a set closed under `next`. It gives `Predecessor` (each
page but the root has exactly one), `NoTwoCycle`, and that unlinking a page leaves all
the others reachable (`UnlinkedHeap`). The least free slot exists by the
well-foundedness of `<` (`MinOfNats`). One lemma per operator (`GrownHeap`,
`UnlinkedHeap`, `PlacedHeap`, `ErasedHeap`, `RewrittenHeap`, `LoadedHeapInv`) says that
it preserves `HeapInv`; one lemma per action puts `IInv'` together.

Reopening. `NoOrphanSlot` is the converse of `IndexResolves`: every used slot of a
registered page is the reference of its key (`Owned`). It is inductive with
`DeletedHaveNoSize`, on top of `IInv`: `PlacedAddsOne` and `ErasedTakesOne` say which
slots an operation adds and takes, so that the reference that changes is the only one
concerned. `ReopenRestores` then compares two walks: nothing is dirty, so the pages of
the file differ from those of memory at most in the root's slots, their links agree, and
both walks find the same pages; by `Owned` a key is found in the file exactly where its
reference points, unless a deletion was lost, which `tainted` records.

### SlottedPage

`IInv` says in numbers what the properties say with sets of bytes: the slot array ends at
`lower`, and until a length has `wrapped`, `lower <= upper <= PageSize` (`Bounded`), the used slots lie between `upper` and the end of
the page and of any two one is `Below` the other (`Clear`), and unless `squeezed` each slot's
bytes are its record's (`Intact`). An insert takes the bytes just below `upper`
(`EnteredKeeps`), an update some of the bytes of the record it replaces
(`OverwrittenKeeps`), and `Save` writes only below `lower + MetaSize`, which
is free unless the page is squeezed.

The work is `compact()`. Its loop is a fold, which is unfolded into a sequence of turns
(`SlidTurns`: that the function behind the fold exists is shown by looking at the least number
of turns for which it would not). `SlidTo` is the loop's invariant after `k` turns: the first
`k` slots are packed from the end of the page down to `at`, each with its bytes; the
other slots and all bytes below `at` are as they were. A turn keeps it (`SlidTurn`)
because the next slot lies below those that were slid: it moves up, over
bytes that no later turn reads, and the order of the turns is what makes
that so (`Descending`, which exists because offsets differ, `SortedExists`). `CompactionIs`
collects what the whole loop does. That its result is the closed form of `PageOps` needs
the sum of sizes over a set: `BytesTake` shows that any element may be taken out first, though the
definition takes an arbitrary one. `RejectsOnlyWhenFull` follows: after compaction the free
space is what records and slot array leave.

### Freelist

`IInv` holds the types, and until the list has overflowed three more parts. `Uses`: each
page the allocator has given out is a manager's, free (and listed once), the freelist's
own, or lost, and only one of these. `List`: there is at most one freelist
page, in memory and in the file it lists free ids only, none of them freed since the last commit,
and it is not dirty between operations. `Pages`: the pages that exist are those below `nextPageId`, and
a clean page is the file's copy. Without `List` the rest is not inductive: a restart would load
pages in use as free ones.

As long as the list fits on a page, the chain of freelist pages is the root or nothing
(`ChainIs`). The two loops that write ids are unfolded turn by turn (`ExtendedTurns`,
`AppendedTurns`) as the one of `compact()` is. `persistFreelist` then has these cases, a lemma
each: nothing left to list, the list on the page there is, the list on a page taken
from the list itself, ids appended to the page, and either loop running over the page's end,
which sets `overflowed`. Only types and the pages' kinds are kept in that last case.

For the refinement, allocation is `Take`, a release is `Give`, and everything else is
`Housekeeping`, which leaves the managers' pages alone and makes no page in use available:
by `Uses`.

### PagerCache

The state invariant `Basic` says that the pager is `Sound` (list, map and cache have the
same pages, each once: no eviction ever passes over a pinned one) and that the pages
the operation has accessed come first in the list. What an eviction takes is then known: no
page but the first is pinned, so the victim is the last one (`VictimIsLast`), which the
operation has not accessed unless it has accessed more pages than the cache takes.

Whether a page is pinned depends on where in its operation the program is, so `IInv`
also speaks of the calls that are left. `Orderly` is a grammar of call sequences: a page
is used only right after a call that got or pinned it, a pin is followed by its unpin with
nothing but one use of the page or the work on one other page in between, and so on. Every operation of `Plans` is a concatenation of
closed blocks of that grammar (`OrderlyConcat`), and what remains after a call is
orderly again with the page added to what may be used (`OrderlyTail`). `persistFreelist`
in its appending form keeps a reference across calls without a pin; that case is a
second disjunct of the invariant (`Appendings`), in which no eviction can take the page
because each call between touches the same two. One lemma describes each pager call,
one lemma each action.

The theorem is for every cache of at least two pages, so for the program's eight.

### VaultIndex

Two facts do not concern steps at all. `RangeIsPrefix`: for all strings `p` and `s`, `s` lies
in the range from `p` up to `nextPrefix(p)` exactly if it starts with `p`, whatever
bytes `p` ends in; the order of strings is unfolded to the first place where they differ
(`LeavesAt`). `RebuiltIs`: what `rebuild` makes of the file. `Rebuilding` is defined
by recursion over the places; that the function exists is shown by extending one for `n - 1`
places by the next (`TurnsExist`), and what holds of it by looking at the least place where
it fails: after `n` places, `byId` has exactly the ids met so far, each with a reference to
one of its records, every entry of `byId` has its pairs in the multimaps, and if no id was
met twice the multimaps have nothing else, each pair once.

`IInv` says the same of the index at any time. A loaded id refers to the place that has its
record (`Filed`), so that different ids have different places and there are at most as many
ids as places: the counters cannot wrap. Its pairs are in the multimaps (`Reaches`), and
without `doubled` nothing else is (`Mirrors`). Until `revived`, folders of entries exist
(`Placed`) and the counters are right (`Counted`). `DeleteFolder` keeps `Placed` because its
check looks into `byFolder`, where by `Reaches` no entry of the folder can be missing.
With no lost deletion the records in the file are those of `byId`, one per id (`Restored`),
which is why `Reopen` gives back what was there.

### VaultEngine

`IInv` says that memory, and what the last whole commit saved, are each `Good`: the
pages hold only data and index records of their store's kind, the index has one entry
per id with two references, and each reference finds its record and each record is
referred to. Between the stores memory differs from the saved copy by the data record of
one object, while it commits by one object (`OneChange`); every
page of the file is one of the two. `SoundWith` and `SoundWithout` say that storing
and removing an object keep the correspondence.

For the refinement each action is mapped to a step of `Vault` or a stutter: the first
half of an operation to `Store`, `Remove` or `Spoil`, the second half and a page write to a
stutter, the header to `Commit`, a restart to `Fail`. The step that needs work is
`CrashTorn`: some pages of the file are new and some are old, and no page was linked or
released. Each record of another object is in the same place in both versions, so
the object that was being changed is the only one whose view can differ, and what its two
references find in the mixture is one of the four outcomes of `Tear`. Where pages were linked or
released the step is `Break`, after which `Vault` promises nothing.

### VaultSession

`IInv` is `TypeOK`, `OpenVaultIsGuarded` in three parts (`LockInv` and `PathInv` about windows,
timer and path, and the stream's), `PagesShowTheVault` and `WholeVaultIsListed`. The last one
needs a step for each way to the vault page: the list is built again with the flaws that
are there by then, and `Listing` has no answer but to throw.

### Codec

`Serialize` and `Deserialize` are loops over the fields of a format, and inside them loops
over the items of a list and over the bytes of a count; each is a recursive function. An
induction over such a loop is a set of numbers that has 0 and with each of its members the
next one (`UpTo`, from the well-foundedness of `<`). So every loop is first unfolded into its
turns, with a proof that the function exists (`TextExists`, `DeserializeTurns` and their like), and
then one lemma says what a turn does.

`WrittenIsRead` is the general statement. `Holds(data, at, s)`: the buffer has the bytes `s`
from `at` on, with anything before and behind. If it holds what `Serialize` makes of the
object, then after `i` fields the reader stands behind the first `i` parts and has exactly
their members (`Gathered`). It is for any list of fields, not only for the formats, and for
any values within what their counts can say: texts below 2^32 bytes, lists below 2^16 or
2^32 items. `CountRead` is the arithmetic under it, that two or four bytes say each number
below their limit. `CutIsRefused` is its counterpart: a buffer that ends inside the bytes of
the object ends inside those of one field, whose read throws, and nothing after it undoes that.

Each format's list that is read is shown to be the list that is written (`EntrySame`, `IndexSame`,
`HeaderSame`...), its member names distinct (`FormatSound`), and each value of the model
to fit its member (`TypedFits`). An entry, an index entry and a page are read in
two parts, the second chosen by a tag that the first has read (`ReadTwice`, `TypedTag`).
A page's layout is written over the buffer it will be read from, between the
header and the payload, and must reach neither (`WritesImage`, `LoadsImage`). The blob is itself such an
object, of a compressor's name, a length, a nonce and the sealed text: `DecodesBack` and `CutBlob`
apply the two theorems to it. The text of a UUID is followed
digit by digit: `TextSays` gives the place of every digit and dash, `ParseNext` reads one byte
from there.

`IInv` says at which stage the bytes are what: the serialized object while it is plain or opened,
one of its blobs, its image or its text on the disk, the beginning of a blob after a cut, and
the object itself when it was read. The three properties follow from it. Their
objects are those of the model, whose texts have two bytes at most; that texts of
any length come back too is `WrittenIsRead`.

### Only model-checked

The liveness property `IdleVaultIsLocked`, which is beyond the prover.

## 6. Not modelled

All modules of the plan exist, and every invariant and action property of the runs that
pass is proved.

Left out, and why:

* libsodium, LZ4 and Zstd are libraries; `Codec` states what their callers rely on. That
  a key check fits its password alone is assumed in `VaultSession`.
* Widgets, colours, icons, echo modes, wording, the list of URL rows, the clipboard and the
  validators of single fields: no state that anything else depends on.
* The contents of a vault in `VaultSession`, and bytes and links of pages in
  `VaultEngine`: each is the matter of another module. What is wrong with a vault is
  taken from there as `Flaws`.
* In `VaultEngine` a name and a payload are one text, so a record that is cut is never one
  whose name a search asks for; that a search may meet it is in `Listing` of `VaultSession`.
* A freelist of more than one page: `Freelist` stops when the code starts to list pages in
  use (`overflowed`), so nothing is said of how several freelist pages are linked,
  filled and released.
* What the program does after it has copied a record past a page.
* What the program does with a torn or broken vault after reopening it: the model shows what
  is in the file and stops.
* Failures to allocate memory. A failing read or write has the effect of a crash at that
  point: `CreateCut` and `CallCut` in `VaultSession`, the crashes of `VaultEngine`.
* `StorageEngine::append` and the hash of `UUID`, which no code depends on.
