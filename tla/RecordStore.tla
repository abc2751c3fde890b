---------------------------- MODULE RecordStore ----------------------------
(***************************************************************************)
(* One SlottedManager over the pager: the index store of a vault, whose    *)
(* records are found again after a restart by scanning its chain of pages  *)
(* (src/src/managers/SlottedManager.cpp, IndexManager.cpp,                 *)
(* core/VaultLoader.cpp, commit and close in core/VaultEngine.cpp).        *)
(*                                                                         *)
(* "heap" is what the running program holds: the pages as its cache sees   *)
(* them, the dirty ones among them, the manager's tail and free-space map, *)
(* and the ids the allocator may hand out.  "disk" is what the file holds. *)
(* The order of the free ids is abstracted here (module Freelist has it).  *)
(*                                                                         *)
(* A record stands for its key and its length: an update that changes the  *)
(* contents changes the length.                                            *)
(***************************************************************************)
EXTENDS PageOps, FiniteSets

CONSTANTS
  Pages,    \* the page ids the file may grow to (the bound on the file)
  Root,     \* the manager's root page, never freed
  Keys,     \* the UUIDs of the entries and folders
  Sizes,    \* the lengths of the encoded records
  NoRef     \* no record

ASSUME StoreAssumption ==
  /\ Root \in Pages
  /\ NoPage \notin Pages
  /\ Sizes \subseteq Nat \ {0} /\ \A size \in Sizes : size < Word
  /\ NoRef \notin Pages \X (Nat \ {0})

VARIABLES
  heap,     \* the running program's pages and its manager's tables
  disk,     \* the pages of the file
  index,    \* BTreeIndex::byId restricted to LoadedIndexEntry::indexRef
  phase,    \* "ready", "changed" (an operation waits for its commit), "aborted",
            \* "overrun" (a record was copied past its page: the model stops)
  store,    \* history: the length each key was last given, 0 when deleted
  tainted   \* history: a deletion of the root's last record was lost

vars == <<heap, disk, index, phase, store, tainted>>

-----------------------------------------------------------------------------
\* The pages a walk along nextPage from page p visits.
Reach(pgs, p) ==
  {q \in Pages : \A S \in SUBSET Pages :
     (p \in S /\ \A r \in S : pgs[r].next # NoPage => pgs[r].next \in S)
       => q \in S}

Registered(h) == DOMAIN h.fs

\* registerPage and updatePageSpace: the map holds one entry for the page.
Record(fs, p, space) ==
  [q \in DOMAIN fs \cup {p} |-> IF q = p THEN space ELSE fs[q]]

Forget(fs, p) == [q \in DOMAIN fs \ {p} |-> fs[q]]

(* findPageWithSpace: lower_bound over the free-space map finds a page with *)
(* the least sufficient space; with none a new page is linked at the tail.  *)
Fitting(h, size) == {p \in Registered(h) : h.fs[p] >= size}

Candidates(h, size) ==
  IF Fitting(h, size) # {}
  THEN {p \in Fitting(h, size) : \A q \in Fitting(h, size) : h.fs[p] <= h.fs[q]}
  ELSE h.free

\* The new page n, linked behind the tail.
Linked(mem, tail, n) ==
  [mem EXCEPT ![n] = [NewPage EXCEPT !.prev = tail], ![tail].next = n]

\* Wrong: the old tail, which now points to n, is not marked dirty.
GrownTailClean(h, n) ==
  [mem  |-> Linked(h.mem, h.tail, n),      dirty |-> h.dirty \cup {n},
   fs   |-> Record(h.fs, n, FreeSpace(NewPage)),
   tail |-> n,                             free  |-> h.free \ {n}]

\* allocatePage and the linking of the page it returns.
Grown(h, n) ==
  [mem  |-> Linked(h.mem, h.tail, n),      dirty |-> h.dirty \cup {n, h.tail},
   fs   |-> Record(h.fs, n, FreeSpace(NewPage)),
   tail |-> n,                             free  |-> h.free \ {n}]

WithPage(h, p) == IF p \in Registered(h) THEN h ELSE Grown(h, p)

\* insertRecord on the page found; FALSE when the handler throws "page full".
CanPlace(h, p, size) == Accepts(WithPage(h, p).mem[p], size)

\* It does not throw because the needed space wrapped.
Overruns(h, p, size) == Wraps(WithPage(h, p).mem[p], size)

\* Wrong: the free-space map is not told.
PlacedUnrecorded(h, p, rec, size) ==
  LET g == WithPage(h, p)
  IN  [g EXCEPT !.mem[p] = Inserted(g.mem[p], rec, size),
                !.dirty  = @ \cup {p}]

Placed(h, p, rec, size) ==
  LET g  == WithPage(h, p)
      pg == Inserted(g.mem[p], rec, size)
  IN  [g EXCEPT !.mem[p] = pg,
                !.fs     = Record(@, p, FreeSpace(pg)),
                !.dirty  = @ \cup {p}]

-----------------------------------------------------------------------------
\* Wrong: the next page keeps its pointer back to p.
BypassedForward(mem, p) ==
  [q \in Pages |-> IF q = p               THEN FreedPage
                   ELSE IF q = mem[p].prev THEN [mem[q] EXCEPT !.next = mem[p].next]
                   ELSE mem[q]]

\* The neighbours of page p point past it, and p itself is released.
Bypassed(mem, p) ==
  [q \in Pages |-> IF q = p               THEN FreedPage
                   ELSE IF q = mem[p].prev THEN [mem[q] EXCEPT !.next = mem[p].next]
                   ELSE IF q = mem[p].next THEN [mem[q] EXCEPT !.prev = mem[p].prev]
                   ELSE mem[q]]

\* Wrong: a released tail is followed forward instead of back.
TailForward(h, p) == IF h.tail = p THEN h.mem[p].next ELSE h.tail

TailWithout(h, p) == IF h.tail = p THEN h.mem[p].prev ELSE h.tail

\* freeEmptyPage for a page other than the root.
Unlinked(h, p) ==
  [mem   |-> Bypassed(h.mem, p),
   dirty |-> h.dirty \cup ({p, h.mem[p].prev, h.mem[p].next} \ {NoPage}),
   tail  |-> TailWithout(h, p),
   fs    |-> Forget(h.fs, p),
   free  |-> h.free \cup {p}]

\* Wrong: a page whose first slot is deleted counts as empty.
ErasedFirstSlot(h, ref) ==
  LET p  == ref[1]
      pg == Removed(h.mem[p], ref[2])
      g  == [h EXCEPT !.mem[p] = pg]
  IN  IF 1 \in UsedSlots(pg) THEN [g EXCEPT !.fs    = Record(@, p, FreeSpace(pg)),
                                            !.dirty = @ \cup {p}]
      ELSE IF p = Root       THEN g
      ELSE Unlinked(g, p)

(* deleteRecord: the page is marked dirty only when it keeps a used slot or *)
(* is unlinked; an emptied root returns early and stays as clean as it was. *)
Erased(h, ref) ==
  LET p  == ref[1]
      pg == Removed(h.mem[p], ref[2])
      g  == [h EXCEPT !.mem[p] = pg]
  IN  IF UsedSlots(pg) # {} THEN [g EXCEPT !.fs    = Record(@, p, FreeSpace(pg)),
                                           !.dirty = @ \cup {p}]
      ELSE IF p = Root      THEN g
      ELSE Unlinked(g, p)

\* Wrong: the page of the overwritten record is not marked dirty.
RewrittenClean(h, ref, rec, size) ==
  LET p  == ref[1]
      pg == Overwritten(h.mem[p], ref[2], rec, size)
  IN  [h EXCEPT !.mem[p] = pg,
                !.fs     = Record(@, p, FreeSpace(pg))]

\* updateRecord when the record is overwritten in its slot.
Rewritten(h, ref, rec, size) ==
  LET p  == ref[1]
      pg == Overwritten(h.mem[p], ref[2], rec, size)
  IN  [h EXCEPT !.mem[p] = pg,
                !.fs     = Record(@, p, FreeSpace(pg)),
                !.dirty  = @ \cup {p}]

-----------------------------------------------------------------------------
\* loadFreeSpaceMap: the walk registers every page and ends at the tail.
LoadedHeap(pgs) ==
  [mem   |-> pgs,
   dirty |-> {},
   tail  |-> CHOOSE p \in Reach(pgs, Root) : pgs[p].next = NoPage,
   fs    |-> [p \in Reach(pgs, Root) |-> FreeSpace(pgs[p])],
   free  |-> Pages \ Reach(pgs, Root)]

\* VaultLoader::loadIndex and BTreeIndex::rebuild: a later slot of a key wins.
StoredAt(pgs, k) ==
  {r \in UNION {{p} \X UsedSlots(pgs[p]) : p \in Reach(pgs, Root)} :
     pgs[r[1]].slots[r[2]].rec = k}

Later(pgs, r, s) ==
  IF r[1] = s[1] THEN r[2] > s[2] ELSE r[1] \in Reach(pgs, s[1])

LoadedRefs(pgs, k) ==
  IF StoredAt(pgs, k) = {} THEN {NoRef}
  ELSE {r \in StoredAt(pgs, k) :
          \A s \in StoredAt(pgs, k) \ {r} : Later(pgs, r, s)}

SizeAt(pgs, r) == IF r = NoRef THEN 0 ELSE pgs[r[1]].slots[r[2]].size

-----------------------------------------------------------------------------
(* A vault just created: the root page allocated, committed and empty.      *)
Init ==
  /\ disk = [p \in Pages |-> IF p = Root THEN NewPage ELSE FreedPage]
  /\ heap = LoadedHeap(disk)
  /\ index = [k \in Keys |-> NoRef]
  /\ phase = "ready"
  /\ store = [k \in Keys |-> 0]
  /\ tainted = FALSE

\* Where a record of key k and this size goes in heap h.
Put(h, k, size) ==
  \E p \in Candidates(h, size) :
    /\ CanPlace(h, p, size) /\ ~ Overruns(h, p, size)
    /\ heap'  = Placed(h, p, k, size)
    /\ index' = [index EXCEPT ![k] = <<p, TargetSlot(WithPage(h, p).mem[p])>>]
    /\ store' = [store EXCEPT ![k] = size]
    /\ phase' = "changed"
    /\ UNCHANGED <<disk, tainted>>

(* The handler throws "page full".  Nothing catches it and the program ends *)
(* before its commit, so what it held in memory is never read again.        *)
PageFull(h, size) ==
  /\ \E p \in Candidates(h, size) : ~ CanPlace(h, p, size)
  /\ phase' = "aborted"
  /\ UNCHANGED <<heap, disk, index, store, tainted>>

(* The handler copies the record past the end of the page.  The copy faults *)
(* and ends the program, or it goes on over memory that is not the page's,  *)
(* and nothing is said any more.                                            *)
Overrun(h, size) ==
  /\ \E p \in Candidates(h, size) : CanPlace(h, p, size) /\ Overruns(h, p, size)
  /\ phase' \in {"aborted", "overrun"}
  /\ UNCHANGED <<heap, disk, index, store, tainted>>

(* A new entry or folder has a UUID never used before: a key stands for one *)
(* as long as no slot, in memory or in the file, still holds its record.    *)
Fresh(k) ==
  /\ index[k] = NoRef
  /\ \A p \in Pages : \A pg \in {heap.mem[p], disk[p]} :
       \A i \in UsedSlots(pg) : pg.slots[i].rec # k

\* IndexManager::insert: a new entry's record.
Insert(k, size) ==
  /\ phase = "ready" /\ Fresh(k)
  /\ \/ Put(heap, k, size)
     \/ PageFull(heap, size)
     \/ Overrun(heap, size)

SlotOf(h, ref) == h.mem[ref[1]].slots[ref[2]]

\* IndexManager::update when the record still fits its slot.
UpdateInPlace(k, size) ==
  /\ phase = "ready" /\ index[k] # NoRef
  /\ FitsInPlace(heap.mem[index[k][1]], index[k][2], size)
  /\ heap'  = Rewritten(heap, index[k], k, size)
  /\ store' = [store EXCEPT ![k] = size]
  /\ phase' = "changed"
  /\ UNCHANGED <<disk, index, tainted>>

\* Wrong: the old record is left in its slot.
RelocateKeepingOld(k, size) ==
  /\ phase = "ready" /\ index[k] # NoRef
  /\ ~ FitsInPlace(heap.mem[index[k][1]], index[k][2], size)
  /\ \/ Put(heap, k, size)
     \/ PageFull(heap, size)
     \/ Overrun(heap, size)

\* IndexManager::update when it does not: deleteRecord, then insertRecord.
Relocate(k, size) ==
  /\ phase = "ready" /\ index[k] # NoRef
  /\ ~ FitsInPlace(heap.mem[index[k][1]], index[k][2], size)
  /\ LET h == Erased(heap, index[k])
     IN  \/ Put(h, k, size)
         \/ PageFull(h, size)
         \/ Overrun(h, size)

\* IndexManager::remove.
Delete(k) ==
  /\ phase = "ready" /\ index[k] # NoRef
  /\ heap'  = Erased(heap, index[k])
  /\ index' = [index EXCEPT ![k] = NoRef]
  /\ store' = [store EXCEPT ![k] = 0]
  /\ phase' = "changed"
  /\ UNCHANGED <<disk, tainted>>

\* VaultEngine::commit, which ends every operation: Pager::flush.
Commit ==
  /\ phase = "changed"
  /\ disk' = [p \in Pages |-> IF p \in heap.dirty THEN heap.mem[p] ELSE disk[p]]
  /\ heap' = [heap EXCEPT !.dirty = {}]
  /\ phase' = "ready"
  /\ UNCHANGED <<index, store, tainted>>

\* The last record of the root was deleted and the file was never told.
Emptied ==
  /\ Root \notin heap.dirty
  /\ UsedSlots(heap.mem[Root]) = {} /\ UsedSlots(disk[Root]) # {}

(* Pager::evictOne between two page accesses: a dirty page is written, a    *)
(* clean one is dropped and the next getPage reads the file's copy.         *)
Evict(p) ==
  /\ phase \in {"ready", "changed"}
  /\ \/ /\ p \in heap.dirty
        /\ disk' = [disk EXCEPT ![p] = heap.mem[p]]
        /\ heap' = [heap EXCEPT !.dirty = @ \ {p}]
        /\ UNCHANGED tainted
     \/ /\ p \notin heap.dirty /\ heap.mem[p] # disk[p]
        /\ heap' = [heap EXCEPT !.mem[p] = disk[p]]
        /\ tainted' = (tainted \/ (p = Root /\ Emptied))
        /\ UNCHANGED disk
  /\ UNCHANGED <<index, phase, store>>

(* The vault is closed with nothing left to write, or the program has ended *)
(* on an exception, and the vault is opened again: every table is rebuilt   *)
(* from the pages of the file.                                              *)
Reopen ==
  /\ phase \in {"ready", "aborted"}
  /\ heap' = LoadedHeap(disk)
  /\ \E refs \in [Keys -> UNION {LoadedRefs(disk, k) : k \in Keys}] :
       /\ \A k \in Keys : refs[k] \in LoadedRefs(disk, k)
       /\ index' = refs
       /\ store' = [k \in Keys |-> SizeAt(disk, refs[k])]
  /\ phase' = "ready"
  /\ tainted' = (tainted \/ Emptied)
  /\ UNCHANGED disk

Next ==
  \/ \E k \in Keys, size \in Sizes :
       Insert(k, size) \/ UpdateInPlace(k, size) \/ Relocate(k, size)
  \/ \E k \in Keys : Delete(k)
  \/ \E p \in Pages : Evict(p)
  \/ Commit
  \/ Reopen

Spec == Init /\ [][Next]_vars

-----------------------------------------------------------------------------
Slot == [offset : 0..PageSize, size : Nat, used : BOOLEAN, rec : Keys]

PageType ==
  [kind : {"slotted", "free"}, next : Pages \cup {NoPage},
   prev : Pages \cup {NoPage}, lower : 0..PageSize, upper : 0..PageSize,
   slots : Seq(Slot)]

HeapType ==
  [mem : [Pages -> PageType], dirty : SUBSET Pages, tail : Pages,
   fs : UNION {[S -> 0..PageSize] : S \in SUBSET Pages}, free : SUBSET Pages]

Refs == Pages \X (Nat \ {0})

\* Type invariant.
TypeOK ==
  /\ heap \in HeapType
  /\ disk \in [Pages -> PageType]
  /\ index \in [Keys -> Refs \cup {NoRef}]
  /\ phase \in {"ready", "changed", "aborted", "overrun"}
  /\ store \in [Keys -> Nat]
  /\ tainted \in BOOLEAN

SpaceExact(h) ==
  /\ Registered(h) = Reach(h.mem, Root)
  /\ \A p \in Registered(h) : h.fs[p] = FreeSpace(h.mem[p])

Chained(h) ==
  /\ Root \in Registered(h) /\ h.mem[Root].prev = NoPage
  /\ h.tail \in Registered(h) /\ h.mem[h.tail].next = NoPage
  /\ Registered(h) \cap h.free = {}
  /\ \A p \in Registered(h) :
       LET next == h.mem[p].next
       IN  /\ h.mem[p].kind = "slotted"
           /\ next = NoPage => p = h.tail
           /\ next # NoPage => next \in Registered(h) /\ h.mem[next].prev = p

\* Reference r leads to a used slot with key k's record of length n.
Resolves(h, r, k, n) ==
  /\ r[1] \in Registered(h) /\ r[2] \in UsedSlots(h.mem[r[1]])
  /\ SlotOf(h, r).rec = k /\ SlotOf(h, r).size = n

(* The pages of the free-space map are exactly those a walk from the root   *)
(* finds, each with the space its page has: findPageWithSpace, which never  *)
(* looks at the pages, cannot choose a page that is unlinked or too small.  *)
FreeSpaceMapExact == SpaceExact(heap)

(* The chain stays doubly linked: freeEmptyPage, which trusts the two       *)
(* pointers of the page it unlinks, cuts out that page and no other, the    *)
(* tail is its last page, and no page of it is up for allocation.           *)
ChainSound == Chained(heap)

(* A reference kept in the index always leads to the record of its key with *)
(* the length last stored: no relocation, slot reuse, page release,         *)
(* eviction or restart leaves it pointing at another record.                *)
IndexResolves ==
  \A k \in Keys : index[k] # NoRef => Resolves(heap, index[k], k, store[k])

(* Until a deletion is lost on the root, every used slot of the chain is    *)
(* the one its key's index reference names: updates leave no second copy.   *)
NoOrphanSlot ==
  tainted \/ \A p \in Registered(heap) : \A i \in UsedSlots(heap.mem[p]) :
               index[heap.mem[p].slots[i].rec] = <<p, i>>

(* A page that is not dirty equals its copy in the file, so eviction loses  *)
(* nothing; the one exception is the root emptied by a deletion.            *)
CleanPagesMatchDisk ==
  \A p \in Pages \ heap.dirty :
    heap.mem[p] = disk[p] \/ (p = Root /\ UsedSlots(heap.mem[p]) = {})

(* Reopening the vault gives back exactly the records it held, also after   *)
(* an operation that ended the program with "page full": such an operation  *)
(* leaves no trace.  Lost deletions on the root are the exception.          *)
ReopenRestores == [][Reopen /\ ~ tainted' => store' = store]_vars

(* deleteEntry "permanently deletes an entry from both the index and disk": *)
(* a key deleted before the vault is closed is absent when it is reopened.  *)
DeleteIsPermanent ==
  [][Reopen => \A k \in Keys : store[k] = 0 => store'[k] = 0]_vars

(* SPECIFICATION.md:66: "When a slot is deleted, the SlottedPageHandler     *)
(* performs sliding compaction to defragment the page and recover contiguous*)
(* free space."  It never does: remove() only marks the slot, and a page    *)
(* that is chosen for a record later, a new one or one with a record just   *)
(* deleted to be relocated, has the space already if it has a deleted slot. *)
NoneCompacted(h) ==
  \A size \in Sizes : \A p \in Candidates(h, size) :
    ~ NeedsCompaction(WithPage(h, p).mem[p], size)

CompactionUnreached ==
  /\ NoneCompacted(heap)
  /\ \A k \in Keys : index[k] # NoRef => NoneCompacted(Erased(heap, index[k]))

=============================================================================
