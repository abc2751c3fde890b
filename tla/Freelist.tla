------------------------------ MODULE Freelist ------------------------------
(***************************************************************************)
(* Where page ids come from and how the released ones survive a restart:   *)
(* PageAllocator, Pager::allocatePage, freePage, persistFreelist, flush    *)
(* and loadFreelist (src/src/storage/page/PageAllocator.cpp, Pager.cpp)    *)
(* with the header's freelistRootPage (core/VaultEngine.cpp commit).       *)
(*                                                                         *)
(* "pager" is what the program holds, with "mem" the pages as its cache    *)
(* sees them; "disk" and "header" are what the file holds.  "owned" are    *)
(* the pages in the managers' chains, known to them also after a restart.  *)
(***************************************************************************)
EXTENDS Integers, SequencesExt

CONSTANTS
  MaxPages,     \* bound: the file never has more pages
  MaxPerPage,   \* FreelistLayout::maxFreePages, 508 in the program
  MaxFreed,     \* bound: pages released between two commits
  NoPage        \* INVALID_PAGE

ASSUME FreelistAssumption ==
  /\ MaxPages \in Nat /\ MaxPages >= 2
  /\ MaxPerPage \in Nat \ {0} /\ MaxFreed \in Nat
  /\ NoPage \notin Nat

Ids   == 0 .. MaxPages - 1
Roots == {0, 1}     \* the roots of the data and the index manager

VARIABLES
  pager,        \* free, nextPageId, allocated, newly, root, tail, mem, dirty
  disk,         \* the pages of the file
  header,       \* header.freelistRootPage in the file
  owned,        \* the pages the managers use
  phase,        \* "open", "failed" (openVault did not return)
  overflowed,   \* history: more ids had to be listed than one page takes
  lost          \* history: ids a restart found neither owned nor listed

vars == <<pager, disk, header, owned, phase, overflowed, lost>>

-----------------------------------------------------------------------------
\* Pager::createPage, as far as the freelist sees it.
Blank(kind) == [kind |-> kind, next |-> NoPage, ids |-> <<>>]

\* Wrong: takes the newest free id, while the oldest one leaves the list.
NextIdNewest(s) == IF s.free = <<>> THEN s.nextPageId ELSE Last(s.free)

\* PageAllocator::allocate: the oldest free id, else one more page of the file.
NextId(s) == IF s.free = <<>> THEN s.nextPageId ELSE Head(s.free)

\* Wrong: the id stays in the list of free ones.
AllocatedKeeping(s, kind) ==
  [s EXCEPT !.nextPageId = IF s.free = <<>> THEN @ + 1 ELSE @,
            !.allocated  = TRUE,
            !.mem[NextId(s)] = Blank(kind),
            !.dirty      = @ \cup {NextId(s)}]

\* Wrong: an allocation takes back one of the newly freed ids.
AllocatedUncounting(s, kind) ==
  [s EXCEPT !.free       = IF @ = <<>> THEN @ ELSE Tail(@),
            !.nextPageId = IF s.free = <<>> THEN @ + 1 ELSE @,
            !.newly      = IF s.free = <<>> THEN @ ELSE @ - 1,
            !.allocated  = TRUE,
            !.mem[NextId(s)] = Blank(kind),
            !.dirty      = @ \cup {NextId(s)}]

\* Pager::allocatePage.
Allocated(s, kind) ==
  [s EXCEPT !.free       = IF @ = <<>> THEN @ ELSE Tail(@),
            !.nextPageId = IF s.free = <<>> THEN @ + 1 ELSE @,
            !.allocated  = TRUE,
            !.mem[NextId(s)] = Blank(kind),
            !.dirty      = @ \cup {NextId(s)}]

\* Pager::freePage with PageAllocator::free.
Released(s, id) ==
  [s EXCEPT !.free    = Append(@, id),
            !.newly   = @ + 1,
            !.mem[id] = Blank("free"),
            !.dirty   = @ \cup {id}]

ReleasedAll(s, ids) == FoldLeft(Released, s, ids)

\* The ids of the freelist pages that start at page "from", in their order.
Chain(pages, from) ==
  LET walk[n \in Nat] ==
        IF n = 0 THEN IF from = NoPage THEN <<>> ELSE <<from>>
        ELSE LET c == walk[n - 1]
             IN  IF c = <<>> \/ pages[Last(c)].next = NoPage
                 THEN c ELSE Append(c, pages[Last(c)].next)
  IN  walk[MaxPages]

-----------------------------------------------------------------------------
(* flushAll writes the whole list.  The state of its loops is the pager s,  *)
(* the index of the next id to list, the first and the last page written.   *)

\* Up to MaxPerPage of the free ids, from position "at" (0-based) on.
Batch(s, at) ==
  SubSeq(s.free, at + 1,
         IF at + MaxPerPage < Len(s.free) THEN at + MaxPerPage ELSE Len(s.free))

\* The next batch goes to page id, linked behind the page written before it.
Listed(st, id) ==
  LET batch == Batch(st.s, st.at)
      back  == IF st.last = NoPage THEN {} ELSE {st.last}
  IN  [s     |-> [st.s EXCEPT
                   !.mem   = [q \in DOMAIN @ |->
                               IF q = id THEN [Blank("freelist") EXCEPT !.ids = batch]
                               ELSE IF q \in back THEN [@[q] EXCEPT !.next = id]
                               ELSE @[q]],
                   !.dirty = @ \cup {id} \cup back],
       at    |-> st.at + Len(batch),
       first |-> IF st.first = NoPage THEN id ELSE st.first,
       last  |-> id]

(* One turn of the loop that adds pages: the page comes from the front of   *)
(* the very list that is being written, which moves up by one.              *)
Extended(st, turn) ==
  IF st.at < Len(st.s.free)
  THEN Listed([st EXCEPT !.s = Allocated(@, "freelist")], NextId(st.s))
  ELSE st

\* How many pages of the old chain the list still needs.
Reused(s, chain) ==
  LET needed == (Len(s.free) + MaxPerPage - 1) \div MaxPerPage
  IN  IF needed < Len(chain) THEN needed ELSE Len(chain)

(* The pages of the old chain are filled first, then pages are added; what  *)
(* is left of the old chain is released after the list is complete.         *)
ListedAll(s) ==
  LET chain  == Chain(s.mem, s.root)
      n      == Reused(s, chain)
      filled == FoldLeft(Listed, [s |-> s, at |-> 0, first |-> NoPage, last |-> NoPage],
                         SubSeq(chain, 1, n))
      done   == FoldLeft(Extended, filled, [turn \in 1 .. Len(s.free) |-> turn])
  IN  ReleasedAll([done.s EXCEPT !.root = done.first, !.tail = done.last],
                  SubSeq(chain, n + 1, Len(chain)))

\* Wrong: with nothing to list the old list is left as it is.
UnlistedNot(s) == s

\* With nothing to list the whole chain is released.
Unlisted(s) ==
  [ReleasedAll(s, Chain(s.mem, s.root)) EXCEPT !.root = NoPage, !.tail = NoPage]

FlushedAll(s) == IF s.free = <<>> THEN Unlisted(s) ELSE ListedAll(s)

(* flushAppendOnly lists the newly freed ids on the last page, which is not *)
(* marked dirty by that.  A full page is followed by one taken from the     *)
(* front of the list; every such page is linked behind the tail the call    *)
(* began with, and a read past the shortened list yields a "stray" id.      *)
Appended(st, i) ==
  LET full == Len(st.s.mem[st.to].ids) = MaxPerPage
      new  == NextId(st.s)
      g    == IF full
              THEN [Allocated(st.s, "freelist") EXCEPT
                     !.mem[st.from].next = new, !.dirty = @ \cup {st.from}, !.tail = new]
              ELSE st.s
      to   == IF full THEN new ELSE st.to
      id   == IF i <= Len(g.free) THEN g.free[i] ELSE st.stray
  IN  IF i <= Len(st.s.free)
      THEN [st EXCEPT !.s = [g EXCEPT !.mem[to].ids = Append(@, id)], !.to = to]
      ELSE st

FlushedAppendOnly(s, stray) ==
  LET start == [s |-> s, from |-> s.tail, to |-> s.tail, stray |-> stray]
      new   == [i \in 1 .. s.newly |-> Len(s.free) - s.newly + i]
  IN  FoldLeft(Appended, start, new).s

\* persistFreelist.
Persisted(s, stray) ==
  LET listed == IF s.allocated \/ s.root = NoPage \/ s.tail = NoPage
                THEN FlushedAll(s) ELSE FlushedAppendOnly(s, stray)
  IN  IF s.allocated \/ s.newly > 0
      THEN [listed EXCEPT !.allocated = FALSE, !.newly = 0]
      ELSE s

-----------------------------------------------------------------------------
\* Wrong: the last page of the file is not counted.
PagesInShort(pages) == Max({p \in Ids : pages[p].kind # "none"})

\* The number of pages the length of the file amounts to.
PagesIn(pages) == 1 + Max({p \in Ids : pages[p].kind # "none"})

\* loadFreelist and the rest of the pager's constructor.
Loaded(pages, from) ==
  LET chain == Chain(pages, from)
  IN  [free       |-> FlattenSeq([i \in DOMAIN chain |-> pages[chain[i]].ids]),
       nextPageId |-> PagesIn(pages),
       allocated  |-> FALSE,
       newly      |-> 0,
       root       |-> from,
       tail       |-> IF chain = <<>> THEN NoPage ELSE Last(chain),
       mem        |-> pages,
       dirty      |-> {}]

\* A vault just created: two root pages and no free page.
Init ==
  /\ disk = [p \in Ids |-> IF p \in Roots THEN Blank("slotted") ELSE Blank("none")]
  /\ header = NoPage
  /\ pager = Loaded(disk, header)
  /\ owned = Roots
  /\ phase = "open"
  /\ overflowed = FALSE
  /\ lost = {}

Running == phase = "open" /\ ~ overflowed

\* SlottedManager::allocatePage.
Allocate ==
  /\ Running
  /\ NextId(pager) < MaxPages
  /\ pager' = Allocated(pager, "slotted")
  /\ owned' = owned \cup {NextId(pager)}
  /\ UNCHANGED <<disk, header, phase, overflowed, lost>>

\* SlottedManager::freeEmptyPage.
Free(id) ==
  /\ Running
  /\ id \in owned \ Roots
  /\ pager.newly < MaxFreed
  /\ pager' = Released(pager, id)
  /\ owned' = owned \ {id}
  /\ UNCHANGED <<disk, header, phase, overflowed, lost>>

Overflow(s) ==
  Len(s.free) > MaxPerPage + (IF s.root = NoPage THEN 1 ELSE 0)

\* Pager::flush, then the header: VaultEngine::commit.
Commit ==
  /\ Running
  /\ \E stray \in IF Overflow(pager) THEN Ids ELSE {NoPage} :
       LET s == Persisted(pager, stray)
       IN  /\ pager' = [s EXCEPT !.dirty = {}]
           /\ disk' = [p \in Ids |-> IF p \in s.dirty THEN s.mem[p] ELSE disk[p]]
           /\ header' = s.root
  /\ overflowed' = ((pager.allocated \/ pager.newly > 0) /\ Overflow(pager))
  /\ UNCHANGED <<owned, phase, lost>>

(* evictOne between two accesses, with the next access reading the page     *)
(* again: a dirty page is written, a clean one gives way to the file's copy.*)
Evict(p) ==
  /\ Running
  /\ \/ /\ p \in pager.dirty
        /\ disk'  = [disk EXCEPT ![p] = pager.mem[p]]
        /\ pager' = [pager EXCEPT !.dirty = @ \ {p}]
     \/ /\ p \notin pager.dirty /\ pager.mem[p] # disk[p]
        /\ pager' = [pager EXCEPT !.mem[p] = disk[p]]
        /\ UNCHANGED disk
  /\ UNCHANGED <<header, owned, phase, overflowed, lost>>

\* Nothing waits for a commit.
Committed == pager.dirty = {} /\ ~ pager.allocated /\ pager.newly = 0

ChainPages(s) == ToSet(Chain(s.mem, s.root))

\* The vault is closed and opened again.
Reopen ==
  /\ Running /\ Committed
  /\ pager' = Loaded(disk, header)
  /\ lost'  = (0 .. pager'.nextPageId - 1)
                \ (owned \cup ToSet(pager'.free) \cup ChainPages(pager'))
  /\ UNCHANGED <<disk, header, owned, phase, overflowed>>

(* The constructor walks the freelist before the members the walk uses      *)
(* (page size, cache, the allocator itself) are constructed.  With a page   *)
(* to read that is undefined; what a build shows, besides a walk that works *)
(* as intended, is a crash or an exception out of openVault.                *)
OpenFails ==
  /\ Running /\ Committed /\ header # NoPage
  /\ phase' = "failed"
  /\ UNCHANGED <<pager, disk, header, owned, overflowed, lost>>

Next ==
  \/ Allocate
  \/ \E id \in Ids : Free(id) \/ Evict(id)
  \/ Commit
  \/ Reopen
  \/ OpenFails

Spec == Init /\ [][Next]_vars

-----------------------------------------------------------------------------
Content ==
  [kind : {"slotted", "freelist", "free", "none"}, next : Ids \cup {NoPage}, ids : Seq(Ids)]

\* Type invariant.
TypeOK ==
  /\ DOMAIN pager = {"free", "nextPageId", "allocated", "newly", "root", "tail",
                     "mem", "dirty"}
  /\ pager.free \in Seq(Ids) /\ pager.nextPageId \in 0 .. MaxPages
  /\ pager.allocated \in BOOLEAN /\ pager.newly \in Nat
  /\ pager.root \in Ids \cup {NoPage} /\ pager.tail \in Ids \cup {NoPage}
  /\ pager.mem \in [Ids -> Content] /\ pager.dirty \in SUBSET Ids
  /\ disk \in [Ids -> Content] /\ header \in Ids \cup {NoPage}
  /\ owned \in SUBSET Ids /\ lost \in SUBSET Ids
  /\ phase \in {"open", "failed"} /\ overflowed \in BOOLEAN

(* Every page of the file has exactly one use: it is in a manager's chain,  *)
(* in the list of free ids (once), a page of the freelist, or was lost by a *)
(* restart.  So no allocation ever returns a page that is in use.           *)
EveryPageHasOneUse ==
  overflowed \/
    LET free == ToSet(pager.free)
        list == ChainPages(pager)
    IN  /\ Cardinality(free) = Len(pager.free)
        /\ owned \cap free = {} /\ owned \cap list = {} /\ free \cap list = {}
        /\ lost \cap (owned \cup free \cup list) = {}
        /\ owned \cup free \cup list \cup lost = 0 .. pager.nextPageId - 1

(* Once an operation is committed, the file's freelist is made of the same  *)
(* pages as the one in memory, holds no id twice, and lists free pages      *)
(* only: a restart cannot hand out a page that is in use.                   *)
FileListIsSafe ==
  (Committed /\ ~ overflowed) =>
    LET loaded == Loaded(disk, header)
    IN  /\ header = pager.root
        /\ ChainPages(loaded) = ChainPages(pager)
        /\ Cardinality(ToSet(loaded.free)) = Len(loaded.free)
        /\ ToSet(loaded.free) \subseteq ToSet(pager.free)

(* The number of pages found in the file at a restart is the number the     *)
(* allocator had given out, so it never gives out a page of the file anew.  *)
RestartCountsPages == [][Reopen => pager'.nextPageId = pager.nextPageId]_vars

\* What the managers rely on: see PageSupply.
Supply == INSTANCE PageSupply WITH
  All   <- Ids,
  Roots <- Roots,
  used  <- owned,
  avail <- ToSet(pager.free) \cup (pager.nextPageId .. MaxPages - 1)

\* The pager implements the page supply until the freelist overflows.
SupplySpec == Supply!Spec

\* openVault returns for a vault that was closed properly.
VaultOpensAgain == phase # "failed"

=============================================================================
