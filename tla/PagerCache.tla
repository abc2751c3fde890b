----------------------------- MODULE PagerCache -----------------------------
(***************************************************************************)
(* The pager's page cache, call by call: getPage, pin, unpin, allocatePage,*)
(* freePage, touch, evictOne, loadPage and flush of                        *)
(* src/src/storage/page/Pager.cpp, driven by the sequences of calls that   *)
(* the managers, the loader and persistFreelist make.                      *)
(*                                                                         *)
(* The contents of a page are abstracted to whether a copy of it, in the   *)
(* cache or in the file, is the current one.  A C++ reference to a cached  *)
(* page is valid until that page leaves the cache, even if it comes back.  *)
(***************************************************************************)
EXTENDS Integers, SequencesExt

CONSTANTS
  Pages,        \* the page ids of the file
  Roots,        \* the root pages of the two managers, never released
  CacheSize,    \* MAX_PAGE_CACHE_SIZE, 8 in the program
  NoPage        \* no page: the argument of a call that has none

ASSUME CacheAssumption ==
  /\ CacheSize \in Nat /\ CacheSize >= 2
  /\ Roots \subseteq Pages /\ NoPage \notin Pages

VARIABLES
  pager,      \* cache, lru (most recent first), mapped (the keys of lruMap),
              \* file (the state of each page in the file)
  used,       \* the pages that are in a chain of a manager or of the freelist
  plan,       \* the calls the running operation still makes
  refs,       \* the pages to which it holds a valid reference
  touched,    \* history: the pages it has accessed
  unmarked,   \* history: pages changed in the cache without the dirty flag
  phase       \* "run", or "threw" when the pager threw an exception

vars == <<pager, used, plan, refs, touched, unmarked, phase>>

Cached(s) == DOMAIN s.cache

With(cache, id, page) ==
  [q \in DOMAIN cache \cup {id} |-> IF q = id THEN page ELSE cache[q]]

Without(cache, id) == [q \in DOMAIN cache \ {id} |-> cache[q]]

-----------------------------------------------------------------------------
\* Wrong: a page that is found in the cache keeps its place.
TouchedOnce(s, id) ==
  IF s.cache[id].pins > 0 \/ id \in s.mapped THEN s
  ELSE [s EXCEPT !.lru = <<id>> \o @, !.mapped = @ \cup {id}]

\* touch(): to the front, unless the page is pinned.
Touched(s, id) ==
  IF s.cache[id].pins > 0 THEN s
  ELSE [s EXCEPT !.lru    = <<id>> \o RemoveFirst(@, id),
                 !.mapped = @ \cup {id}]

\* The places of the list where a page may be evicted.
Evictable(s) ==
  {i \in DOMAIN s.lru : s.lru[i] \in Cached(s) /\ s.cache[s.lru[i]].pins = 0}

\* writePageToDisk.
Written(s, id) ==
  [s EXCEPT !.cache[id].dirty = FALSE,
            !.file[id] = IF s.cache[id].current THEN "current" ELSE "stale"]

\* Wrong: the page is not written, dirty or not.
EvictedUnwritten(s) ==
  LET i == Max(Evictable(s))
  IN  [s EXCEPT !.cache  = Without(@, s.lru[i]),
                !.lru    = SubSeq(@, 1, i - 1),
                !.mapped = @ \ {s.lru[i]}]

(* evictOne(): what is popped off the back before the victim is found are   *)
(* pinned pages, which keep their entry in lruMap.                          *)
Evicted(s) ==
  LET i == Max(Evictable(s))
      g == IF s.cache[s.lru[i]].dirty THEN Written(s, s.lru[i]) ELSE s
  IN  [g EXCEPT !.cache  = Without(@, s.lru[i]),
                !.lru    = SubSeq(@, 1, i - 1),
                !.mapped = @ \ {s.lru[i]}]

Full(s) == Cardinality(Cached(s)) >= CacheSize

MadeRoom(s) == IF Full(s) THEN Evicted(s) ELSE s

\* Whether a page not in the cache can be added: else "no evictable pages".
HasRoom(s, id) == id \in Cached(s) \/ ~ Full(s) \/ Evictable(s) # {}

\* getPage() with loadPage().
Got(s, id) ==
  LET room == MadeRoom(s)
      page == [dirty |-> FALSE, pins |-> 0, current |-> s.file[id] = "current"]
  IN  IF id \in Cached(s) THEN Touched(s, id)
      ELSE Touched([room EXCEPT !.cache = With(@, id, page)], id)

\* loadPage() throws for a page the file has not got.
CanGet(s, id) == id \in Cached(s) \/ (HasRoom(s, id) /\ s.file[id] # "none")

Pinned(s, id) == [Got(s, id) EXCEPT !.cache[id].pins = @ + 1]

\* Wrong: counts below zero.
UnpinnedAlways(s, id) ==
  IF id \in Cached(s) THEN [s EXCEPT !.cache[id].pins = @ - 1] ELSE s

Unpinned(s, id) ==
  IF id \in Cached(s) /\ s.cache[id].pins > 0
  THEN [s EXCEPT !.cache[id].pins = @ - 1] ELSE s

\* allocatePage(): a new page object, also in place of a cached one.
Allocated(s, id) ==
  LET page == [dirty |-> TRUE, pins |-> 0, current |-> TRUE]
      room == IF id \in Cached(s) THEN s ELSE MadeRoom(s)
  IN  Touched([room EXCEPT !.cache = With(@, id, page),
                           !.file[id] = IF @ = "none" THEN @ ELSE "stale"], id)

\* A change made through a reference, with the dirty flag or without it.
Changed(s, id, flag) ==
  [s EXCEPT !.cache[id].dirty = @ \/ flag,
            !.file[id] = IF @ = "none" THEN @ ELSE "stale"]

\* freePage(): the page's object stays and gets new contents.
Freed(s, id) ==
  LET g == Got(s, id)
  IN  Unpinned([g EXCEPT !.cache[id] = [@ EXCEPT !.dirty = TRUE, !.current = TRUE],
                         !.file[id] = IF @ = "none" THEN @ ELSE "stale"], id)

CanFree(s, id) == CanGet(s, id) /\ Got(s, id).cache[id].pins <= 1

\* flush() after persistFreelist.
Flushed(s) ==
  [s EXCEPT !.cache = [id \in DOMAIN @ |-> [@[id] EXCEPT !.dirty = FALSE]],
            !.file  = [id \in Pages |->
                        IF id \in Cached(s) /\ s.cache[id].dirty
                        THEN Written(s, id).file[id] ELSE @[id]]]

-----------------------------------------------------------------------------
(* The operations, as the calls they make.  "change" and "slip" use the     *)
(* reference of the last getPage of that page; "slip" sets no dirty flag.   *)
Call(do, id) == [do |-> do, id |-> id]

Reading(p) == <<Call("get", p), Call("pin", p), Call("use", p), Call("unpin", p)>>

\* insertRecord, updateRecord in place, deleteRecord of one record of several.
Writing(p) == <<Call("get", p), Call("pin", p), Call("change", p), Call("unpin", p)>>

\* deleteRecord of the last record, as far as deleteRecord itself goes.
Emptying(p) == <<Call("get", p), Call("pin", p), Call("slip", p), Call("unpin", p)>>

\* The page n is linked behind the tail, which is pinned meanwhile.
Linking(n, tail) ==
  <<Call("get", tail), Call("pin", tail), Call("change", tail),
    Call("get", n), Call("pin", n), Call("change", n), Call("unpin", n),
    Call("unpin", tail)>>

\* Wrong: the tail stays pinned.
GrowingPinned(n, tail) ==
  <<Call("alloc", n)>> \o Writing(n) \o Front(Linking(n, tail))

\* allocatePage of the manager.
Growing(n, tail) == <<Call("alloc", n)>> \o Writing(n) \o Linking(n, tail)

\* A field of page p is set through the reference of a getPage.
Setting(p) == <<Call("get", p), Call("change", p)>>

\* freeEmptyPage, with the setting of the next page's field, if there is one.
Releasing(p, prev, nextSet) ==
  Emptying(p) \o <<Call("get", p)>> \o Setting(prev) \o nextSet \o <<Call("free", p)>>

\* persistFreelist writes page f and links it behind a page written before.
Relisting(f, prevSet) == Setting(f) \o prevSet

\* It appends to page last, and when that is full to a new page f.
Appending(last)         == <<Call("get", last), Call("slip", last)>>
AppendingPage(last, f)  ==
  <<Call("get", last), Call("alloc", f), Call("get", f), Call("change", f),
    Call("change", last), Call("change", f)>>

-----------------------------------------------------------------------------
(* deleteRecord: the page keeps a record, is the root, or is unlinked       *)
(* between a page before it and, unless it is the last one, a page after it.*)
DeletePlans(p) ==
  {Writing(p)} \cup
  (IF p \in Roots THEN {Emptying(p)}
   ELSE {Releasing(p, prev, <<>>) : prev \in used \ {p}} \cup
        {Releasing(p, r[1], Setting(r[2])) :
           r \in {r \in (used \ {p}) \X (used \ (Roots \cup {p})) : r[1] # r[2]}})

\* What ends with a record stored; a page just released may be given out again.
InsertPlans(released) ==
  {Writing(q) : q \in used \ released}
    \cup {Growing(n, tail) \o Writing(n) :
          n \in (Pages \ used) \cup released, tail \in used \ released}

Frees(calls) == {calls[i].id : i \in {j \in DOMAIN calls : calls[j].do = "free"}}

\* updateRecord: the look at the old slot, and a relocation if it is too short.
UpdatePlans ==
  UNION {UNION {{Reading(p) \o d \o i : i \in InsertPlans(Frees(d))} : d \in DeletePlans(p)} :
           p \in used}

(* loadFreeSpaceMap reads the next page's id after it has unpinned the page;*)
(* loadIndex and loadFreelist unpin what they have not pinned.              *)
LoadPlans ==
  {Reading(p) : p \in used}
    \cup {Append(Reading(p), Call("use", p)) : p \in used}
    \cup {<<Call("get", p), Call("use", p), Call("unpin", p), Call("use", p)>> : p \in used}

(* persistFreelist.  (Which of the pages other than the roots are the       *)
(* freelist's is left open.)                                                *)
PersistPlans ==
  LET lists == used \ Roots
      new   == Pages \ used
  IN  {<<>>}
        \cup {Relisting(f, <<>>) : f \in lists}
        \cup {Relisting(r[1], Setting(r[2])) : r \in {r \in lists \X lists : r[1] # r[2]}}
        \cup {<<Call("alloc", f)>> \o Relisting(f, <<>>) : f \in new}
        \cup {<<Call("alloc", f)>> \o Relisting(f, Setting(prev)) : f \in new, prev \in lists}
        \cup {<<Call("get", f), Call("free", f)>> : f \in lists}
        \cup {Appending(last) : last \in lists}
        \cup {AppendingPage(last, f) : last \in lists, f \in new}

\* Then every dirty page is written.
FlushPlans == {calls \o <<Call("flush", NoPage)>> : calls \in PersistPlans}

Plans ==
  LoadPlans \cup InsertPlans({}) \cup UpdatePlans \cup FlushPlans
    \cup UNION {DeletePlans(p) : p \in used}

-----------------------------------------------------------------------------
\* A vault just opened: its two roots are in the file.
Init ==
  /\ used = Roots
  /\ pager = [cache |-> [q \in {} |-> q], lru |-> <<>>, mapped |-> {},
              file |-> [q \in Pages |-> IF q \in Roots THEN "current" ELSE "none"]]
  /\ plan = <<>> /\ refs = {} /\ touched = {} /\ unmarked = {} /\ phase = "run"

Start ==
  /\ phase = "run" /\ plan = <<>>
  /\ plan' \in Plans
  /\ refs' = {} /\ touched' = {}
  /\ UNCHANGED <<pager, used, unmarked, phase>>

Doing(do) == phase = "run" /\ plan # <<>> /\ Head(plan).do = do

Id == Head(plan).id

\* The call leaves the pager as s and yields references to the pages in new.
Returns(s, new) ==
  /\ pager'   = s
  /\ plan'    = Tail(plan)
  /\ refs'    = (refs \cap Cached(s)) \cup new
  /\ touched' = touched \cup ({Id} \cap Pages)
  /\ UNCHANGED phase

Throws ==
  phase' = "threw" /\ UNCHANGED <<pager, used, plan, refs, touched, unmarked>>

Get ==
  /\ Doing("get")
  /\ \/ CanGet(pager, Id) /\ Returns(Got(pager, Id), {Id}) /\ UNCHANGED <<used, unmarked>>
     \/ ~ CanGet(pager, Id) /\ Throws

Pin ==
  /\ Doing("pin")
  /\ \/ CanGet(pager, Id) /\ Returns(Pinned(pager, Id), {}) /\ UNCHANGED <<used, unmarked>>
     \/ ~ CanGet(pager, Id) /\ Throws

Unpin ==
  /\ Doing("unpin") /\ Returns(Unpinned(pager, Id), {}) /\ UNCHANGED <<used, unmarked>>

Use ==
  /\ Doing("use") /\ Returns(pager, {}) /\ UNCHANGED <<used, unmarked>>

Alloc ==
  /\ Doing("alloc")
  /\ \/ /\ HasRoom(pager, Id) /\ Returns(Allocated(pager, Id), {})
        /\ used' = used \cup {Id} /\ unmarked' = unmarked \ {Id}
     \/ ~ HasRoom(pager, Id) /\ Throws

Free ==
  /\ Doing("free")
  /\ \/ /\ CanFree(pager, Id) /\ Returns(Freed(pager, Id), {})
        /\ used' = used \ {Id} /\ unmarked' = unmarked \ {Id}
     \/ ~ CanFree(pager, Id) /\ Throws

(* A change writes the whole page later on, with all that was changed before*)
(* and not marked, unless that had been lost already.                       *)
Change ==
  /\ Doing("change") /\ Id \in refs
  /\ Returns(Changed(pager, Id, TRUE), {})
  /\ unmarked' = IF pager.cache[Id].current THEN unmarked \ {Id} ELSE unmarked
  /\ UNCHANGED used

Slip ==
  /\ Doing("slip") /\ Id \in refs
  /\ Returns(Changed(pager, Id, FALSE), {})
  /\ unmarked' = IF pager.cache[Id].dirty THEN unmarked ELSE unmarked \cup {Id}
  /\ UNCHANGED used

Flush ==
  /\ Doing("flush") /\ Returns(Flushed(pager), {}) /\ UNCHANGED <<used, unmarked>>

\* The vault is closed, with all it had to write written, and opened again.
Reopen ==
  /\ phase = "run" /\ plan = <<>>
  /\ \A id \in Cached(pager) : ~ pager.cache[id].dirty
  /\ pager' = [pager EXCEPT !.cache = [q \in {} |-> q], !.lru = <<>>, !.mapped = {}]
  /\ refs' = {} /\ touched' = {}
  /\ UNCHANGED <<used, plan, unmarked, phase>>

Next ==
  \/ Start \/ Get \/ Pin \/ Unpin \/ Use \/ Alloc \/ Free \/ Change \/ Slip \/ Flush
  \/ Reopen

Spec == Init /\ [][Next]_vars

-----------------------------------------------------------------------------
\* Type invariant.
TypeOK ==
  /\ Cached(pager) \subseteq Pages /\ Cardinality(Cached(pager)) <= CacheSize
  /\ \A id \in Cached(pager) :
       pager.cache[id] \in [dirty : BOOLEAN, pins : Nat, current : BOOLEAN]
  /\ pager.lru \in Seq(Pages) /\ pager.mapped \in SUBSET Pages
  /\ pager.file \in [Pages -> {"none", "stale", "current"}]
  /\ used \in SUBSET Pages /\ refs \in SUBSET Pages
  /\ touched \in SUBSET Pages /\ unmarked \in SUBSET Pages
  /\ plan \in Seq([do : {"get", "pin", "unpin", "use", "alloc", "free", "change",
                         "slip", "flush"},
                   id : Pages \cup {NoPage}])
  /\ phase \in {"run", "threw"}

(* Eviction is invisible: a page in use is current in the cache, or in the  *)
(* file when it is not cached, and a clean one in both.  The exception are  *)
(* pages changed without the dirty flag.                                    *)
Transparent ==
  \A id \in used \ unmarked :
    /\ id \in Cached(pager) => pager.cache[id].current
    /\ pager.file[id] # "current" => id \in Cached(pager) /\ pager.cache[id].dirty

(* A reference is never used after its page has left the cache: pins, and   *)
(* where the code sets none the recency of the page, keep it there.         *)
ReferencesValid ==
  plan # <<>> /\ Head(plan).do \in {"use", "change", "slip"} => Id \in refs

(* Every cached page is on the list once, with an entry in lruMap to it: no *)
(* eviction ever pops a pinned page, which would leave a dangling iterator. *)
ListExact ==
  /\ IsInjective(pager.lru)
  /\ ToSet(pager.lru) = Cached(pager) /\ pager.mapped = Cached(pager)

(* No operation ends with a page pinned, so that eviction always finds a    *)
(* victim, a released page is not pinned, and no call throws.               *)
PinsReleased ==
  /\ phase # "threw"
  /\ plan = <<>> => \A id \in Cached(pager) : pager.cache[id].pins = 0

(* Eviction can always do its work and never does it to a page in use: the  *)
(* list and the pins are right together after every call of every operation.*)
EvictionSound == ListExact /\ PinsReleased

(* The pages an operation has accessed stay in the cache until it ends, as  *)
(* long as there are no more of them than the cache holds: to the file it   *)
(* is one step.                                                             *)
OperationKeepsPages ==
  Cardinality(touched) <= CacheSize => touched \subseteq Cached(pager)

=============================================================================
