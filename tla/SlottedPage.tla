---------------------------- MODULE SlottedPage ----------------------------
(***************************************************************************)
(* One slotted page with its bytes: SlottedPageHandler on the page buffer  *)
(* (src/src/storage/page/SlottedPageHandler.cpp) and what writing the page *)
(* to the file does to that buffer (Pager::writePageToDisk with            *)
(* Serialization::serializeSlottedLayout).                                 *)
(*                                                                         *)
(* PageOps has the layout and the closed form of compaction; here the      *)
(* bytes are copied and slid one record after the other, as the code does. *)
(* A byte of a record is the pair of the record and the byte's place in it.*)
(***************************************************************************)
EXTENDS PageOps, SequencesExt

CONSTANTS
  Recs,       \* the records that are inserted
  Sizes,      \* their lengths
  MetaSize,   \* lower, upper and the slot count as stored: 6 bytes
  Junk        \* a byte no record has: header, slot array or zero fill

ASSUME RecordAssumption ==
  /\ Sizes \subseteq Nat \ {0} /\ \A size \in Sizes : size < Word
  /\ Junk \notin Recs /\ MetaSize \in Nat

VARIABLES
  page,       \* the layout: boundaries and slot array
  bytes,      \* Page::data
  squeezed,   \* history: the page was written with a gap below MetaSize
  wrapped     \* history: a record was placed whose needed space wrapped

vars == <<page, bytes, squeezed, wrapped>>

Offsets == 0 .. PageSize - 1

\* n bytes of record rec copied to offset at; those past the page are lost here.
Copied(buf, at, n, rec) ==
  [b \in Offsets |-> IF b \in at .. at + n - 1 THEN <<rec, b - at>> ELSE buf[b]]

-----------------------------------------------------------------------------
\* Wrong: the lowest record slides first, onto those above it.
DescendingAscending(pg) ==
  CHOOSE d \in SetToSeqs(UsedSlots(pg)) :
    \A m, n \in DOMAIN d : m < n => pg.slots[d[m]].offset <= pg.slots[d[n]].offset

\* compact() handles the used slots from the end of the page downwards.
Descending(pg) ==
  CHOOSE d \in SetToSeqs(UsedSlots(pg)) :
    \A m, n \in DOMAIN d : m < n => pg.slots[d[m]].offset >= pg.slots[d[n]].offset

\* One turn of its loop: memmove the bytes of slot i and enter its new offset.
Slid(st, i) ==
  LET slot == st.slots[i]
      at   == st.at - slot.size
  IN  [at    |-> at,
       slots |-> [st.slots EXCEPT ![i].offset = at],
       buf   |-> [b \in Offsets |->
                   IF b \in at .. at + slot.size - 1
                   THEN st.buf[slot.offset + (b - at)] ELSE st.buf[b]]]

SlidAll(pg, buf) ==
  FoldLeft(Slid, [at |-> PageSize, slots |-> pg.slots, buf |-> buf], Descending(pg))

CompactedPage(pg, buf)  == LET st == SlidAll(pg, buf)
                           IN  [pg EXCEPT !.slots = st.slots, !.upper = st.at]
CompactedBytes(pg, buf) == SlidAll(pg, buf).buf

-----------------------------------------------------------------------------
Init ==
  /\ page = NewPage
  /\ bytes = [b \in Offsets |-> <<Junk, 0>>]
  /\ squeezed = FALSE /\ wrapped = FALSE

\* insert() compacts a page that is short and has a deleted slot, and then
\* copies the record below "upper" or throws "page full".
Insert(rec, size) ==
  LET short == NeedsCompaction(page, size)
      pg    == IF short THEN CompactedPage(page, bytes) ELSE page
      buf   == IF short THEN CompactedBytes(page, bytes) ELSE bytes
  IN  /\ IF FreeSpace(pg) >= Needed(page, size)
         THEN /\ page'  = Write(pg, rec, size)
              /\ bytes' = Copied(buf, WriteOffset(pg, size), size, rec)
              /\ wrapped' = Wraps(page, size)
         ELSE page' = pg /\ bytes' = buf /\ UNCHANGED wrapped
      /\ UNCHANGED squeezed

\* Wrong: a record of any length is overwritten where it is.
UpdateAnyLength(i, rec, size) ==
  /\ i \in UsedSlots(page)
  /\ page'  = Overwritten(page, i, rec, size)
  /\ bytes' = Copied(bytes, page.slots[i].offset, size, rec)
  /\ UNCHANGED <<squeezed, wrapped>>

\* update() of a record that is not longer; a longer one changes nothing.
Update(i, rec, size) ==
  /\ i \in UsedSlots(page) /\ FitsInPlace(page, i, size)
  /\ page'  = Overwritten(page, i, rec, size)
  /\ bytes' = Copied(bytes, page.slots[i].offset, size, rec)
  /\ UNCHANGED <<squeezed, wrapped>>

\* remove().
Delete(i) ==
  /\ i \in UsedSlots(page)
  /\ page' = Removed(page, i)
  /\ UNCHANGED <<bytes, squeezed, wrapped>>

\* Wrong: the buffer is written with a slot array one entry too long.
SavedBytesLong(pg, buf) ==
  [b \in Offsets |->
    IF b < HeaderSize + MetaSize + SlotSize * (Len(pg.slots) + 1)
    THEN <<Junk, 0>> ELSE buf[b]]

(* writePageToDisk: the header, the two boundaries, the slot count and the  *)
(* slot array are copied over the start of the page's own buffer.  (They    *)
(* fit into the page unless it is filled by records of a byte or two.)      *)
SavedBytes(pg, buf) ==
  [b \in Offsets |->
    IF b < HeaderSize + MetaSize + SlotSize * Len(pg.slots)
    THEN <<Junk, 0>> ELSE buf[b]]

Save ==
  /\ HeaderSize + MetaSize + SlotSize * Len(page.slots) <= PageSize
  /\ bytes' = SavedBytes(page, bytes)
  /\ squeezed' = (squeezed \/ FreeSpace(page) < MetaSize)
  /\ UNCHANGED <<page, wrapped>>

\* A record placed by a wrapped sum was copied over memory behind the page: what
\* the program does after that is undefined, and the model stops.
Next ==
  /\ ~ wrapped
  /\ \/ \E rec \in Recs, size \in Sizes : Insert(rec, size)
     \/ \E i \in DOMAIN page.slots, rec \in Recs, size \in Sizes : Update(i, rec, size)
     \/ \E i \in DOMAIN page.slots : Delete(i)
     \/ Save

Spec == Init /\ [][Next]_vars

-----------------------------------------------------------------------------
Extent(slot) == slot.offset .. slot.offset + slot.size - 1

\* read(): the bytes the slot's offset and size select.
Read(i) == [j \in 0 .. page.slots[i].size - 1 |-> bytes[page.slots[i].offset + j]]

\* What was written there last.
Written(i) == [j \in 0 .. page.slots[i].size - 1 |-> <<page.slots[i].rec, j>>]

(* Type invariant, with the geometry every operation relies on: the slot    *)
(* array ends at "lower", and until a needed space wraps every payload      *)
(* begins in the page and the boundaries do not cross.                      *)
TypeOK ==
  /\ page.slots \in Seq([offset : Nat, size : Sizes, used : BOOLEAN, rec : Recs])
  /\ page.lower = HeaderSize + SlotSize * Len(page.slots)
  /\ page.upper \in Nat
  /\ wrapped \/ /\ page.lower <= page.upper /\ page.upper <= PageSize
                /\ \A i \in DOMAIN page.slots : page.slots[i].offset \in Offsets
  /\ bytes \in [Offsets -> (Recs \cup {Junk}) \X Nat]
  /\ squeezed \in BOOLEAN /\ wrapped \in BOOLEAN

(* No two records share a byte and none reaches below "upper" or past the   *)
(* page, whatever was overwritten, deleted, reused and slid before, until a *)
(* record is placed because its length and a slot entry exceed 16 bits.     *)
SlotsDisjoint ==
  wrapped \/
  \A i \in UsedSlots(page) :
    /\ Extent(page.slots[i]) \subseteq page.upper .. PageSize - 1
    /\ \A j \in UsedSlots(page) \ {i} :
         Extent(page.slots[i]) \cap Extent(page.slots[j]) = {}

(* Every used slot reads back the record last written to it, through any    *)
(* compaction and any write to the file, as long as the page was never      *)
(* written with less than MetaSize bytes of free space and no needed space  *)
(* wrapped.                                                                 *)
RecordsIntact ==
  squeezed \/ wrapped \/ \A i \in UsedSlots(page) : Read(i) = Written(i)

(* The record-by-record loop gives the layout PageOps states in one formula *)
(* and moves every record along unharmed.                                   *)
LoopCompacts ==
  wrapped \/
  LET pg  == CompactedPage(page, bytes)
      buf == CompactedBytes(page, bytes)
  IN  /\ pg = Compacted(page)
      /\ \A i \in UsedSlots(page) : \A j \in 0 .. page.slots[i].size - 1 :
           buf[pg.slots[i].offset + j] = bytes[page.slots[i].offset + j]

(* A page with a deleted slot turns a record away only when its records and *)
(* its slot array leave no room for it.                                     *)
RejectsOnlyWhenFull ==
  \A size \in Sizes :
    DeletedSlots(page) # {} /\ ~ Accepts(page, size) =>
      page.lower + BytesOf(page, UsedSlots(page)) + size > PageSize

(* "Free Space: the dynamic gap between the lower and upper boundaries. [..] *)
(* Data Payloads: [..] from the upper boundary downwards": what is stored   *)
(* besides the payloads ends at "lower", so writing the page harms none.    *)
PayloadsSurviveSave == wrapped \/ \A i \in UsedSlots(page) : Read(i) = Written(i)

=============================================================================
