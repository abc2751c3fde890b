------------------------------ MODULE PageOps ------------------------------
(***************************************************************************)
(* The slotted page as a value: what SlottedPageHandler does to the layout *)
(* of one Data or Index page (src/src/storage/page/SlottedPageHandler.cpp  *)
(* and SlottedLayout in PageLayout.h).                                     *)
(*                                                                         *)
(* A page is a record.  "lower" is the end of the header and slot array,   *)
(* "upper" the start of the payload area, "slots" the slot array (slot id  *)
(* 0 of the code is element 1 here).  Each slot also carries "rec", the    *)
(* record whose bytes were copied at its offset: the payload is a token.   *)
(***************************************************************************)
EXTENDS Integers, Sequences, FiniteSetsExt

CONSTANTS
  PageSize,     \* preamble.pageSize, 4096 in the program
  HeaderSize,   \* HEADER_SIZE, 25: the common page header
  SlotSize,     \* SLOT_SIZE, 5: one slot in the slot array
  Word,         \* 2^16: boundaries, lengths and their sums are uint16_t
  NoPage        \* INVALID_PAGE

ASSUME GeometryAssumption ==
  /\ PageSize \in Nat /\ HeaderSize \in Nat /\ SlotSize \in Nat
  /\ SlotSize > 0
  /\ HeaderSize + SlotSize <= PageSize
  /\ Word \in Nat /\ PageSize < Word

-----------------------------------------------------------------------------
\* A page just created by Pager::createPage for a Data or Index page.
NewPage ==
  [kind |-> "slotted", next |-> NoPage, prev |-> NoPage,
   lower |-> HeaderSize, upper |-> PageSize, slots |-> <<>>]

\* A page just released by Pager::freePage: a FreeLayout with a blank header.
FreedPage ==
  [kind |-> "free", next |-> NoPage, prev |-> NoPage,
   lower |-> 0, upper |-> 0, slots |-> <<>>]

FreeSpace(pg) == pg.upper - pg.lower

UsedSlots(pg)    == {i \in DOMAIN pg.slots : pg.slots[i].used}
DeletedSlots(pg) == {i \in DOMAIN pg.slots : ~ pg.slots[i].used}

-----------------------------------------------------------------------------
(* compact(): the used slots slide to the end of the page in the order of   *)
(* their offsets; deleted slots keep their stale offset.                    *)
BytesOf(pg, S) == MapThenSumSet(LAMBDA i : pg.slots[i].size, S)

AtOrAbove(pg, i) ==
  {j \in UsedSlots(pg) : pg.slots[j].offset >= pg.slots[i].offset}

Compacted(pg) ==
  [pg EXCEPT
    !.slots = [i \in DOMAIN pg.slots |->
                IF pg.slots[i].used
                THEN [pg.slots[i] EXCEPT
                        !.offset = PageSize - BytesOf(pg, AtOrAbove(pg, i))]
                ELSE pg.slots[i]],
    !.upper = PageSize - BytesOf(pg, UsedSlots(pg))]

-----------------------------------------------------------------------------
(* insert(): a deleted slot is reused when there is one, and only then the  *)
(* record costs no slot entry; the page is compacted when it is short.      *)
Entry(pg) == IF DeletedSlots(pg) = {} THEN SlotSize ELSE 0

\* Wrong: the new slot's own entry is not counted.
NeededForRecord(pg, size) == size % Word

\* The sum is kept in 16 bits.
Needed(pg, size) == (size + Entry(pg)) % Word

\* It does not fit into them: a record longer than the page then passes for
\* one that needs less than a slot entry.
Wraps(pg, size) == size + Entry(pg) >= Word

\* Wrong: a page without room is never compacted.
NeedsCompactionNever(pg, size) == FALSE

NeedsCompaction(pg, size) ==
  FreeSpace(pg) < Needed(pg, size) /\ DeletedSlots(pg) # {}

Prepared(pg, size) == IF NeedsCompaction(pg, size) THEN Compacted(pg) ELSE pg

\* FALSE is the "page full" exception.
Accepts(pg, size) == FreeSpace(Prepared(pg, size)) >= Needed(pg, size)

\* The slot id insert() returns: the first deleted slot, or a new one.
TargetSlot(pg) ==
  IF DeletedSlots(pg) = {} THEN Len(pg.slots) + 1 ELSE Min(DeletedSlots(pg))

\* Where the record is copied to: "upper" counts down in 16 bits as well.
WriteOffset(pg, size) == (pg.upper - size) % Word

\* The copy into the payload area and the slot entry, on a prepared page.
Write(pg, rec, size) ==
  LET slot == [offset |-> WriteOffset(pg, size), size |-> size,
               used |-> TRUE, rec |-> rec]
  IN  [pg EXCEPT
        !.upper = WriteOffset(pg, size),
        !.lower = IF DeletedSlots(pg) = {} THEN @ + SlotSize ELSE @,
        !.slots = IF DeletedSlots(pg) = {}
                  THEN Append(@, slot)
                  ELSE [@ EXCEPT ![TargetSlot(pg)] = slot]]

Inserted(pg, rec, size) == Write(Prepared(pg, size), rec, size)

(* update(): a record that is not longer is overwritten where it is, and    *)
(* the slot keeps only the new size; a longer one requires relocation.      *)
FitsInPlace(pg, i, size) == size <= pg.slots[i].size

Overwritten(pg, i, rec, size) ==
  [pg EXCEPT !.slots[i].size = size, !.slots[i].rec = rec]

\* remove(): the slot is only marked; neither boundary moves.
Removed(pg, i) == [pg EXCEPT !.slots[i].used = FALSE]

=============================================================================
