--------------------------- MODULE Serialization ---------------------------
(***************************************************************************)
(* The byte formats of pipeline/Serialization.cpp.                         *)
(*                                                                         *)
(* An object is a function from the names of its members to their values.  *)
(* A member of a fixed width is the bytes that memcpy takes, a text is its *)
(* characters, a list is a sequence of texts or of objects.  Every format  *)
(* is two lists of fields, as it is two functions in the code: the order   *)
(* in which serialize... writes the members and the order in which         *)
(* deserialize... reads them.                                              *)
(***************************************************************************)
EXTENDS Naturals, Sequences

\* A field: the fixed ones have a width in bytes, a text its length in four
\* bytes before it, a list its length in `width` bytes and then its items.
Fixed(name, width) == [name |-> name, form |-> "fixed", width |-> width, item |-> <<>>]
Text(name) == [name |-> name, form |-> "text", width |-> 4, item |-> <<>>]
ListOf(name, width, item) == [name |-> name, form |-> "list", width |-> width, item |-> item]

FixedFields(names, width) == [i \in DOMAIN names |-> Fixed(names[i], width)]
Texts(names) == [i \in DOMAIN names |-> Text(names[i])]

-----------------------------------------------------------------------------
(* Writing *)

\* A count of `width` bytes on a little-endian machine, cut to that width.
Count(n, width) == [i \in 1 .. width |-> (n \div 256 ^ (i - 1)) % 256]
Number(bytes) ==
  LET upTo[i \in 0 .. Len(bytes)] == IF i = 0 THEN 0 ELSE upTo[i - 1] + bytes[i] * 256 ^ (i - 1)
  IN  upTo[Len(bytes)]

Prefixed(field, value) ==
  IF field.form = "fixed" THEN value ELSE Count(Len(value), field.width) \o value

\* The fields of one object one after the other, and the items of a list.
WriteItem(item, value) ==
  LET out[i \in 0 .. Len(item)] ==
        IF i = 0 THEN <<>> ELSE out[i - 1] \o Prefixed(item[i], value[item[i].name])
  IN  out[Len(item)]

WriteField(field, value) ==
  IF field.form # "list" THEN Prefixed(field, value)
  ELSE LET out[i \in 0 .. Len(value)] ==
             IF i = 0 THEN Count(Len(value), field.width)
             ELSE out[i - 1] \o WriteItem(field.item, value[i])
       IN  out[Len(value)]

Serialize(fields, object) ==
  LET out[i \in 0 .. Len(fields)] ==
        IF i = 0 THEN <<>> ELSE out[i - 1] \o WriteField(fields[i], object[fields[i].name])
  IN  out[Len(fields)]

-----------------------------------------------------------------------------
(* Reading: the buffer's offset, what was read so far, and whether every   *)
(* read was inside the buffer; the others throw.                           *)

Start(at) == [at |-> at, got |-> <<>>, ok |-> TRUE]

Threw(r) == [r EXCEPT !.ok = FALSE]

\* What was read so far, and the member `name`.
With(got, name, value) ==
  [n \in DOMAIN got \cup {name} |-> IF n = name THEN value ELSE got[n]]

\* `width` bytes into the member `name`.
Take(data, r, name, width) ==
  IF r.ok /\ r.at + width <= Len(data)
  THEN [at |-> r.at + width, ok |-> TRUE,
        got |-> With(r.got, name, SubSeq(data, r.at + 1, r.at + width))]
  ELSE Threw(r)

\* Wrong: a text that exceeds the buffer is what is left of it.
TakeCountedShort(data, r, name) ==
  IF ~r.ok THEN r
  ELSE LET left == Len(data) - r.at
           size == Number(r.got[name])
       IN  Take(data, r, name, IF size < left THEN size ELSE left)

TakeCounted(data, r, name) ==
  IF r.ok THEN Take(data, r, name, Number(r.got[name])) ELSE r

Read(data, r, field) ==
  IF field.form = "text"
  THEN TakeCounted(data, Take(data, r, field.name, field.width), field.name)
  ELSE Take(data, r, field.name, field.width)

\* The items of a list, each an object of its own.
Appended(r, name, item) ==
  [item EXCEPT !.got = With(r.got, name, Append(r.got[name], item.got))]

ReadItem(data, r, field) ==
  LET read[i \in 0 .. Len(field.item)] ==
        IF i = 0 THEN [r EXCEPT !.got = <<>>] ELSE Read(data, read[i - 1], field.item[i])
  IN  Appended(r, field.name, read[Len(field.item)])

ReadItems(data, counted, field, count) ==
  LET read[i \in 0 .. count] ==
        IF i = 0 THEN [counted EXCEPT !.got[field.name] = <<>>]
        ELSE IF read[i - 1].ok THEN ReadItem(data, read[i - 1], field) ELSE read[i - 1]
  IN  read[count]

ReadList(data, counted, field) ==
  IF counted.ok THEN ReadItems(data, counted, field, Number(counted.got[field.name])) ELSE counted

ReadField(data, r, field) ==
  IF field.form = "list"
  THEN ReadList(data, Take(data, r, field.name, field.width), field)
  ELSE Read(data, r, field)

Deserialize(fields, data, r) ==
  LET read[i \in 0 .. Len(fields)] ==
        IF i = 0 THEN r ELSE ReadField(data, read[i - 1], fields[i])
  IN  read[Len(fields)]

-----------------------------------------------------------------------------
(* Entries.  The type of an entry, a tag of one byte, decides its data. *)

Url == <<Text("url")>>

Login == <<0>>
Card == <<1>>
Identity == <<2>>
Note == <<3>>

EntryHead ==
  <<Fixed("id", 16), Text("name"), Text("notes"), Fixed("folderId", 16),
    Fixed("createdAt", 8), Fixed("updatedAt", 8), Fixed("type", 1)>>

EntryWritten(type) ==
  EntryHead \o
  CASE type = Login -> Texts(<<"username", "password">>) \o <<ListOf("urls", 4, Url)>>
    [] type = Card -> <<Fixed("card", 1)>> \o Texts(<<"holder", "number", "expiry", "cvv">>)
    [] type = Identity ->
         <<Fixed("sex", 1)>> \o
         Texts(<<"firstName", "middleName", "lastName", "username", "company",
                 "ssn", "passportNumber", "licenseNumber", "email", "phone",
                 "city", "state", "zip", "country">>)
    [] type = Note -> <<Text("content")>>

SerializeEntry(e) == Serialize(EntryWritten(e["type"]), e)

EntryHeadRead ==
  <<Fixed("id", 16), Text("name"), Text("notes"), Fixed("folderId", 16)>>
  \o FixedFields(<<"createdAt", "updatedAt">>, 8) \o <<Fixed("type", 1)>>

EntryDataRead(type) ==
  CASE type = Login -> <<Text("username"), Text("password"), ListOf("urls", 4, Url)>>
    [] type = Card ->
         <<Fixed("card", 1), Text("holder"), Text("number"), Text("expiry"), Text("cvv")>>
    [] type = Identity ->
         <<Fixed("sex", 1)>> \o
         Texts(<<"firstName", "middleName", "lastName", "username", "company">>) \o
         Texts(<<"ssn", "passportNumber", "licenseNumber", "email", "phone">>) \o
         Texts(<<"city", "state", "zip", "country">>)
    [] type = Note -> Texts(<<"content">>)
    [] OTHER -> <<>>

DeserializeEntryData(data, head) ==
  IF head.ok THEN Deserialize(EntryDataRead(head.got["type"]), data, head) ELSE head

DeserializeEntry(data) ==
  DeserializeEntryData(data, Deserialize(EntryHeadRead, data, Start(0)))

-----------------------------------------------------------------------------
(* Folders and index entries *)

FolderWritten ==
  <<Fixed("id", 16), Text("name"), Text("description"),
    Fixed("createdAt", 8), Fixed("updatedAt", 8)>>
FolderRead ==
  <<Fixed("id", 16)>> \o Texts(<<"name", "description">>)
  \o FixedFields(<<"createdAt", "updatedAt">>, 8)

\* IndexObjectType
EntryIndex == <<0>>
FolderIndex == <<1>>

IndexHead == <<Fixed("id", 16), Fixed("type", 1), Fixed("pageId", 8), Fixed("slotId", 2)>>

IndexPayloadWritten(type) ==
  IF type = EntryIndex THEN <<Fixed("folderId", 16), Text("name")>> ELSE <<Text("name")>>

SerializeIndexEntry(e) == Serialize(IndexHead \o IndexPayloadWritten(e["type"]), e)

IndexHeadRead == FixedFields(<<"id">>, 16) \o <<Fixed("type", 1), Fixed("pageId", 8), Fixed("slotId", 2)>>

IndexPayloadRead(type) ==
  CASE type = EntryIndex -> <<Fixed("folderId", 16), Text("name")>>
    [] type = FolderIndex -> <<Text("name")>>
    [] OTHER -> <<>>

DeserializeIndexPayload(data, head) ==
  IF head.ok THEN Deserialize(IndexPayloadRead(head.got["type"]), data, head) ELSE head

DeserializeIndexEntry(data) ==
  DeserializeIndexPayload(data, Deserialize(IndexHeadRead, data, Start(0)))

-----------------------------------------------------------------------------
(* The preamble, the header, and the blob of an encoded record *)

PreambleWritten ==
  <<Fixed("magic", 4), Fixed("version", 4), Fixed("uuid", 16), Fixed("salt", 16),
    Fixed("keyCheck", 32), Fixed("pageSize", 4), Fixed("headerSize", 4)>>
PreambleRead ==
  FixedFields(<<"magic", "version">>, 4) \o FixedFields(<<"uuid", "salt">>, 16)
  \o <<Fixed("keyCheck", 32)>> \o FixedFields(<<"pageSize", "headerSize">>, 4)

HeaderWritten ==
  FixedFields(<<"indexRootPage", "dataRootPage", "freelistRootPage">>, 8)
  \o FixedFields(<<"entryCount", "folderCount", "createdAt", "updatedAt">>, 8)
HeaderRead ==
  FixedFields(<<"indexRootPage", "dataRootPage", "freelistRootPage",
                "entryCount", "folderCount", "createdAt", "updatedAt">>, 8)

BlobWritten ==
  <<Fixed("compressionType", 1), Fixed("originalSize", 4), Fixed("nonce", 12),
    Text("ciphertext")>>
BlobRead == <<Fixed("compressionType", 1), Fixed("originalSize", 4), Fixed("nonce", 12)>>
            \o Texts(<<"ciphertext">>)

-----------------------------------------------------------------------------
(* Pages: the page header, then the layout of its type, over the buffer of *)
(* the page, whose records lie behind.                                     *)

HEADER_SIZE == 25

\* PageType
FreePage == <<0>>
DataPage == <<1>>
FreelistPage == <<2>>
IndexPage == <<3>>

PageHeaderWritten ==
  <<Fixed("pageId", 8), Fixed("pageType", 1), Fixed("nextPage", 8), Fixed("prevPage", 8)>>
\* Wrong: the links are read in the other order.
PageHeaderReadSwapped ==
  <<Fixed("pageId", 8), Fixed("pageType", 1), Fixed("prevPage", 8), Fixed("nextPage", 8)>>
PageHeaderRead ==
  <<Fixed("pageId", 8), Fixed("pageType", 1)>> \o FixedFields(<<"nextPage", "prevPage">>, 8)

Slot == <<Fixed("offset", 2), Fixed("size", 2), Fixed("state", 1)>>
FreePageId == <<Fixed("id", 8)>>

LayoutWritten(type) ==
  CASE type \in {DataPage, IndexPage} ->
         FixedFields(<<"lower", "upper">>, 2) \o <<ListOf("pageSlots", 2, Slot)>>
    [] type = FreelistPage -> <<ListOf("freePages", 2, FreePageId)>>
    [] type = FreePage -> <<>>

LayoutRead(type) ==
  CASE type \in {DataPage, IndexPage} ->
         <<Fixed("lower", 2), Fixed("upper", 2),
           ListOf("pageSlots", 2, FixedFields(<<"offset", "size">>, 2) \o <<Fixed("state", 1)>>)>>
    [] type = FreelistPage -> <<ListOf("freePages", 2, FreePageId)>>
    [] OTHER -> <<>>

\* std::copy of bytes into a buffer.
CopiedTo(buffer, at, bytes) ==
  [i \in DOMAIN buffer |-> IF i - at \in DOMAIN bytes THEN bytes[i - at] ELSE buffer[i]]

\* Pager::writePageToDisk.
WritePage(page) ==
  CopiedTo(CopiedTo(page["data"], 0, Serialize(PageHeaderWritten, page)),
           HEADER_SIZE, Serialize(LayoutWritten(page["pageType"]), page))

\* Pager::loadPage: the buffer is kept as it is on the disk.
LoadLayout(data, header) ==
  IF header.ok
  THEN Deserialize(LayoutRead(header.got["pageType"]), data,
                   [header EXCEPT !.at = HEADER_SIZE, !.got = With(@, "data", data)])
  ELSE header

LoadPage(data) == LoadLayout(data, Deserialize(PageHeaderRead, data, Start(0)))
=============================================================================
