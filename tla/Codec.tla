------------------------------- MODULE Codec -------------------------------
(***************************************************************************)
(* How an object of the vault becomes the bytes of a record, of a region   *)
(* of the file or of a page, and back: Serialization under DefaultCodec    *)
(* (compression, then encryption, then the blob), the preamble and the     *)
(* pages, which are not encrypted, and the text of a UUID.                 *)
(*                                                                         *)
(* LZ4, Zstd and libsodium are outside the repository.  A compressor may   *)
(* give any length for the same input, and its output opens to that input  *)
(* alone; a sealed text is MAC_SIZE longer than what it hides and opens    *)
(* with the vault's key and its nonce, whole or not at all.  The bytes of both are *)
(* tokens that say what they are part of.                                  *)
(***************************************************************************)
EXTENDS Serialization, UUIDText, FiniteSets

CONSTANTS
  NoneBelow,      \* plaintexts below this size are not compressed (512)
  LZ4Below,       \* plaintexts below this size go to LZ4, the others to Zstd (65536)
  Bits,           \* bound: the bytes that members are made of
  MaxLength,      \* bound: the items of a list
  MaxEdits,       \* bound: how many members differ from the first object
  PageSize        \* bound: bytes of a page

\* Two bytes count the items of a page, whose layout, behind the 25 bytes of
\* the page header, leaves room for its longest list of eight bytes an item.
ASSUME CodecAssumption ==
  /\ NoneBelow \in Nat /\ LZ4Below \in Nat /\ NoneBelow <= LZ4Below
  /\ Bits \subseteq 0..255 /\ 0 \in Bits
  /\ MaxLength \in Nat /\ MaxLength < 65536
  /\ PageSize \in Nat /\ 31 + 8 * MaxLength <= PageSize

VARIABLES
  format,   \* what the object is
  object,   \* its value in the program
  stage,    \* how far it is on its way to the disk and back
  bytes,    \* its bytes there
  whole,    \* whether they lost none
  result    \* what deserialization gave: the members, or that it threw

vars == <<format, object, stage, bytes, whole, result>>

-----------------------------------------------------------------------------
(* The libraries *)

MAC_SIZE == 16

Sealed(plain, nonce) ==
  [i \in 1 .. Len(plain) + MAC_SIZE |-> [sealed |-> plain, nonce |-> nonce, at |-> i]]

Failed == [ok |-> FALSE, bytes |-> <<>>]
Done(b) == [ok |-> TRUE, bytes |-> b]

Decrypt(cipher, nonce) ==
  IF cipher = <<>> THEN Failed
  ELSE LET plain == cipher[1].sealed
       IN  IF cipher = Sealed(plain, nonce) THEN Done(plain) ELSE Failed

\* CompressionType
None == <<0>>
LZ4 == <<1>>
Zstd == <<2>>

Packed(type, plain, size) ==
  [i \in 1..size |-> [packed |-> plain, type |-> type, size |-> size, at |-> i]]

\* Decompression into a buffer of originalSize zeros.
Unpacked(type, input, originalSize) ==
  IF /\ input # <<>>
     /\ input = Packed(type, input[1].packed, Len(input))
     /\ Len(input[1].packed) <= originalSize
  THEN Done([i \in 1..originalSize |->
               IF i \in DOMAIN input[1].packed THEN input[1].packed[i] ELSE 0])
  ELSE Failed

-----------------------------------------------------------------------------
(* DefaultCodec *)

\* A compressor that makes `size` bytes of its input: those, or the input.
Compressed(type, plain, size) ==
  IF size >= Len(plain)
  THEN [type |-> None, data |-> plain]
  ELSE [type |-> type, data |-> Packed(type, plain, size)]

Compress(plain, size) ==
  IF Len(plain) < NoneBelow THEN [type |-> None, data |-> plain]
  ELSE Compressed(IF Len(plain) < LZ4Below THEN LZ4 ELSE Zstd, plain, size)

Blob(packed, plain, nonce) ==
  Serialize(BlobWritten,
            [compressionType |-> packed.type, originalSize |-> Count(Len(plain), 4),
             nonce |-> nonce, ciphertext |-> Sealed(packed.data, nonce)])

EncodeData(plain, size, nonce) == Blob(Compress(plain, size), plain, nonce)

\* Wrong: the header is compressed too.
EncodeHeaderPacked(plain, nonce) ==
  Blob(Compressed(LZ4, plain, 1 + plain[1]), plain, nonce)

\* Index entries and the header are encrypted as they are.
EncodeIndex(plain, nonce) == Blob([type |-> None, data |-> plain], plain, nonce)
EncodeHeader(plain, nonce) == Blob([type |-> None, data |-> plain], plain, nonce)

OpenBlob(blob) ==
  IF blob.ok THEN Decrypt(blob.got["ciphertext"], blob.got["nonce"]) ELSE Failed

Decompress(type, plain, originalSize) ==
  IF type = None \/ ~plain.ok THEN plain
  ELSE IF type \in {LZ4, Zstd} THEN Unpacked(type, plain.bytes, originalSize)
  ELSE Failed

DecodeBlob(blob) ==
  IF blob.ok
  THEN Decompress(blob.got["compressionType"], OpenBlob(blob), Number(blob.got["originalSize"]))
  ELSE Failed

DecodeData(encoded) == DecodeBlob(Deserialize(BlobRead, encoded, Start(0)))
DecodeIndex(encoded) == OpenBlob(Deserialize(BlobRead, encoded, Start(0)))
DecodeHeader(encoded) == OpenBlob(Deserialize(BlobRead, encoded, Start(0)))

-----------------------------------------------------------------------------
(* The objects *)

Entries == {"login", "card", "identity", "note"}
IndexEntries == {"entryIndex", "folderIndex"}
Records == Entries \cup {"folder"} \cup IndexEntries
Encrypted == Records \cup {"header"}
Images == {"slottedPage", "freelistPage", "freePage"}
Formats == Encrypted \cup Images \cup {"preamble", "uuid"}

Nonces == {[i \in 1..12 |-> b] : b \in Bits}

TagOf(f) ==
  CASE f \in {"login", "entryIndex", "freePage"} -> <<0>>
    [] f \in {"card", "folderIndex", "slottedPage"} -> <<1>>
    [] f \in {"identity", "freelistPage"} -> <<2>>
    [] f = "note" -> <<3>>

Fields(f) ==
  CASE f \in Entries -> EntryWritten(TagOf(f))
    [] f = "folder" -> FolderWritten
    [] f \in IndexEntries -> IndexHead \o IndexPayloadWritten(TagOf(f))
    [] f = "header" -> HeaderWritten
    [] f = "preamble" -> PreambleWritten
    [] f \in Images -> PageHeaderWritten \o LayoutWritten(TagOf(f)) \o <<Fixed("data", PageSize)>>
    [] f = "uuid" -> <<Fixed("id", UUID_SIZE)>>

-----------------------------------------------------------------------------
\* A value of a fixed member or of a text, made of one byte.
Sample(field, b) ==
  IF field.form = "fixed" THEN [i \in 1 .. field.width |-> (b + i - 1) % 256]
  ELSE IF b = 0 THEN <<>> ELSE <<b, 0>>

Named(fields, values) ==
  [name \in {fields[i].name : i \in DOMAIN fields} |->
     values[CHOOSE i \in DOMAIN fields : fields[i].name = name]]

Items(field) ==
  {Named(field.item, [i \in DOMAIN field.item |-> Sample(field.item[i], b)]) : b \in Bits}

Values(field) ==
  IF field.form = "list" THEN UNION {[1..n -> Items(field)] : n \in 0..MaxLength}
  ELSE {Sample(field, b) : b \in Bits}

Tags == {"type", "pageType"}

First(f) ==
  Named(Fields(f),
        [i \in DOMAIN Fields(f) |->
           IF Fields(f)[i].name \in Tags THEN TagOf(f)
           ELSE IF Fields(f)[i].form = "list" THEN <<>> ELSE Sample(Fields(f)[i], 0)])

-----------------------------------------------------------------------------
(* An object is made, a few of its members get other values; it is written *)
(* and read back.                                                          *)

NoResult == Start(0)

Init ==
  /\ format \in Formats
  /\ object = First(format)
  /\ stage = "object" /\ bytes = <<>> /\ whole = TRUE /\ result = NoResult

Edit ==
  /\ stage \in {"object", "read"}
  /\ \E i \in DOMAIN Fields(format) :
       LET field == Fields(format)[i]
       IN  /\ field.name \notin Tags
           /\ \E v \in Values(field) \ {object[field.name]} :
                object' = [object EXCEPT ![field.name] = v]
  /\ Cardinality({name \in DOMAIN object : object'[name] # First(format)[name]}) <= MaxEdits
  /\ stage' = "object" /\ bytes' = <<>> /\ whole' = TRUE /\ result' = NoResult
  /\ UNCHANGED format

\* What is not encrypted goes to the disk, or to the caller, as it is.
SerializeIt ==
  /\ stage = "object"
  /\ stage' = IF format \in Encrypted THEN "plain" ELSE "stored"
  /\ bytes' = CASE format \in Entries -> SerializeEntry(object)
                [] format = "folder" -> Serialize(FolderWritten, object)
                [] format \in IndexEntries -> SerializeIndexEntry(object)
                [] format = "header" -> Serialize(HeaderWritten, object)
                [] format = "preamble" -> Serialize(PreambleWritten, object)
                [] format \in Images -> WritePage(object)
                [] format = "uuid" -> TextOf(RandomUUID(object["id"]))
  /\ UNCHANGED <<format, object, whole, result>>

EncodeIt ==
  /\ stage = "plain"
  /\ stage' = "stored"
  /\ \E nonce \in Nonces :
       \/ /\ format \in Entries \cup {"folder"}
          /\ \E size \in {1, Len(bytes)} : bytes' = EncodeData(bytes, size, nonce)
       \/ format \in IndexEntries /\ bytes' = EncodeIndex(bytes, nonce)
       \/ format = "header" /\ bytes' = EncodeHeader(bytes, nonce)
  /\ UNCHANGED <<format, object, whole, result>>

\* insertRecord and updateRecord take the size of a record in 16 bits: a
\* longer record loses its end.  Here any number of bytes may be what is left.
CutRecord ==
  /\ stage = "stored" /\ whole /\ format \in Records
  /\ \E n \in 0 .. Len(bytes) - 1 : bytes' = SubSeq(bytes, 1, n)
  /\ whole' = FALSE
  /\ UNCHANGED <<format, object, stage, result>>

Opened(plain) ==
  /\ stage' = IF plain.ok THEN "opened" ELSE "read"
  /\ bytes' = plain.bytes
  /\ result' = IF plain.ok THEN NoResult ELSE Threw(NoResult)

DecodeIt ==
  /\ stage = "stored" /\ format \in Encrypted
  /\ \/ format \in Entries \cup {"folder"} /\ Opened(DecodeData(bytes))
     \/ format \in IndexEntries /\ Opened(DecodeIndex(bytes))
     \/ format = "header" /\ Opened(DecodeHeader(bytes))
  /\ UNCHANGED <<format, object, whole>>

DeserializeIt ==
  /\ stage = IF format \in Encrypted THEN "opened" ELSE "stored"
  /\ stage' = "read"
  /\ result' = CASE format \in Entries -> DeserializeEntry(bytes)
                 [] format = "folder" -> Deserialize(FolderRead, bytes, Start(0))
                 [] format \in IndexEntries -> DeserializeIndexEntry(bytes)
                 [] format = "header" -> Deserialize(HeaderRead, bytes, Start(0))
                 [] format = "preamble" -> Deserialize(PreambleRead, bytes, Start(0))
                 [] format \in Images -> LoadPage(bytes)
                 [] format = "uuid" -> [Start(0) EXCEPT !.ok = FromText(bytes).ok,
                                                        !.got = [id |-> FromText(bytes).bytes]]
  /\ UNCHANGED <<format, object, bytes, whole>>

Next == Edit \/ SerializeIt \/ EncodeIt \/ CutRecord \/ DecodeIt \/ DeserializeIt

Spec == Init /\ [][Next]_vars

-----------------------------------------------------------------------------
(* Properties *)

\* What is read back is what was written, whichever members the object has
\* and whatever the compressors make of it: entries of the four types,
\* folders, index entries, the header and the preamble, and the text of a
\* UUID (Serialization.cpp, DefaultCodec.cpp, UUID.cpp).  Of a page, the
\* header and the layout come back, and the records behind them stay.
RoundTrip ==
  stage = "read" /\ whole =>
    /\ result.ok
    /\ CASE format = "uuid" -> result.got["id"] = RandomUUID(object["id"])
         [] format \in Images ->
              /\ \A name \in DOMAIN object \ {"data"} : result.got[name] = object[name]
              /\ \A i \in result.at + 1 .. PageSize : result.got["data"][i] = object["data"][i]
         [] OTHER -> result.got = object

\* A record that lost its end is refused: SlottedManager::insertRecord stores
\* a record longer than 16 bits can say cut to its length modulo 65536, and
\* no prefix of a record may read as another object.  The length inside the
\* blob gives it away before anything is decrypted.
TruncatedIsRefused ==
  ~whole => /\ stage = "stored" => ~Deserialize(BlobRead, bytes, Start(0)).ok
            /\ stage = "read" => ~result.ok

\* The preamble has the 80 bytes that openVault reads (VAULT_PREAMBLE_SIZE),
\* and every header the length of the first one, which the preamble holds
\* and behind which the pages begin: persistHeader never writes into them.
RegionsKeepTheirSize ==
  stage = "stored" =>
    /\ format = "preamble" => Len(bytes) = 80
    /\ format = "header" =>
         \A nonce \in Nonces :
           Len(bytes) = Len(EncodeHeader(Serialize(HeaderWritten, First("header")), nonce))
=============================================================================
