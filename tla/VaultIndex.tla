----------------------------- MODULE VaultIndex -----------------------------
(***************************************************************************)
(* The in-memory index (src/src/index/BTreeIndex.cpp) as the engine's      *)
(* operations on entries and folders use it (src/src/core/VaultEngine.cpp, *)
(* src/src/managers/IndexManager.cpp): four maps, the header's counters,   *)
(* the index records in the file, and the rebuild at opening.              *)
(*                                                                         *)
(* An operation and its commit are one action.  The file is abstracted to  *)
(* the places a record can have, numbered in the order in which the loader *)
(* comes to them.  A deletion may be lost in the file, as the last record  *)
(* of the root page can be (RecordStore).  Data records are left out.      *)
(***************************************************************************)
EXTENDS Integers, SequencesExt, Bags

CONSTANTS
  Ids,            \* UUIDs of entries and folders
  NoFolder,       \* the all-zero UUID
  Names, Queries, \* sequences of bytes
  UpperCase,      \* the bytes that are capital letters
  CaseShift,      \* from a capital letter to the small one
  TopByte,        \* 255
  NoRecord,       \* a place that holds no record
  MaxRecords,     \* bounds the index records in the file
  MaxStale,       \* bounds the deletions lost at a time
  CounterRange    \* 2^64, of entryCount and folderCount

ASSUME IndexAssumption ==
  /\ NoFolder \notin Ids
  /\ TopByte \in Nat /\ UpperCase \subseteq 0..TopByte
  /\ CaseShift \in Nat /\ \A b \in UpperCase : b + CaseShift <= TopByte
  /\ Names \cup Queries \subseteq Seq(0..TopByte)
  /\ MaxRecords \in Nat /\ MaxStale \in Nat
  /\ CounterRange \in Nat /\ MaxRecords < CounterRange

VARIABLES
  index,    \* byId, byFolder, byEntryName, byFolderName
  counts,   \* entryCount and folderCount of the header
  file,     \* the record in each place, or NoRecord
  doubled,  \* history: the last rebuild met two records of one id
  revived   \* history: some rebuild loaded a deleted record

vars == <<index, counts, file, doubled, revived>>

Refs == 1..MaxRecords

-----------------------------------------------------------------------------
(* Names: normalize, the order of std::string, and prefix ranges.           *)
Normalize(name) ==
  [i \in DOMAIN name |-> IF name[i] \in UpperCase THEN name[i] + CaseShift ELSE name[i]]

Before(s, t) ==
  \E n \in 0..Len(s) :
    /\ n < Len(t) /\ SubSeq(s, 1, n) = SubSeq(t, 1, n)
    /\ n = Len(s) \/ s[n + 1] < t[n + 1]

\* Wrong: no carry over a last byte that cannot be raised.
NextPrefixLast(prefix) ==
  IF prefix = <<>> THEN <<>>
  ELSE Append(Front(prefix), (Last(prefix) + 1) % (TopByte + 1))

\* The least string above all that start with prefix; empty if there is none.
NextPrefix(prefix) ==
  LET raisable == {i \in DOMAIN prefix : prefix[i] # TopByte}
      i        == Max(raisable)
  IN  IF raisable = {} THEN <<>> ELSE Append(SubSeq(prefix, 1, i - 1), prefix[i] + 1)

\* The ids of the pairs in the range of a query.
Hits(names, query) ==
  LET from == Normalize(query)
      to   == NextPrefix(from)
  IN  {p[2] : p \in {q \in BagToSet(names) :
                       ~ Before(q[1], from) /\ (to = <<>> \/ Before(q[1], to))}}

(* findEntriesByName or findFoldersByName on its map: the answers, which are *)
(* one, or none when byId.at throws at a pair whose id is not there.  The    *)
(* exception ends the program.                                               *)
FoundByName(ix, names, query) ==
  {ids \in {Hits(names, query)} : ids \subseteq DOMAIN ix.byId}

-----------------------------------------------------------------------------
(* BTreeIndex.  A multimap is a bag of pairs of key and id.                 *)
Loaded == DOMAIN index.byId

EmptyIndex ==
  [byId |-> [q \in {} |-> q], byFolder |-> EmptyBag,
   byEntryName |-> EmptyBag, byFolderName |-> EmptyBag]

Pair(key, id) == SetToBag({<<key, id>>})

Inserted(ix, e) ==
  LET map  == [q \in DOMAIN ix.byId \cup {e.id} |-> IF q = e.id THEN e ELSE ix.byId[q]]
      name == Pair(Normalize(e.name), e.id)
  IN  IF e.type = "entry"
      THEN [ix EXCEPT !.byId = map, !.byEntryName = @ (+) name,
                      !.byFolder = @ (+) Pair(e.folder, e.id)]
      ELSE [ix EXCEPT !.byId = map, !.byFolderName = @ (+) name]

\* remove() of an id that is there: one pair of each map of its type.
Removed(ix, id) ==
  LET e    == ix.byId[id]
      map  == [q \in DOMAIN ix.byId \ {id} |-> ix.byId[q]]
      name == Pair(Normalize(e.name), id)
  IN  IF e.type = "entry"
      THEN [ix EXCEPT !.byId = map, !.byEntryName = @ (-) name,
                      !.byFolder = @ (-) Pair(e.folder, id)]
      ELSE [ix EXCEPT !.byId = map, !.byFolderName = @ (-) name]

\* Wrong: the pairs of the old name and folder stay.
ReplacedUnremoved(ix, e) == Inserted(ix, e)

\* IndexManager::update.
Replaced(ix, e) == Inserted(Removed(ix, e.id), e)

FoundByFolder(ix, folder) ==
  {p[2] : p \in {q \in BagToSet(ix.byFolder) : q[1] = folder}} \cap DOMAIN ix.byId

-----------------------------------------------------------------------------
(* The records in the file.                                                 *)
Record(type, id, folder, name) ==
  [type |-> type, id |-> id, folder |-> folder, name |-> name]

Stored(r, ref) == [type |-> r.type, id |-> r.id, folder |-> r.folder, name |-> r.name,
                   ref |-> ref]

Used == {i \in Refs : file[i] # NoRecord}

\* Records that no reference leads to: their deletion was lost.
Stale == Used \ {index.byId[id].ref : id \in Loaded}

\* rebuild(), with what loadIndex returns: the maps after the first n places.
Rebuilding[n \in 0..MaxRecords] ==
  IF n = 0 THEN EmptyIndex
  ELSE IF file[n] = NoRecord THEN Rebuilding[n - 1]
  ELSE Inserted(Rebuilding[n - 1], Stored(file[n], n))

Rebuilt == Rebuilding[MaxRecords]

\* Where insertRecord can put a record: a slot that is not in use in memory.
FreeRefs == Refs \ {index.byId[id].ref : id \in Loaded}

(* deleteRecord: gone from the file as well, or only from memory.  (None is *)
(* lost after one has been brought back: this bounds the states.)           *)
Deletions(f, ref) ==
  {[f EXCEPT ![ref] = NoRecord]}
    \cup {g \in {f} : Cardinality(Stale) < MaxStale /\ ~ revived}

(* The old place when a record moves.  The root page stays unwritten only   *)
(* when the record moves to another page, which some other record keeps.    *)
Relocations(id) ==
  {f \in Deletions(file, index.byId[id].ref) : f = file => Loaded # {id}}

Folders == {id \in Loaded : index.byId[id].type = "folder"}
Entries == Loaded \ Folders

\* UUID::random: an id that is nowhere.
Fresh ==
  Ids \ (Loaded \cup {file[i].id : i \in Used}
           \cup {p[2] : p \in BagToSet(index.byFolder) \cup BagToSet(index.byEntryName)
                               \cup BagToSet(index.byFolderName)})

\* Wrong: takes the counter for a signed one.
LessSigned(n) == n - 1

Less(n) == (n - 1) % CounterRange
More(n) == (n + 1) % CounterRange

-----------------------------------------------------------------------------
Init ==
  /\ index = EmptyIndex /\ counts = [entries |-> 0, folders |-> 0]
  /\ file = [i \in Refs |-> NoRecord] /\ doubled = FALSE /\ revived = FALSE

Put(r) ==
  \E ref \in FreeRefs :
    /\ index' = Inserted(index, Stored(r, ref))
    /\ file'  = [file EXCEPT ![ref] = r]

\* Wrong: after a relocation the reference still leads to the old place.
RewriteUnmoved(r) ==
  LET old == index.byId[r.id].ref
  IN  /\ index' = Replaced(index, Stored(r, old))
      /\ \/ file' = [file EXCEPT ![old] = r]
         \/ \E ref \in FreeRefs, f \in Relocations(r.id) : file' = [f EXCEPT ![ref] = r]

\* IndexManager::update, in place or relocating the record.
Rewrite(r) ==
  LET old == index.byId[r.id].ref
  IN  \/ /\ index' = Replaced(index, Stored(r, old))
         /\ file'  = [file EXCEPT ![old] = r]
      \/ \E ref \in FreeRefs, f \in Relocations(r.id) :
           /\ index' = Replaced(index, Stored(r, ref))
           /\ file'  = [f EXCEPT ![ref] = r]

Drop(id) ==
  /\ index' = Removed(index, id)
  /\ file' \in Deletions(file, index.byId[id].ref)

\* The folders the entry editor offers.
FolderChoices == Folders \cup {NoFolder}

AddEntry ==
  \E id \in Fresh, folder \in FolderChoices, name \in Names :
    /\ Put(Record("entry", id, folder, name))
    /\ counts' = [counts EXCEPT !.entries = More(@)]
    /\ UNCHANGED <<doubled, revived>>

UpdateEntry ==
  \E id \in Entries, folder \in FolderChoices, name \in Names :
    Rewrite(Record("entry", id, folder, name)) /\ UNCHANGED <<counts, doubled, revived>>

AddToFolder ==
  \E id \in Entries, folder \in Folders :
    /\ Rewrite(Record("entry", id, folder, index.byId[id].name))
    /\ UNCHANGED <<counts, doubled, revived>>

DeleteEntry ==
  \E id \in Entries :
    /\ Drop(id) /\ counts' = [counts EXCEPT !.entries = Less(@)]
    /\ UNCHANGED <<doubled, revived>>

CreateFolder ==
  \E id \in Fresh, name \in Names :
    /\ Put(Record("folder", id, NoFolder, name))
    /\ counts' = [counts EXCEPT !.folders = More(@)]
    /\ UNCHANGED <<doubled, revived>>

UpdateFolder ==
  \E id \in Folders, name \in Names :
    Rewrite(Record("folder", id, NoFolder, name)) /\ UNCHANGED <<counts, doubled, revived>>

\* Wrong: does not look for the folder's entries.
DeleteFolderUnchecked ==
  \E id \in Folders :
    /\ Drop(id) /\ counts' = [counts EXCEPT !.folders = Less(@)]
    /\ UNCHANGED <<doubled, revived>>

DeleteFolder ==
  \E id \in Folders :
    /\ FoundByFolder(index, id) = {}
    /\ Drop(id) /\ counts' = [counts EXCEPT !.folders = Less(@)]
    /\ UNCHANGED <<doubled, revived>>

\* Closing, a crash between two operations or a search that throws, and opening
\* again.
Reopen ==
  /\ index' = Rebuilt
  /\ doubled' = (\E i, j \in Used : i # j /\ file[i].id = file[j].id)
  /\ revived' = (revived \/ Stale # {})
  /\ UNCHANGED <<counts, file>>

Next ==
  \/ AddEntry \/ UpdateEntry \/ AddToFolder \/ DeleteEntry
  \/ CreateFolder \/ UpdateFolder \/ DeleteFolder \/ Reopen

Spec == Init /\ [][Next]_vars

-----------------------------------------------------------------------------
\* Type invariant.
Meta == [type : {"entry", "folder"}, id : Ids, folder : Ids \cup {NoFolder}, name : Names]

ASSUME RecordAssumption == NoRecord \notin Meta

TypeOK ==
  /\ Loaded \subseteq Ids
  /\ \A id \in Loaded : \E r \in Meta, i \in Refs : index.byId[id] = Stored(r, i) /\ r.id = id
  /\ IsABag(index.byFolder) /\ IsABag(index.byEntryName) /\ IsABag(index.byFolderName)
  /\ counts \in [{"entries", "folders"} -> 0..(CounterRange - 1)]
  /\ file \in [Refs -> Meta \cup {NoRecord}]
  /\ doubled \in BOOLEAN /\ revived \in BOOLEAN

(* The three multimaps hold what byId says and nothing else, each pair once,*)
(* unless the last rebuild met two records of one id.                       *)
MapsMirror ==
  ~ doubled =>
    /\ index.byFolder = SetToBag({<<index.byId[id].folder, id>> : id \in Entries})
    /\ index.byEntryName = SetToBag({<<Normalize(index.byId[id].name), id>> : id \in Entries})
    /\ index.byFolderName = SetToBag({<<Normalize(index.byId[id].name), id>> : id \in Folders})

\* The names among those of these ids that start with the query, in any case.
Matching(ids, query) ==
  {id \in ids : IsPrefix(Normalize(query), Normalize(index.byId[id].name))}

(* A search returns those names that start with the query, in any case, also*)
(* when the query ends in the greatest byte, and does not throw.            *)
SearchExact ==
  ~ doubled =>
    \A q \in Queries :
      /\ FoundByName(index, index.byEntryName, q) = {Matching(Entries, q)}
      /\ FoundByName(index, index.byFolderName, q) = {Matching(Folders, q)}

(* After a rebuild with two records of one id a search that returns hides   *)
(* no entry, and each entry is found in its folder.                         *)
NoEntryHidden ==
  /\ \A id \in Entries : id \in FoundByFolder(index, index.byId[id].folder)
  /\ \A q \in Queries :
       /\ \A ids \in FoundByName(index, index.byEntryName, q) : Matching(Entries, q) \subseteq ids
       /\ \A ids \in FoundByName(index, index.byFolderName, q) : Matching(Folders, q) \subseteq ids

(* Searching and opening folders finds all that is there, and until a       *)
(* rebuild has met two records of one id nothing else, and never throws.    *)
SearchFindsAll == SearchExact /\ NoEntryHidden

(* An entry's folder exists, whatever is deleted and renamed in which order,*)
(* until a restart brings back a deleted entry.                             *)
FoldersResolve == ~ revived => \A id \in Entries : index.byId[id].folder \in FolderChoices

(* The header's counters, kept apart from the index, agree with it until a  *)
(* restart brings back what has been counted as deleted.                    *)
CountsExact ==
  ~ revived => /\ counts.entries = Cardinality(Entries)
               /\ counts.folders = Cardinality(Folders)

(* What is derived from the index apart from it, an entry's folder and the  *)
(* header's counters, stays true to it.                                     *)
FoldersAndCountsExact == FoldersResolve /\ CountsExact

(* Reopening rebuilds all four maps and every reference as they are, unless *)
(* the file has lost a deletion or the maps hold pairs of one lost before.  *)
ReopenRestores == Stale = {} /\ ~ doubled => Rebuilt = index

=============================================================================
