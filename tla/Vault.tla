------------------------------- MODULE Vault -------------------------------
(***************************************************************************)
(* What VaultEngine promises of a vault, whatever pages, slots, references *)
(* and caches it is made of: a set of entries and folders, changed one at  *)
(* a time, durable when the call returns, untouched when it fails.  A      *)
(* crash while a change is being written may damage the object that was    *)
(* changed and no other, as long as no page was being linked.              *)
(***************************************************************************)
CONSTANTS
  Ids,          \* UUIDs of entries and folders
  Texts,        \* what an object holds besides its id and its folder
  NoFolder,     \* the all-zero UUID
  Absent,       \* no object
  Unreadable    \* an object whose record cannot be read

VARIABLES
  objects,      \* what the running program has
  durable,      \* what it would have after a restart
  whole         \* FALSE after a crash that broke the links of pages

Entry == [id : Ids, type : {"entry"}, folder : Ids \cup {NoFolder}, text : Texts]
Folder == [id : Ids, type : {"folder"}, folder : {NoFolder}, text : Texts]
Readable == Entry \cup Folder

Init ==
  /\ objects = [id \in Ids |-> Absent]
  /\ durable = objects
  /\ whole = TRUE

\* A change begins when the one before it is durable.
Settled == whole /\ objects = durable

\* An object is added or changed; it stays an entry or a folder, and an entry is
\* put into a folder that exists.
Store(id) ==
  /\ Settled
  /\ \E o \in {objects'[id]} :
       /\ o \in Readable /\ o.id = id
       /\ objects[id] \in Readable => objects[id].type = o.type
       /\ o.folder = NoFolder \/ objects[o.folder] \in Folder \cup {Unreadable}
       /\ objects' = [objects EXCEPT ![id] = o]
  /\ UNCHANGED <<durable, whole>>

\* An object too long to be stored whole is lost by the attempt.
Spoil(id) ==
  /\ Settled
  /\ objects' = [objects EXCEPT ![id] = Unreadable]
  /\ UNCHANGED <<durable, whole>>

\* An entry, or a folder without entries, is removed.
Remove(id) ==
  /\ Settled /\ objects[id] # Absent
  /\ \A e \in Ids : objects[e] \in Entry => objects[e].folder # id
  /\ objects' = [objects EXCEPT ![id] = Absent]
  /\ UNCHANGED <<durable, whole>>

Commit ==
  /\ whole
  /\ durable' = objects
  /\ UNCHANGED <<objects, whole>>

\* The program ends before the change is durable.
Fail ==
  /\ whole
  /\ objects' = durable
  /\ UNCHANGED <<durable, whole>>

\* A crash while the change of one object is written.
Tear(id) ==
  /\ whole
  /\ \E left \in {durable[id], objects[id], Absent, Unreadable} :
       durable' = [durable EXCEPT ![id] = left]
  /\ objects' = durable'
  /\ UNCHANGED whole

\* A crash while pages are linked or unlinked: nothing is promised any more.
Break == whole /\ ~whole'

Next ==
  \/ \E id \in Ids : Store(id) \/ Spoil(id) \/ Remove(id) \/ Tear(id)
  \/ Commit \/ Fail \/ Break

Spec == Init /\ [][Next]_<<objects, durable, whole>>
=============================================================================
