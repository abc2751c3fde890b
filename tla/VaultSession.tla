---------------------------- MODULE VaultSession ----------------------------
(***************************************************************************)
(* A session with the program: the windows and dialogs of ui/, the lock    *)
(* timer of MainWindow, and below them the part of VaultEngine and         *)
(* StorageEngine that creates, opens and closes a vault.                   *)
(*                                                                         *)
(* The user clicks, time passes, and the timer's handler may run at any    *)
(* moment, also in the event loop of a modal dialog whose caller then goes *)
(* on with what it knew before.  What a vault holds is left out, except    *)
(* for what the pages tell of it: whether a list may show an object that   *)
(* is gone, whose data the fields of the editor hold, and what is wrong    *)
(* with the vault, so that reading it throws.                              *)
(***************************************************************************)
EXTENDS Naturals, Sequences

CONSTANTS
  Paths,          \* places in the file system the user may choose
  Passwords,
  NoPath,         \* the empty path, and the file of a closed stream
  Nobody,         \* the password of a file that is no vault: no one knows it
  Kinds,          \* the kinds of entry, EntryType
  Patience        \* intervals without input after which the timer fires

ASSUME SessionAssumption ==
  /\ NoPath \notin Paths /\ Nobody \notin Passwords
  /\ Kinds # {} /\ Patience \in Nat \ {0}

VARIABLES
  files,     \* what is at each path
  storage,   \* StorageEngine::file, the one fstream
  engine,    \* VaultEngine: opened, path and password, the flaws of what it holds
  window,    \* the page on top of the stack, the modal dialogs, the search field
  timer,     \* m_logoutTimer: active, intervals left
  fresh,     \* the lists that show only what the vault has
  form,      \* the entry editor
  program    \* the process

vars == <<files, storage, engine, window, timer, fresh, form, program>>

\* What may be wrong with a vault's file: it cannot be loaded, because a commit
\* or its creation stopped half way or an index record was cut to 16 bits; a data
\* record cannot be read, because it was cut or is gone; an id has two records.
Flaws == {"loading", "unreadable", "double"}

\* What a commit may add to them: when the file cannot be loaded, no other flaw
\* matters.
Worse == {{"loading"}} \cup SUBSET (Flaws \ {"loading"})

\* The contents of a file: nothing, less than a preamble, a vault.
FileKinds == {"absent", "short", "vault"}
Files == [kind : FileKinds, password : Passwords \cup {Nobody},
          flaws : SUBSET Flaws]
Flawed(w, f) == [kind |-> "vault", password |-> w, flaws |-> f]
File(k, w) == [kind |-> k, password |-> w, flaws |-> {}]

\* What may be wrong with the vault in memory: besides, the index may keep the
\* name of an id that had two records and was deleted (BTreeIndex.cpp:140).
Held == {"unreadable", "double", "leftover"}

Pages == {"welcome", "create", "open", "vault", "folder", "editor"}
VaultPages == {"vault", "folder", "editor"}
Dialogs == {"warning", "locked", "newFolder", "editFolder"}

\* The lists of the vault page and of the folder page, and the folders that
\* the editor offers.
Lists == {"vault", "folder", "offered"}

\* The search field of the vault page is empty or not.
Queries == {"none", "text"}

\* Whose data the editor's fields of one kind hold.
Owners == {"nobody", "this", "another"}

Closed == [opened |-> FALSE, path |-> NoPath, password |-> Nobody, flaws |-> {}]
FirstWindow == [page |-> "welcome", previous |-> "vault", dialogs |-> <<>>, query |-> "none"]
Shut == [file |-> NoPath, failed |-> FALSE]
Blank == [isNew |-> TRUE, loaded |-> CHOOSE k \in Kinds : TRUE,
          fields |-> [k \in Kinds |-> "nobody"]]

\* Type invariant.
TypeOK ==
  /\ files \in [Paths -> Files]
  /\ storage \in [file : Paths \cup {NoPath}, failed : BOOLEAN]
  /\ engine \in [opened : BOOLEAN, path : Paths \cup {NoPath},
                 password : Passwords \cup {Nobody}, flaws : SUBSET Held]
  /\ window \in [page : Pages, previous : {"vault", "folder"}, dialogs : Seq(Dialogs),
                 query : Queries]
  /\ timer \in [active : BOOLEAN, left : 0..Patience]
  /\ fresh \in SUBSET Lists
  /\ form \in [isNew : BOOLEAN, loaded : Kinds, fields : [Kinds -> Owners]]
  /\ program \in {"running", "gone"}

-----------------------------------------------------------------------------
(* The stream *)

\* StorageEngine::open.  Opening a stream that is open fails and sets its
\* error flag, and the stream stays on its old file; a missing file leaves
\* it closed.  Success clears the flag.
Opened(s, p) ==
  IF s.file # NoPath THEN [s EXCEPT !.failed = TRUE]
  ELSE IF p = NoPath \/ files[p].kind = "absent"
       THEN [s EXCEPT !.failed = TRUE]
       ELSE [file |-> p, failed |-> FALSE]

\* Wrong: the flag of a failed opening is not looked at.
ReadableUnchecked(s) == files[s.file].kind = "vault"

\* StorageEngine::read throws when the flag is set or the file is too short.
Readable(s) == ~s.failed /\ files[s.file].kind = "vault"

\* VaultEngine::openVault: the stream it leaves behind and how it ends.
OpenVault(p, w) ==
  LET s == Opened(storage, p)
      answer ==
        IF s.file = NoPath THEN "refused"
        ELSE IF ~Readable(s) THEN "threw"
        ELSE IF files[s.file].password # w THEN "refused"
        ELSE IF "loading" \in files[s.file].flaws THEN "threw"
        ELSE "opened"
  IN [stream |-> s, answer |-> answer]

-----------------------------------------------------------------------------
(* The lists *)

\* Wrong: a record that cannot be read is passed over.
ListingAll(flaws, query) == {TRUE}

\* VaultPage::performSearch: whether it gets through.  Without a text it reads
\* every entry and every folder.  With one it reads what matches, and a name
\* left over in the index may match too.
Listing(flaws, query) ==
  IF query = "none" THEN {"unreadable" \notin flaws}
  ELSE {TRUE} \cup {FALSE : f \in flaws \ {"double"}}

\* populateFolderCombo reads every folder.
Folders(flaws) == {TRUE} \cup {FALSE : f \in flaws \cap {"unreadable"}}

-----------------------------------------------------------------------------
(* Windows and the timer *)

Modal == window.dialogs # <<>>

Show(page) == [window EXCEPT !.page = page]
Over(d) == [window EXCEPT !.dialogs = Append(@, d)]
Back == [window EXCEPT !.dialogs = SubSeq(@, 1, Len(@) - 1)]
Top == window.dialogs[Len(window.dialogs)]

\* Wrong: one interval more than the timer has.
ResetLate == [timer EXCEPT !.left = IF timer.active THEN Patience + 1 ELSE @]

\* resetLogoutTimer, on each input the event filter sees.
Reset == [timer EXCEPT !.left = IF timer.active THEN Patience ELSE @]
Started == [active |-> TRUE, left |-> Patience]
Stopped == [active |-> FALSE, left |-> 0]

\* An input event reaches the page on top, which no dialog covers.
Input(page) == program = "running" /\ window.page = page /\ ~Modal

\* The process ends: its memory is gone, its stream is closed, and the next one
\* starts afresh.
End ==
  /\ program' = "gone"
  /\ storage' = Shut /\ engine' = Closed /\ timer' = Stopped
  /\ window' = FirstWindow /\ fresh' = {} /\ form' = Blank

\* An exception leaves the slot and nothing catches it.
Throw == End

\* closeVault, when a vault is open.
CloseVault ==
  IF engine.opened
  THEN engine' = [engine EXCEPT !.opened = FALSE, !.flaws = {}] /\ storage' = Shut
  ELSE UNCHANGED <<engine, storage>>

\* The editor keeps its fields, which are another entry's from now on.
Aged == [k \in Kinds |-> IF form.fields[k] = "nobody" THEN "nobody" ELSE "another"]

-----------------------------------------------------------------------------
(* The welcome page, the two forms that lead to a vault *)

\* The user chooses to create or to open a vault, and may go back.
Go(page) ==
  /\ Input("welcome")
  /\ window' = Show(page)
  /\ timer' = Reset
  /\ UNCHANGED <<files, storage, engine, fresh, form, program>>

GoBack ==
  /\ Input("create") \/ Input("open")
  /\ window' = Show("welcome")
  /\ timer' = Reset
  /\ UNCHANGED <<files, storage, engine, fresh, form, program>>

\* Wrong: the interval is set and the timer not started.
EnterUntimed(p, w, f) ==
  /\ engine' = [opened |-> TRUE, path |-> p, password |-> w, flaws |-> f]
  /\ window' = Show("vault")
  /\ fresh' = {"vault"}
  /\ timer' = Reset
  /\ UNCHANGED <<form, program>>

\* An opened vault's page: its lists have been rebuilt, the timer is started.
Enter(p, w, f) ==
  /\ engine' = [opened |-> TRUE, path |-> p, password |-> w, flaws |-> f]
  /\ window' = Show("vault")
  /\ fresh' = {"vault"}
  /\ timer' = Started
  /\ UNCHANGED <<form, program>>

\* The engine said no: a warning, and the engine keeps path and password.
Refuse(p, w) ==
  /\ engine' = [engine EXCEPT !.path = p, !.password = w]
  /\ window' = Over("warning")
  /\ timer' = Reset
  /\ UNCHANGED <<fresh, form, program>>

\* "Create" with fields the page does not accept: one is empty, the passwords
\* differ, or there is a file already.
Reject ==
  /\ Input("create")
  /\ window' = Over("warning")
  /\ timer' = Reset
  /\ UNCHANGED <<files, storage, engine, fresh, form, program>>

\* "Create".  The stream is opened to make the file, closed, and opened again.
\* When it was still open the file is not made, and the last opening finds
\* none; a directory that cannot be written ends the same way.
CreateVault(p, w) ==
  /\ Input("create") /\ files[p].kind = "absent"
  /\ \/ /\ storage.file = NoPath
        /\ storage' = [file |-> p, failed |-> FALSE]
        /\ files' = [files EXCEPT ![p] = File("vault", w)]
        /\ Enter(p, w, {})
     \/ /\ storage' = [file |-> NoPath, failed |-> TRUE]
        /\ UNCHANGED files
        /\ Refuse(p, w)

\* Writing the new vault fails half way (write throws), or the process is
\* stopped there.
CreateCut(p, w) ==
  /\ Input("create")
  /\ files[p].kind = "absent" /\ storage.file = NoPath
  /\ files' \in {[files EXCEPT ![p] = f] :
                   f \in {File("short", Nobody), Flawed(w, {"loading"})}}
  /\ Throw

\* "Open", with the path field empty or not.  The text of an earlier search is
\* still in its field when the lists are built.
OpenRequested(p, w) ==
  /\ Input("open")
  /\ UNCHANGED files
  /\ LET r == OpenVault(p, w)
     IN \/ r.answer = "refused" /\ storage' = r.stream /\ Refuse(p, w)
        \/ r.answer = "threw" /\ Throw
        \/ /\ r.answer = "opened"
           /\ \E listed \in Listing(files[p].flaws, window.query) :
                IF listed THEN storage' = r.stream /\ Enter(p, w, files[p].flaws) ELSE Throw

-----------------------------------------------------------------------------
(* The pages of an open vault *)

\* The handlers of these pages call the engine, at the latest when they rebuild
\* a list; CallOnClosed is what they do when the vault is closed.
Calls(page) == Input(page) /\ engine.opened
Refreshed(l) == fresh' = fresh \cup l

\* Whether the list that the editor returns to can be rebuilt, with flaws in
\* memory and the record just saved cut or not; a folder's list meets the record
\* when the entry is in that folder.
Relisted(flaws, cut) ==
  IF window.previous = "vault" THEN Listing(flaws, window.query) ELSE Folders(cut)

\* A change is committed.  The file may get worse than what is in memory, which
\* nothing tells before the vault is opened again.
Commit(flaws) ==
  files' = [files EXCEPT ![engine.path].flaws =
              IF "loading" \in @ \cup flaws THEN {"loading"} ELSE @ \cup flaws]

\* A call that changes nothing throws.
Fails == Throw /\ UNCHANGED files

\* Typing in the search field.
Search(query) ==
  /\ Calls("vault")
  /\ \E listed \in Listing(engine.flaws, query) :
       IF ~listed THEN Fails
       ELSE /\ window' = [window EXCEPT !.query = query]
            /\ Refreshed({"vault"})
            /\ timer' = Reset
            /\ UNCHANGED <<files, storage, engine, form, program>>

\* "New entry": prepareNewEntry clears every field and fills the folder list.
NewEntry ==
  /\ Calls("vault")
  /\ \E offered \in Folders(engine.flaws) :
       IF ~offered THEN Fails
       ELSE /\ form' = Blank
            /\ Refreshed({"offered"})
            /\ window' = [Show("editor") EXCEPT !.previous = "vault"]
            /\ timer' = Reset
            /\ UNCHANGED <<files, storage, engine, program>>

\* A double click on an entry of a list: loadEntry fills the fields of the
\* entry's kind and leaves the others.  The list's rebuilding has read the entry.
EditEntry(page, k) ==
  /\ Calls(page)
  /\ \E offered \in Folders(engine.flaws) :
       IF ~offered THEN Fails
       ELSE /\ form' = [isNew |-> FALSE, loaded |-> k, fields |-> [Aged EXCEPT ![k] = "this"]]
            /\ Refreshed({"offered"})
            /\ window' = [Show("editor") EXCEPT !.previous = page]
            /\ timer' = Reset
            /\ UNCHANGED <<files, storage, engine, program>>

\* Wrong: the list is shown as it was.
ReturnUnrefreshed(gone) ==
  /\ fresh' = fresh \ gone
  /\ window' = Show(window.previous)
  /\ timer' = Reset

\* The list that the editor returns to is rebuilt after the engine's change,
\* which may have removed (gone) what the other lists show.
Return(gone) ==
  /\ fresh' = (fresh \ gone) \cup {window.previous}
  /\ window' = Show(window.previous)
  /\ timer' = Reset

\* onSaveClicked, or "Cancel", with kind k in the combo box: the user may have
\* filled the fields of that kind.  The data record may be cut to 16 bits; in the
\* file the index record may be cut, or the old one stay where its page was
\* emptied, with its data or without.
SaveEntry(k) ==
  /\ Calls("editor")
  /\ \E cut \in SUBSET {"unreadable"}, unseen \in Worse :
       LET now == engine.flaws \cup cut
       IN /\ Commit(cut \cup unseen)
          /\ \E listed \in Relisted(now, cut) :
               IF ~listed THEN Throw
               ELSE /\ engine' = [engine EXCEPT !.flaws = now]
                    /\ Return({})
                    /\ form' = [form EXCEPT !.fields[k] = "this"]
                    /\ UNCHANGED <<storage, program>>

\* What an object's deletion does to the flaws in memory: an id that had two
\* records may leave a name behind.  The file may keep the index record, whose
\* data are gone.
Deleted == {engine.flaws} \cup {engine.flaws \cup {"leftover"} : f \in engine.flaws \cap {"double"}}
CommitDeletion == \E unseen \in SUBSET {"unreadable"} : Commit(unseen)

\* onDeleteClicked; the button is hidden for a new entry.
DeleteEntry ==
  /\ Calls("editor") /\ ~form.isNew
  /\ CommitDeletion
  /\ \E now \in Deleted : \E listed \in Relisted(now, {}) :
       IF ~listed THEN Throw
       ELSE /\ engine' = [engine EXCEPT !.flaws = now]
            /\ Return({"vault", "folder"})
            /\ UNCHANGED <<storage, form, program>>

\* A double click on a folder: loadFolder.  It reads the folder and its entries,
\* which performSearch has read when it listed the folder.
OpenFolder ==
  /\ Calls("vault")
  /\ Refreshed({"folder"})
  /\ window' = Show("folder")
  /\ timer' = Reset
  /\ UNCHANGED <<files, storage, engine, form, program>>

LeaveFolder ==
  /\ Calls("folder")
  /\ \E listed \in Listing(engine.flaws, window.query) :
       IF ~listed THEN Fails
       ELSE /\ Refreshed({"vault"})
            /\ window' = Show("vault")
            /\ timer' = Reset
            /\ UNCHANGED <<files, storage, engine, form, program>>

\* onDeleteFolderClicked: an empty folder goes, and its page is left; for
\* another there is a warning.
DeleteFolder ==
  /\ Calls("folder")
  /\ CommitDeletion
  /\ \E now \in Deleted : \E listed \in Listing(now, window.query) :
       IF ~listed THEN Throw
       ELSE /\ engine' = [engine EXCEPT !.flaws = now]
            /\ fresh' = (fresh \ Lists) \cup {"vault"}
            /\ window' = Show("vault")
            /\ timer' = Reset
            /\ UNCHANGED <<storage, form, program>>

KeepFolder ==
  /\ Calls("folder")
  /\ window' = Over("warning")
  /\ timer' = Reset
  /\ UNCHANGED <<files, storage, engine, fresh, form, program>>

\* The dialogs for a new folder's name and for a folder's data.
AskFolder(page, d) ==
  /\ Calls(page)
  /\ <<page, d>> \in {<<"vault", "newFolder">>, <<"folder", "editFolder">>}
  /\ window' = Over(d)
  /\ timer' = Reset
  /\ UNCHANGED <<files, storage, engine, fresh, form, program>>

\* The dialog on top is answered "OK": its caller, onNewFolderClicked or
\* onEditFolderClicked, goes on with a call of the engine and rebuilds its list.
\* The folder's records may be cut like an entry's; its own page reads it.
Accept ==
  /\ program = "running" /\ engine.opened
  /\ Modal /\ Top \in {"newFolder", "editFolder"}
  /\ \E cut \in SUBSET {"unreadable"}, unseen \in Worse :
       LET now == engine.flaws \cup cut
       IN /\ Commit(cut \cup unseen)
          /\ \E listed \in IF Top = "newFolder" THEN Listing(now, window.query) ELSE {cut = {}} :
               IF ~listed THEN Throw
               ELSE /\ engine' = [engine EXCEPT !.flaws = now]
                    /\ Refreshed({IF Top = "newFolder" THEN "vault" ELSE "folder"})
                    /\ window' = Back
                    /\ timer' = Reset
                    /\ UNCHANGED <<storage, form, program>>

\* validateOpened throws: a page or the caller of a dialog calls the engine
\* although the vault is closed.
CallOnClosed ==
  /\ program = "running" /\ ~engine.opened
  /\ \/ ~Modal /\ window.page \in VaultPages
     \/ Modal /\ Top \in {"newFolder", "editFolder"}
  /\ Throw
  /\ UNCHANGED files

\* A call of the engine fails in the middle: a record does not fit into a page
\* (SlottedPageHandler.cpp:46), StorageEngine::read or write throws, or the process
\* is stopped there.  A vault is open in every handler of its pages, of the
\* timer and at the end of the process; what a commit has written by then may
\* have any flaw.
CallCut ==
  /\ program = "running"
  /\ \/ engine.opened /\ \E written \in Worse : Commit(written)
     \/ Input("open") /\ UNCHANGED files
  /\ Throw

\* The dialog on top is dismissed: cancelled, or a message has been read.
Dismiss ==
  /\ program = "running" /\ Modal
  /\ window' = Back
  /\ timer' = Reset
  /\ UNCHANGED <<files, storage, engine, fresh, form, program>>

-----------------------------------------------------------------------------
(* Locking, and the end of the process *)

\* handleLogout: the timer is stopped, the vault closed, the welcome page
\* shown.  Any dialog stays, the message goes on top of it.
HandleLogout ==
  /\ timer' = Stopped
  /\ CloseVault
  /\ window' = [window EXCEPT !.page = "welcome",
                            !.dialogs = IF engine.opened THEN Append(@, "locked") ELSE @]
  /\ fresh' = {}
  /\ form' = [form EXCEPT !.fields = Aged]
  /\ UNCHANGED <<files, program>>

\* "Lock".
Lock == Input("vault") /\ HandleLogout

\* Input that does nothing else: the mouse, keys in a field.
Touch ==
  /\ program = "running"
  /\ timer' = Reset /\ timer' # timer
  /\ UNCHANGED <<files, storage, engine, window, fresh, form, program>>

\* Time passes without input.
Tick ==
  /\ program = "running" /\ timer.active /\ timer.left > 0
  /\ timer' = [timer EXCEPT !.left = @ - 1]
  /\ UNCHANGED <<files, storage, engine, window, fresh, form, program>>

\* The timer fires, in the main event loop or in that of a dialog.
Timeout ==
  /\ program = "running" /\ timer.active /\ timer.left = 0
  /\ HandleLogout

\* The main window is closed, and ~VaultController closes the vault; or the
\* process is stopped from outside at any moment.
Quit == program = "running" /\ End /\ UNCHANGED files

\* The program is started again.
Launch ==
  /\ program # "running"
  /\ program' = "running"
  /\ UNCHANGED <<files, storage, engine, window, timer, fresh, form>>

Init ==
  /\ files \in [Paths -> {File("absent", Nobody), File("short", Nobody),
                          File("vault", Nobody)}]
  /\ storage = Shut /\ engine = Closed /\ timer = Stopped
  /\ window = FirstWindow /\ fresh = {} /\ form = Blank
  /\ program = "running"

\* What the user does.
UserActs ==
  \/ \E page \in {"create", "open"} : Go(page)
  \/ GoBack
  \/ \E p \in Paths, w \in Passwords : CreateVault(p, w)
  \/ \E p \in Paths \cup {NoPath}, w \in Passwords : OpenRequested(p, w)
  \/ Reject \/ NewEntry \/ DeleteEntry
  \/ \E k \in Kinds : SaveEntry(k) \/ EditEntry("vault", k) \/ EditEntry("folder", k)
  \/ \E query \in Queries : Search(query)
  \/ OpenFolder \/ LeaveFolder \/ DeleteFolder \/ KeepFolder
  \/ AskFolder("vault", "newFolder") \/ AskFolder("folder", "editFolder")
  \/ Accept \/ CallOnClosed \/ Dismiss \/ Lock \/ Touch \/ Quit \/ Launch

Next ==
  \/ UserActs
  \/ \E p \in Paths, w \in Passwords : CreateCut(p, w)
  \/ CallCut \/ Tick \/ Timeout

\* Time passes and Qt delivers a due timer event in whatever event loop runs.
\* Nothing is assumed of the user.
Spec == Init /\ [][Next]_vars /\ WF_vars(Tick) /\ WF_vars(Timeout)

-----------------------------------------------------------------------------
(* What is checked *)

\* The pages that show a vault are on top exactly while a vault is open, and so
\* long the timer runs.
LockIsComplete ==
  program = "running" =>
    /\ engine.opened <=> window.page \in VaultPages
    /\ engine.opened <=> timer.active

\* An open vault is the file that the user chose, opened with its password, and
\* the stream is on that file and in order: no earlier attempt is left in it.
StreamIsTheVaults ==
  engine.opened =>
    /\ storage = [file |-> engine.path, failed |-> FALSE]
    /\ files[engine.path].kind = "vault" /\ files[engine.path].password = engine.password

\* An open vault is open completely: the pages and the timer know of it, and the
\* stream and the password are its own (mainwindow.cpp:61-85, 156-169;
\* VaultEngine.cpp:98-164).
OpenVaultIsGuarded == LockIsComplete /\ StreamIsTheVaults

\* Nothing that a page in front lists is gone from the vault, so that no click
\* leads to an object that does not exist, and an entry is only given a folder
\* that does.
ListsAreCurrent ==
  engine.opened =>
    /\ window.page \in {"vault", "folder"} => window.page \in fresh
    /\ window.page = "editor" => "offered" \in fresh

\* The editor has no other entry's data in the fields of the kind it was opened
\* with, and none at all for a new entry.  With another kind chosen for an old
\* entry it may have: loadEntry leaves those fields.
FieldsAreOwn ==
  engine.opened /\ window.page = "editor" =>
    \A k \in Kinds : form.isNew \/ k = form.loaded => form.fields[k] # "another"

\* What the pages show is in the vault, after any way through them
\* (mainwindow.cpp:87-128, entryeditorpage.cpp:136-363).
PagesShowTheVault == ListsAreCurrent /\ FieldsAreOwn

\* Without a text in the search field the vault page lists the whole vault: a
\* record that cannot be read never stays unnoticed, neither when an old vault is
\* opened nor when a page, a dialog or the field's text is left after the record
\* was cut.  The program ends instead (vaultpage.cpp:37-74, VaultEngine.cpp:262-279).
WholeVaultIsListed ==
  engine.opened /\ window.page = "vault" /\ window.query = "none" =>
    "unreadable" \notin engine.flaws

\* mainwindow.cpp:39: a vault that is left alone is locked, whatever page or
\* dialog the user walked away from.
IdleVaultIsLocked == []<><<UserActs>>_vars \/ <>[](~engine.opened)

\* VaultEngine.h:40: opening succeeds unless the file is missing or the password
\* is wrong.
RightPasswordOpens ==
  [][\A p \in Paths, w \in Passwords :
       OpenRequested(p, w) /\ files[p] = File("vault", w) => engine'.opened]_vars
=============================================================================
