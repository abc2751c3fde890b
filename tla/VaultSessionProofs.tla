------------------------- MODULE VaultSessionProofs -------------------------
(* What VaultSession guarantees for every set of paths, passwords and kinds *)
(* of entry and every length of the lock timer: an open vault is the one    *)
(* asked for and is shown as it is, and no record that cannot be read stays *)
(* unnoticed where the whole vault is listed.                               *)
EXTENDS VaultSession, SequenceTheorems, TLAPS

-----------------------------------------------------------------------------
(* The inductive invariant.                                                 *)

\* LockIsComplete without its guard: a program that has ended holds nothing.
LockInv ==
  /\ engine.opened <=> window.page \in VaultPages
  /\ engine.opened <=> timer.active

\* An open vault is a file of the file system, StreamIsTheVaults says which.
PathInv == engine.opened => engine.path \in Paths

IInv ==
  TypeOK /\ LockInv /\ PathInv /\ StreamIsTheVaults /\ PagesShowTheVault /\ WholeVaultIsListed

\* The parts of TypeOK that the actions build up.
WindowType == [page : Pages, previous : {"vault", "folder"}, dialogs : Seq(Dialogs),
               query : Queries]
EngineType == [opened : BOOLEAN, path : Paths \cup {NoPath},
               password : Passwords \cup {Nobody}, flaws : SUBSET Held]
StreamType == [file : Paths \cup {NoPath}, failed : BOOLEAN]
TimerType == [active : BOOLEAN, left : 0..Patience]
FormType == [isNew : BOOLEAN, loaded : Kinds, fields : [Kinds -> Owners]]

\* TypeOK with these names.
LEMMA Types ==
  TypeOK <=> /\ files \in [Paths -> Files] /\ storage \in StreamType
             /\ engine \in EngineType /\ window \in WindowType
             /\ timer \in TimerType /\ fresh \in SUBSET Lists
             /\ form \in FormType /\ program \in {"running", "gone"}
BY DEF TypeOK, StreamType, EngineType, WindowType, TimerType, FormType

-----------------------------------------------------------------------------
(* The windows, the timer and the file. *)

\* A sequence without its last element, and with one more.
LEMMA DropLast ==
  ASSUME NEW S, NEW d \in Seq(S), d # <<>>
  PROVE  /\ Len(d) \in Nat \ {0} /\ d[Len(d)] \in S
         /\ SubSeq(d, 1, Len(d) - 1) \in Seq(S)
         /\ Len(SubSeq(d, 1, Len(d) - 1)) = Len(d) - 1
         /\ \A i \in 1 .. Len(d) - 1 : SubSeq(d, 1, Len(d) - 1)[i] = d[i]
<1> DEFINE n == Len(d) - 1
<1>1. Len(d) \in Nat /\ Len(d) # 0
  BY EmptySeq
<1>2. n \in Nat /\ Len(d) = n + 1
  BY <1>1
<1>3. \A i \in 1 .. n + 1 : d[i] \in S
  BY <1>2, ElementOfSeq
<1> HIDE DEF n
<1>4. \A i \in 1 .. n : d[i] \in S
  BY <1>2, <1>3
<1>5. /\ SubSeq(d, 1, n) \in Seq(S)
      /\ Len(SubSeq(d, 1, n)) = IF 1 <= n THEN n - 1 + 1 ELSE 0
      /\ \A i \in 1 .. n - 1 + 1 : SubSeq(d, 1, n)[i] = d[1 + i - 1]
  BY <1>2, <1>4, SubSeqProperties, 1 \in Int, n \in Int
<1>6. n + 1 \in 1 .. n + 1
  BY <1>2
<1>7. Len(d) - 1 = n
  BY <1>2
<1> QED BY <1>2, <1>3, <1>5, <1>6, <1>7

\* The dialog on top goes, those below it stay.
LEMMA BackProps ==
  ASSUME window \in WindowType, Modal
  PROVE  /\ Back \in WindowType
         /\ Back.page = window.page /\ Back.query = window.query
<1>1. window.dialogs \in Seq(Dialogs) /\ window.dialogs # <<>>
  BY DEF WindowType, Modal
<1> DEFINE cut == SubSeq(window.dialogs, 1, Len(window.dialogs) - 1)
<1>2. cut \in Seq(Dialogs)
  BY <1>1, DropLast
<1>3. Back = [window EXCEPT !.dialogs = cut]
  BY DEF Back
<1> HIDE DEF cut
<1> QED BY <1>2, <1>3 DEF WindowType

\* A dialog or a message is shown on top of the others.
LEMMA OverProps ==
  ASSUME window \in WindowType, NEW x \in Dialogs
  PROVE  /\ Append(window.dialogs, x) \in Seq(Dialogs)
         /\ Over(x) \in WindowType
         /\ Over(x).page = window.page /\ Over(x).query = window.query
<1>1. window.dialogs \in Seq(Dialogs)
  BY DEF WindowType
<1> DEFINE more == Append(window.dialogs, x)
<1>2. more \in Seq(Dialogs)
  BY <1>1, AppendProperties
<1>3. Over(x) = [window EXCEPT !.dialogs = more]
  BY DEF Over
<1>4. Over(x) \in WindowType /\ Over(x).page = window.page /\ Over(x).query = window.query
  <2> HIDE DEF more
  <2> QED BY <1>2, <1>3 DEF WindowType
<1> QED BY <1>2, <1>4

\* Another page is on top.
LEMMA ShowProps ==
  ASSUME window \in WindowType, NEW page \in Pages
  PROVE  /\ Show(page) \in WindowType
         /\ Show(page).page = page /\ Show(page).query = window.query
         /\ \A from \in {"vault", "folder"} :
              LET w == [Show(page) EXCEPT !.previous = from]
              IN w \in WindowType /\ w.page = page /\ w.query = window.query
BY DEF WindowType, Show

\* An input resets the timer and leaves it running or not.
LEMMA ResetProps ==
  ASSUME timer \in TimerType
  PROVE  Reset \in TimerType /\ Reset.active = timer.active
BY SessionAssumption DEF TimerType, Reset

\* A commit changes only what is wrong with the vault's file.
LEMMA CommitProps ==
  ASSUME files \in [Paths -> Files], engine.path \in Paths,
         NEW f \in SUBSET Flaws, Commit(f)
  PROVE  /\ files' \in [Paths -> Files]
         /\ files'[engine.path].kind = files[engine.path].kind
         /\ files'[engine.path].password = files[engine.path].password
<1> DEFINE p == engine.path
           g == IF "loading" \in files[p].flaws \cup f THEN {"loading"} ELSE files[p].flaws \cup f
<1>1. files[p] \in Files
  BY DEF p
<1>2. g \in SUBSET Flaws
  BY <1>1 DEF Files, Flaws
<1>3. files' = [files EXCEPT ![p].flaws = g]
  BY DEF Commit
<1> HIDE DEF g
<1>4. files'[p] = [files[p] EXCEPT !.flaws = g]
  BY <1>3 DEF p
<1>5. /\ files'[p] \in Files
      /\ files'[p].kind = files[p].kind /\ files'[p].password = files[p].password
  <2> HIDE DEF p
  <2> QED BY <1>1, <1>2, <1>4 DEF Files
<1>6. \A q \in Paths : q # p => files'[q] = files[q]
  BY <1>3
<1>7. files' \in [Paths -> Files]
  <2>1. files' = [q \in Paths |-> files'[q]]
    BY <1>3
  <2> QED BY <1>5, <1>6, <2>1
<1> QED BY <1>5, <1>7 DEF p

\* What a commit may add is a set of flaws.
LEMMA WorseProps ==
  ASSUME NEW cut \in SUBSET {"unreadable"}, NEW unseen \in Worse
  PROVE  cut \cup unseen \in SUBSET Flaws /\ unseen \in SUBSET Flaws /\ cut \in SUBSET Held
BY DEF Worse, Flaws, Held

\* What a new process and a started timer are made of.
LEMMA Start ==
  /\ Closed \in EngineType /\ Shut \in StreamType /\ FirstWindow \in WindowType
  /\ Stopped \in TimerType /\ Started \in TimerType /\ Blank \in FormType
<1>1. (CHOOSE k \in Kinds : TRUE) \in Kinds
  BY SessionAssumption
<1>2. FirstWindow \in WindowType
  BY EmptySeq DEF FirstWindow, Pages, Queries, WindowType
<1>3. Blank \in FormType
  BY <1>1 DEF Blank, FormType, Owners
<1>4. Closed \in EngineType /\ Shut \in StreamType
  BY DEF Closed, EngineType, Shut, StreamType
<1>5. Stopped \in TimerType /\ Started \in TimerType
  BY SessionAssumption DEF Stopped, Started, TimerType
<1> QED BY <1>2, <1>3, <1>4, <1>5

-----------------------------------------------------------------------------
(* Three kinds of steps. *)

\* The process ends, by whatever cause.
LEMMA EndStep ==
  ASSUME IInv, End, files' \in [Paths -> Files]
  PROVE  IInv'
<1>1. /\ Closed \in EngineType /\ Shut \in StreamType /\ Stopped \in TimerType
      /\ FirstWindow \in WindowType /\ Blank \in FormType
  BY Start
<1>2. TypeOK'
  BY <1>1, Types DEF End, StreamType, EngineType, WindowType, TimerType, FormType, TypeOK, Lists
<1>3. LockInv' /\ PathInv' /\ StreamIsTheVaults' /\ PagesShowTheVault' /\ WholeVaultIsListed'
  BY DEF End, LockInv, PathInv, StreamIsTheVaults, PagesShowTheVault, ListsAreCurrent,
         FieldsAreOwn, WholeVaultIsListed, Closed, FirstWindow, Stopped, VaultPages
<1> QED BY <1>2, <1>3 DEF IInv

\* The program runs on and no vault is open before or after.
LEMMA ClosedStep ==
  ASSUME IInv, ~engine.opened, ~engine'.opened,
         files' \in [Paths -> Files], storage' \in StreamType, engine' \in EngineType,
         window' \in WindowType, window'.page \notin VaultPages,
         timer' \in TimerType, ~timer'.active,
         fresh' \in SUBSET Lists, form' \in FormType, program' \in {"running", "gone"}
  PROVE  IInv'
<1>1. TypeOK'
  BY DEF TypeOK, StreamType, EngineType, WindowType, TimerType, FormType
<1>2. LockInv' /\ PathInv' /\ StreamIsTheVaults' /\ PagesShowTheVault' /\ WholeVaultIsListed'
  BY DEF LockInv, PathInv, StreamIsTheVaults, PagesShowTheVault, ListsAreCurrent, FieldsAreOwn,
         WholeVaultIsListed, VaultPages
<1> QED BY <1>1, <1>2 DEF IInv

\* The program runs on with the vault that is open, in whose file and memory a
\* flaw may have been added.
LEMMA OpenStep ==
  ASSUME IInv, engine.opened, UNCHANGED <<storage, program>>,
         NEW now \in SUBSET Held, engine' = [engine EXCEPT !.flaws = now],
         files' \in [Paths -> Files],
         files'[engine.path].kind = files[engine.path].kind,
         files'[engine.path].password = files[engine.path].password,
         window' \in WindowType, window'.page \in VaultPages,
         timer' \in TimerType, timer'.active,
         fresh' \in SUBSET Lists, form' \in FormType,
         window'.page \in {"vault", "folder"} => window'.page \in fresh',
         window'.page = "editor" =>
           /\ "offered" \in fresh'
           /\ \A k \in Kinds : form'.isNew \/ k = form'.loaded => form'.fields[k] # "another",
         window'.page = "vault" /\ window'.query = "none" => "unreadable" \notin now
  PROVE  IInv'
<1>1. /\ engine' \in EngineType
      /\ engine'.opened /\ engine'.path = engine.path /\ engine'.password = engine.password
      /\ engine'.flaws = now
  BY Types DEF IInv, EngineType
<1>2. TypeOK'
  BY <1>1, Types DEF IInv, TypeOK, StreamType, EngineType, WindowType, TimerType, FormType
<1>3. LockInv' /\ PathInv'
  BY <1>1 DEF IInv, LockInv, PathInv
<1>4. StreamIsTheVaults'
  BY <1>1 DEF IInv, StreamIsTheVaults
<1>5. PagesShowTheVault' /\ WholeVaultIsListed'
  BY <1>1 DEF PagesShowTheVault, ListsAreCurrent, FieldsAreOwn, WholeVaultIsListed
<1> QED BY <1>2, <1>3, <1>4, <1>5 DEF IInv

-----------------------------------------------------------------------------
(* Initial states, and each action.                                         *)

LEMMA InitInv == Init => IInv
<1> SUFFICES ASSUME Init PROVE IInv
  OBVIOUS
<1>1. TypeOK
  <2>1. files \in [Paths -> Files]
    BY DEF Init, File, Files, FileKinds
  <2> QED BY <2>1, Start, Types DEF Init
<1>2. LockInv /\ PathInv /\ StreamIsTheVaults /\ PagesShowTheVault /\ WholeVaultIsListed
  BY DEF Init, LockInv, PathInv, StreamIsTheVaults, PagesShowTheVault, ListsAreCurrent,
         FieldsAreOwn, WholeVaultIsListed, Closed, FirstWindow, Stopped, VaultPages
<1> QED BY <1>1, <1>2 DEF IInv

\* What every step knows of the state it starts in.
LEMMA Known ==
  ASSUME IInv
  PROVE  /\ files \in [Paths -> Files] /\ storage \in StreamType
         /\ engine \in EngineType /\ window \in WindowType
         /\ timer \in TimerType /\ fresh \in SUBSET Lists
         /\ form \in FormType /\ program \in {"running", "gone"}
         /\ Reset \in TimerType /\ Reset.active = engine.opened
         /\ engine.opened = (window.page \in VaultPages)
         /\ engine.opened => engine.path \in Paths
         /\ engine.flaws \in SUBSET Held
         /\ engine = [engine EXCEPT !.flaws = engine.flaws]
<1>1. /\ files \in [Paths -> Files] /\ storage \in StreamType
      /\ engine \in EngineType /\ window \in WindowType
      /\ timer \in TimerType /\ fresh \in SUBSET Lists
      /\ form \in FormType /\ program \in {"running", "gone"}
  BY Types DEF IInv
<1>2. engine.flaws \in SUBSET Held /\ engine = [engine EXCEPT !.flaws = engine.flaws]
      /\ engine.opened \in BOOLEAN
  BY <1>1 DEF EngineType
<1>3. timer.active \in BOOLEAN
  BY <1>1 DEF TimerType
<1>4. Reset \in TimerType /\ Reset.active = engine.opened
  BY <1>1, <1>2, <1>3, ResetProps DEF IInv, LockInv
<1> QED BY <1>1, <1>2, <1>4 DEF IInv, LockInv, PathInv

\* Go and GoBack, and a message over a form.
LEMMA FormStep ==
  ASSUME IInv, NEW page \in {"create", "open"}, Go(page) \/ GoBack \/ Reject
  PROVE  IInv'
<1>1. /\ ~engine.opened /\ UNCHANGED <<files, storage, engine, fresh, form, program>>
      /\ timer' = Reset
  BY Known DEF Go, GoBack, Reject, Input, VaultPages
<1>2. window' \in WindowType /\ window'.page \notin VaultPages
  <2>1. CASE Go(page)
    BY <2>1, Known, ShowProps DEF Go, Pages, VaultPages
  <2>2. CASE GoBack
    BY <2>2, Known, ShowProps DEF GoBack, Pages, VaultPages
  <2>3. CASE Reject
    BY <2>3, Known, OverProps DEF Reject, Input, Dialogs, VaultPages
  <2> QED BY <2>1, <2>2, <2>3
<1> QED BY <1>1, <1>2, Known, ClosedStep

\* The engine said no.
LEMMA RefusedStep ==
  ASSUME IInv, NEW p \in Paths \cup {NoPath}, NEW w \in Passwords,
         ~engine.opened, UNCHANGED files, Refuse(p, w), storage' \in StreamType
  PROVE  IInv'
<1>1. window' \in WindowType /\ window'.page = window.page
  BY Known, OverProps DEF Refuse, Dialogs
<1>2. engine' \in EngineType /\ ~engine'.opened
  BY Known DEF Refuse, EngineType
<1>3. /\ timer' \in TimerType /\ ~timer'.active /\ window'.page \notin VaultPages
      /\ UNCHANGED <<files, fresh, form, program>>
  BY <1>1, Known DEF Refuse
<1> QED BY <1>1, <1>2, <1>3, Known, ClosedStep

\* A vault's page comes up.
LEMMA EnterStep ==
  ASSUME IInv, NEW p \in Paths, NEW w \in Passwords, NEW f \in SUBSET Held, Enter(p, w, f),
         ~engine.opened, storage' = [file |-> p, failed |-> FALSE],
         files' \in [Paths -> Files], files'[p].kind = "vault", files'[p].password = w,
         window.query = "none" => "unreadable" \notin f
  PROVE  IInv'
<1>1. /\ window' \in WindowType /\ window'.page = "vault" /\ window'.query = window.query
  BY Known, ShowProps DEF Enter, Pages
<1>2. /\ engine' \in EngineType /\ engine'.opened /\ engine'.path = p
      /\ engine'.password = w /\ engine'.flaws = f
  BY DEF Enter, EngineType
<1>3. storage' \in StreamType /\ timer' \in TimerType /\ timer'.active
  BY Start DEF Enter, Started, StreamType
<1>4. TypeOK'
  BY <1>1, <1>2, <1>3, Known
     DEF TypeOK, StreamType, EngineType, WindowType, TimerType, FormType, Enter, Lists
<1>5. LockInv' /\ PathInv' /\ StreamIsTheVaults' /\ PagesShowTheVault' /\ WholeVaultIsListed'
  BY <1>1, <1>2, <1>3 DEF Enter, LockInv, PathInv, StreamIsTheVaults, PagesShowTheVault,
     ListsAreCurrent, FieldsAreOwn, WholeVaultIsListed, VaultPages
<1> QED BY <1>4, <1>5 DEF IInv

\* A vault is made, or the attempt is refused.
LEMMA CreateVaultStep ==
  ASSUME IInv, NEW p \in Paths, NEW w \in Passwords, CreateVault(p, w)
  PROVE  IInv'
<1>1. ~engine.opened /\ File("vault", w) \in Files
  BY Known DEF CreateVault, Input, VaultPages, File, Files, FileKinds
<1>2. CASE /\ storage' = [file |-> p, failed |-> FALSE]
           /\ files' = [files EXCEPT ![p] = File("vault", w)]
           /\ Enter(p, w, {})
  <2>1. /\ files' \in [Paths -> Files]
        /\ files'[p].kind = "vault" /\ files'[p].password = w
    BY <1>1, <1>2, Known DEF File
  <2> QED BY <1>1, <1>2, <2>1, EnterStep
<1>3. CASE /\ storage' = [file |-> NoPath, failed |-> TRUE]
           /\ UNCHANGED files
           /\ Refuse(p, w)
  <2>1. storage' \in StreamType
    BY <1>3 DEF StreamType
  <2> QED BY <1>1, <1>3, <2>1, RefusedStep
<1> QED BY <1>2, <1>3 DEF CreateVault

\* What a successful opening leaves behind.
LEMMA OpenVaultProps ==
  ASSUME files \in [Paths -> Files], storage \in StreamType,
         NEW p \in Paths \cup {NoPath}, NEW w \in Passwords
  PROVE  LET r == OpenVault(p, w)
         IN  /\ r.stream \in StreamType
             /\ r.answer = "opened" =>
                  /\ p \in Paths /\ r.stream = [file |-> p, failed |-> FALSE]
                  /\ files[p].kind = "vault" /\ files[p].password = w
                  /\ files[p].flaws \in SUBSET Held
<1> DEFINE s == Opened(storage, p)
<1>1. /\ s \in StreamType
      /\ s.file # NoPath /\ ~s.failed => p \in Paths /\ s = [file |-> p, failed |-> FALSE]
  BY SessionAssumption DEF Opened, StreamType
<1>2. OpenVault(p, w).stream = s
  BY DEF OpenVault
<1>3. ASSUME OpenVault(p, w).answer = "opened"
      PROVE  /\ p \in Paths /\ s = [file |-> p, failed |-> FALSE]
             /\ files[p].kind = "vault" /\ files[p].password = w
             /\ files[p].flaws \in SUBSET Held
  <2>1. /\ s.file # NoPath /\ ~s.failed /\ files[s.file].kind = "vault"
        /\ files[s.file].password = w /\ "loading" \notin files[s.file].flaws
    BY <1>3 DEF OpenVault, Readable
  <2>2. p \in Paths /\ s = [file |-> p, failed |-> FALSE]
    BY <1>1, <2>1
  <2>3. files[p].flaws \in SUBSET Flaws
    BY <2>2 DEF Files
  <2> QED BY <2>1, <2>2, <2>3 DEF Flaws, Held
<1> QED BY <1>1, <1>2, <1>3

\* A vault is opened, or not.
LEMMA OpenRequestedStep ==
  ASSUME IInv, NEW p \in Paths \cup {NoPath}, NEW w \in Passwords, OpenRequested(p, w)
  PROVE  IInv'
<1> DEFINE r == OpenVault(p, w)
<1>1. ~engine.opened /\ UNCHANGED files /\ files' \in [Paths -> Files]
  BY Known DEF OpenRequested, Input, VaultPages
<1>2. /\ r.stream \in StreamType
      /\ r.answer = "opened" => /\ p \in Paths /\ r.stream = [file |-> p, failed |-> FALSE]
                                /\ files[p].kind = "vault" /\ files[p].password = w
                                /\ files[p].flaws \in SUBSET Held
  BY OpenVaultProps, Known
<1> HIDE DEF r
<1>3. CASE storage' = r.stream /\ Refuse(p, w)
  BY <1>1, <1>2, <1>3, RefusedStep
<1>4. CASE Throw
  BY <1>1, <1>4, EndStep DEF Throw
<1>5. ASSUME r.answer = "opened",
             \E listed \in Listing(files[p].flaws, window.query) :
               IF listed THEN storage' = r.stream /\ Enter(p, w, files[p].flaws) ELSE Throw
      PROVE  IInv'
  <2>1. PICK listed \in Listing(files[p].flaws, window.query) :
          IF listed THEN storage' = r.stream /\ Enter(p, w, files[p].flaws) ELSE Throw
    BY <1>5
  <2>2. CASE listed
    <3>1. window.query = "none" => "unreadable" \notin files[p].flaws
      BY <2>1, <2>2 DEF Listing
    <3>2. storage' = r.stream /\ Enter(p, w, files[p].flaws)
      BY <2>1, <2>2
    <3> QED BY <1>1, <1>2, <1>5, <3>1, <3>2, EnterStep
  <2>3. CASE ~listed
    BY <2>1, <2>3, <1>4
  <2> QED BY <2>2, <2>3
<1> QED BY <1>3, <1>4, <1>5 DEF OpenRequested, r

\* A call that changes nothing throws.
LEMMA FailsStep ==
  ASSUME IInv, Fails
  PROVE  IInv'
BY Known, EndStep DEF Fails, Throw

\* A page in front: the vault is open, and its list is current.
LEMMA Front ==
  ASSUME IInv, NEW page \in VaultPages, Calls(page)
  PROVE  /\ engine.opened /\ window.page = page /\ engine.path \in Paths
         /\ page \in {"vault", "folder"} => page \in fresh
         /\ page = "vault" /\ window.query = "none" => "unreadable" \notin engine.flaws
BY Known DEF Calls, Input, IInv, PagesShowTheVault, ListsAreCurrent, WholeVaultIsListed

\* A text is typed or removed.
LEMMA SearchStep ==
  ASSUME IInv, NEW query \in Queries, Search(query)
  PROVE  IInv'
<1>1. PICK listed \in Listing(engine.flaws, query) :
        IF ~listed THEN Fails
        ELSE /\ window' = [window EXCEPT !.query = query]
             /\ Refreshed({"vault"})
             /\ timer' = Reset
             /\ UNCHANGED <<files, storage, engine, form, program>>
  BY DEF Search
<1>2. CASE ~listed
  BY <1>1, <1>2, FailsStep
<1>3. CASE listed
  <2>1. engine.opened /\ window.page = "vault"
    BY Front DEF Search, VaultPages
  <2>2. window' \in WindowType /\ window'.page = "vault" /\ window'.query = query
    BY <1>1, <1>3, <2>1, Known DEF WindowType
  <2>3. query = "none" => "unreadable" \notin engine.flaws
    BY <1>3 DEF Listing
  <2>4. fresh' \in SUBSET Lists /\ "vault" \in fresh'
    BY <1>1, <1>3, Known DEF Refreshed, Lists
  <2>5. /\ UNCHANGED <<files, storage, engine, form, program>>
        /\ engine' = [engine EXCEPT !.flaws = engine.flaws]
        /\ timer' \in TimerType /\ timer'.active
    BY <1>1, <1>3, <2>1, Known
  <2> QED BY <2>1, <2>2, <2>3, <2>4, <2>5, Known, OpenStep DEF VaultPages
<1> QED BY <1>2, <1>3

\* The editor opens.
LEMMA EditorStep ==
  ASSUME IInv, NEW page \in {"vault", "folder"}, NEW k \in Kinds,
         (NewEntry /\ page = "vault") \/ EditEntry(page, k)
  PROVE  IInv'
<1>1. engine.opened
  BY Front DEF NewEntry, EditEntry, VaultPages
<1>2. CASE Fails
  BY <1>2, FailsStep
<1>3. ASSUME form' = Blank \/ form' = [isNew |-> FALSE, loaded |-> k,
                                      fields |-> [Aged EXCEPT ![k] = "this"]],
             Refreshed({"offered"}),
             window' = [Show("editor") EXCEPT !.previous = page],
             timer' = Reset, UNCHANGED <<files, storage, engine, program>>
      PROVE  IInv'
  <2>1. window' \in WindowType /\ window'.page = "editor"
    BY <1>3, Known, ShowProps DEF Pages
  <2>2. /\ form' \in FormType
        /\ \A j \in Kinds : form'.isNew \/ j = form'.loaded => form'.fields[j] # "another"
    <3>1. CASE form' = Blank
      BY <3>1, Start DEF Blank
    <3>2. CASE form' = [isNew |-> FALSE, loaded |-> k, fields |-> [Aged EXCEPT ![k] = "this"]]
      <4>1. Aged \in [Kinds -> Owners]
        BY Known DEF Aged, Owners
      <4>2. [Aged EXCEPT ![k] = "this"] \in [Kinds -> Owners] /\ [Aged EXCEPT ![k] = "this"][k] = "this"
        BY <4>1 DEF Owners
      <4> QED BY <3>2, <4>2 DEF FormType
    <3> QED BY <1>3, <3>1, <3>2
  <2>3. fresh' \in SUBSET Lists /\ "offered" \in fresh'
    BY <1>3, Known DEF Refreshed, Lists
  <2>4. /\ engine' = [engine EXCEPT !.flaws = engine.flaws]
        /\ timer' \in TimerType /\ timer'.active
    BY <1>1, <1>3, Known
  <2> QED BY <1>1, <1>3, <2>1, <2>2, <2>3, <2>4, Known, OpenStep DEF VaultPages
<1> QED BY <1>2, <1>3 DEF NewEntry, EditEntry

\* The way back from the editor, whose list the engine's change has left in order.
LEMMA ReturnStep ==
  ASSUME IInv, Calls("editor"), NEW gone \in SUBSET Lists, Return(gone),
         UNCHANGED <<storage, program>>,
         NEW now \in SUBSET Held, engine' = [engine EXCEPT !.flaws = now],
         NEW f \in SUBSET Flaws, Commit(f), form' \in FormType,
         window.previous = "vault" /\ window.query = "none" => "unreadable" \notin now
  PROVE  IInv'
<1>1. engine.opened /\ engine.path \in Paths
  BY Front DEF VaultPages
<1>2. window.previous \in {"vault", "folder"}
  BY Known DEF WindowType
<1>3. /\ window' \in WindowType /\ window'.page = window.previous
      /\ window'.query = window.query
  BY <1>2, Known, ShowProps DEF Return, Pages
<1>4. fresh' \in SUBSET Lists /\ window.previous \in fresh'
  BY <1>2, Known DEF Return, Lists
<1>5. /\ files' \in [Paths -> Files]
      /\ files'[engine.path].kind = files[engine.path].kind
      /\ files'[engine.path].password = files[engine.path].password
  BY <1>1, Known, CommitProps
<1>6. timer' \in TimerType /\ timer'.active
  BY <1>1, Known DEF Return
<1> QED BY <1>1, <1>2, <1>3, <1>4, <1>5, <1>6, OpenStep DEF VaultPages

\* An entry is saved, or the editor is left.
LEMMA SaveEntryStep ==
  ASSUME IInv, NEW k \in Kinds, SaveEntry(k)
  PROVE  IInv'
<1>1. PICK cut \in SUBSET {"unreadable"}, unseen \in Worse :
        LET now == engine.flaws \cup cut
        IN /\ Commit(cut \cup unseen)
           /\ \E listed \in Relisted(now, cut) :
                IF ~listed THEN Throw
                ELSE /\ engine' = [engine EXCEPT !.flaws = now]
                     /\ Return({})
                     /\ form' = [form EXCEPT !.fields[k] = "this"]
                     /\ UNCHANGED <<storage, program>>
  BY DEF SaveEntry
<1> DEFINE now == engine.flaws \cup cut
           f == cut \cup unseen
<1>2. f \in SUBSET Flaws /\ now \in SUBSET Held /\ Commit(f)
  BY <1>1, Known, WorseProps
<1>3. PICK listed \in Relisted(now, cut) :
        IF ~listed THEN Throw
        ELSE /\ engine' = [engine EXCEPT !.flaws = now]
             /\ Return({})
             /\ form' = [form EXCEPT !.fields[k] = "this"]
             /\ UNCHANGED <<storage, program>>
  BY <1>1
<1> HIDE DEF now, f
<1>4. CASE ~listed
  <2>1. engine.path \in Paths
    BY Front DEF SaveEntry, VaultPages
  <2>2. files' \in [Paths -> Files]
    BY <1>2, <2>1, Known, CommitProps
  <2> QED BY <1>3, <1>4, <2>2, EndStep DEF Throw
<1>5. CASE listed
  <2>1. form' \in FormType
    BY <1>3, <1>5, Known DEF FormType, Owners
  <2>2. window.previous = "vault" /\ window.query = "none" => "unreadable" \notin now
    BY <1>5 DEF Relisted, Listing
  <2>3. Calls("editor")
    BY DEF SaveEntry
  <2> QED BY <1>2, <1>3, <1>5, <2>1, <2>2, <2>3, ReturnStep, {} \in SUBSET Lists
<1> QED BY <1>4, <1>5

\* A deletion adds at most a name left over.
LEMMA DeletedProps ==
  ASSUME IInv, NEW now \in Deleted
  PROVE  now \in SUBSET Held /\ ("unreadable" \in now <=> "unreadable" \in engine.flaws)
BY Known DEF Deleted, Held

\* What a deletion commits.
LEMMA CommitDeletionProps ==
  ASSUME CommitDeletion
  PROVE  \E f \in SUBSET Flaws : Commit(f)
BY DEF CommitDeletion, Flaws

\* An entry is deleted.
LEMMA DeleteEntryStep ==
  ASSUME IInv, DeleteEntry
  PROVE  IInv'
<1>1. PICK f \in SUBSET Flaws : Commit(f)
  BY CommitDeletionProps DEF DeleteEntry
<1>2. PICK now \in Deleted : \E listed \in Relisted(now, {}) :
        IF ~listed THEN Throw
        ELSE /\ engine' = [engine EXCEPT !.flaws = now]
             /\ Return({"vault", "folder"})
             /\ UNCHANGED <<storage, form, program>>
  BY DEF DeleteEntry
<1>3. PICK listed \in Relisted(now, {}) :
        IF ~listed THEN Throw
        ELSE /\ engine' = [engine EXCEPT !.flaws = now]
             /\ Return({"vault", "folder"})
             /\ UNCHANGED <<storage, form, program>>
  BY <1>2
<1>4. Calls("editor") /\ now \in SUBSET Held
  BY DeletedProps DEF DeleteEntry
<1>5. CASE ~listed
  <2>1. files' \in [Paths -> Files]
    BY <1>1, <1>4, Front, Known, CommitProps DEF VaultPages
  <2> QED BY <1>3, <1>5, <2>1, EndStep DEF Throw
<1>6. CASE listed
  <2>1. window.previous = "vault" /\ window.query = "none" => "unreadable" \notin now
    BY <1>6 DEF Relisted, Listing
  <2>2. {"vault", "folder"} \in SUBSET Lists /\ form' \in FormType
    BY <1>3, <1>6, Known DEF Lists
  <2> QED BY <1>1, <1>3, <1>4, <1>6, <2>1, <2>2, ReturnStep
<1> QED BY <1>5, <1>6

\* A folder's page is opened and left.
LEMMA FolderPageStep ==
  ASSUME IInv, OpenFolder \/ LeaveFolder
  PROVE  IInv'
<1>1. engine.opened
  BY Front DEF OpenFolder, LeaveFolder, VaultPages
<1>2. CASE Fails
  BY <1>2, FailsStep
<1>3. ASSUME NEW page \in {"vault", "folder"}, Refreshed({page}), window' = Show(page),
             page = "vault" /\ window.query = "none" => "unreadable" \notin engine.flaws,
             timer' = Reset, UNCHANGED <<files, storage, engine, form, program>>
      PROVE  IInv'
  <2>1. window' \in WindowType /\ window'.page = page /\ window'.query = window.query
    BY <1>3, Known, ShowProps DEF Pages
  <2>2. fresh' \in SUBSET Lists /\ page \in fresh'
    BY <1>3, Known DEF Refreshed, Lists
  <2>3. /\ engine' = [engine EXCEPT !.flaws = engine.flaws]
        /\ timer' \in TimerType /\ timer'.active
    BY <1>1, <1>3, Known
  <2> QED BY <1>1, <1>3, <2>1, <2>2, <2>3, Known, OpenStep DEF VaultPages
<1>4. CASE OpenFolder
  BY <1>3, <1>4 DEF OpenFolder
<1>5. CASE LeaveFolder
  <2>1. PICK listed \in Listing(engine.flaws, window.query) :
          IF ~listed THEN Fails
          ELSE /\ Refreshed({"vault"})
               /\ window' = Show("vault")
               /\ timer' = Reset
               /\ UNCHANGED <<files, storage, engine, form, program>>
    BY <1>5 DEF LeaveFolder
  <2>2. CASE listed
    <3>1. window.query = "none" => "unreadable" \notin engine.flaws
      BY <2>2 DEF Listing
    <3> QED BY <1>3, <2>1, <2>2, <3>1
  <2> QED BY <1>2, <2>1, <2>2
<1> QED BY <1>4, <1>5

\* A folder is deleted.
LEMMA DeleteFolderStep ==
  ASSUME IInv, DeleteFolder
  PROVE  IInv'
<1>1. PICK f \in SUBSET Flaws : Commit(f)
  BY CommitDeletionProps DEF DeleteFolder
<1>2. PICK now \in Deleted : \E listed \in Listing(now, window.query) :
        IF ~listed THEN Throw
        ELSE /\ engine' = [engine EXCEPT !.flaws = now]
             /\ fresh' = (fresh \ Lists) \cup {"vault"}
             /\ window' = Show("vault")
             /\ timer' = Reset
             /\ UNCHANGED <<storage, form, program>>
  BY DEF DeleteFolder
<1>3. PICK listed \in Listing(now, window.query) :
        IF ~listed THEN Throw
        ELSE /\ engine' = [engine EXCEPT !.flaws = now]
             /\ fresh' = (fresh \ Lists) \cup {"vault"}
             /\ window' = Show("vault")
             /\ timer' = Reset
             /\ UNCHANGED <<storage, form, program>>
  BY <1>2
<1>4. /\ engine.opened /\ now \in SUBSET Held
      /\ files' \in [Paths -> Files]
      /\ files'[engine.path].kind = files[engine.path].kind
      /\ files'[engine.path].password = files[engine.path].password
  <2>1. engine.opened /\ engine.path \in Paths
    BY Front DEF DeleteFolder, VaultPages
  <2>2. now \in SUBSET Held
    BY DeletedProps
  <2> QED BY <1>1, <2>1, <2>2, Known, CommitProps
<1>5. CASE ~listed
  BY <1>3, <1>4, <1>5, EndStep DEF Throw
<1>6. CASE listed
  <2>1. window.query = "none" => "unreadable" \notin now
    BY <1>6 DEF Listing
  <2>2. window' \in WindowType /\ window'.page = "vault" /\ window'.query = window.query
    BY <1>3, <1>6, Known, ShowProps DEF Pages
  <2>3. fresh' \in SUBSET Lists /\ "vault" \in fresh'
    BY <1>3, <1>6, Known DEF Lists
  <2>4. timer' \in TimerType /\ timer'.active /\ form' \in FormType
    BY <1>3, <1>4, <1>6, Known
  <2> QED BY <1>3, <1>4, <1>6, <2>1, <2>2, <2>3, <2>4, OpenStep DEF VaultPages
<1> QED BY <1>5, <1>6

\* Only the dialogs change over an open vault.
LEMMA DialogStep ==
  ASSUME IInv, engine.opened, UNCHANGED <<files, storage, engine, fresh, form, program>>,
         window' \in WindowType, window'.page = window.page, window'.query = window.query,
         timer' = Reset
  PROVE  IInv'
<1>1. /\ window.page \in VaultPages
      /\ window.page \in {"vault", "folder"} => window.page \in fresh
      /\ window.page = "editor" =>
           /\ "offered" \in fresh
           /\ \A k \in Kinds : form.isNew \/ k = form.loaded => form.fields[k] # "another"
      /\ window.page = "vault" /\ window.query = "none" => "unreadable" \notin engine.flaws
  BY Known DEF IInv, PagesShowTheVault, ListsAreCurrent, FieldsAreOwn, WholeVaultIsListed
<1> QED BY <1>1, Known, OpenStep

\* A folder dialog opens, or the warning that a folder is not empty.
LEMMA AskStep ==
  ASSUME IInv, KeepFolder \/ \E page \in {"vault", "folder"}, d \in Dialogs : AskFolder(page, d)
  PROVE  IInv'
<1>1. PICK d \in Dialogs : window' = Over(d)
  BY DEF KeepFolder, AskFolder, Dialogs
<1>2. engine.opened /\ timer' = Reset /\ UNCHANGED <<files, storage, engine, fresh, form, program>>
  BY DEF KeepFolder, AskFolder, Calls
<1> QED BY <1>1, <1>2, Known, OverProps, DialogStep

\* A dialog is dismissed.
LEMMA DismissStep ==
  ASSUME IInv, Dismiss
  PROVE  IInv'
<1>1. /\ window' \in WindowType /\ window'.page = window.page /\ window'.query = window.query
      /\ timer' = Reset /\ UNCHANGED <<files, storage, engine, fresh, form, program>>
  BY Known, BackProps DEF Dismiss
<1>2. CASE engine.opened
  BY <1>1, <1>2, DialogStep
<1>3. CASE ~engine.opened
  BY <1>1, <1>3, Known, ClosedStep
<1> QED BY <1>2, <1>3

\* A folder dialog is answered.
LEMMA AcceptStep ==
  ASSUME IInv, Accept
  PROVE  IInv'
<1> DEFINE list == IF Top = "newFolder" THEN "vault" ELSE "folder"
<1>1. PICK cut \in SUBSET {"unreadable"}, unseen \in Worse :
        LET now == engine.flaws \cup cut
        IN /\ Commit(cut \cup unseen)
           /\ \E listed \in IF Top = "newFolder" THEN Listing(now, window.query) ELSE {cut = {}} :
                IF ~listed THEN Throw
                ELSE /\ engine' = [engine EXCEPT !.flaws = now]
                     /\ Refreshed({list})
                     /\ window' = Back
                     /\ timer' = Reset
                     /\ UNCHANGED <<storage, form, program>>
  BY DEF Accept
<1> DEFINE now == engine.flaws \cup cut
           f == cut \cup unseen
<1>2. f \in SUBSET Flaws /\ now \in SUBSET Held /\ Commit(f)
  BY <1>1, Known, WorseProps
<1>3. PICK listed \in IF Top = "newFolder" THEN Listing(now, window.query) ELSE {cut = {}} :
        IF ~listed THEN Throw
        ELSE /\ engine' = [engine EXCEPT !.flaws = now]
             /\ Refreshed({list})
             /\ window' = Back
             /\ timer' = Reset
             /\ UNCHANGED <<storage, form, program>>
  BY <1>1
<1>4. /\ engine.opened /\ Modal
      /\ files' \in [Paths -> Files]
      /\ files'[engine.path].kind = files[engine.path].kind
      /\ files'[engine.path].password = files[engine.path].password
  <2>1. engine.opened /\ Modal /\ engine.path \in Paths
    BY Known DEF Accept
  <2> HIDE DEF f
  <2> QED BY <1>2, <2>1, Known, CommitProps
<1>5. CASE ~listed
  BY <1>3, <1>4, <1>5, EndStep DEF Throw
<1>6. CASE listed
  <2>1. /\ window.page \in VaultPages
        /\ window.page \in {"vault", "folder"} => window.page \in fresh
        /\ window.page = "editor" =>
             /\ "offered" \in fresh
             /\ \A k \in Kinds : form.isNew \/ k = form.loaded => form.fields[k] # "another"
        /\ window.page = "vault" /\ window.query = "none" => "unreadable" \notin engine.flaws
    BY <1>4, Known DEF IInv, PagesShowTheVault, ListsAreCurrent, FieldsAreOwn, WholeVaultIsListed
  <2>2. window.page = "vault" /\ window.query = "none" => "unreadable" \notin now
    <3>1. CASE Top = "newFolder"
      BY <1>6, <3>1 DEF Listing
    <3>2. CASE Top # "newFolder"
      BY <1>6, <3>2, <2>1
    <3> QED BY <3>1, <3>2
  <2> HIDE DEF now
  <2>3. window' \in WindowType /\ window'.page = window.page /\ window'.query = window.query
    BY <1>3, <1>4, <1>6, Known, BackProps
  <2>4. fresh' \in SUBSET Lists /\ fresh \subseteq fresh'
    BY <1>3, <1>6, Known DEF Refreshed, Lists
  <2>5. timer' \in TimerType /\ timer'.active /\ form' = form /\ form' \in FormType
    BY <1>3, <1>4, <1>6, Known
  <2> QED BY <1>2, <1>3, <1>4, <1>6, <2>1, <2>2, <2>3, <2>4, <2>5, OpenStep
<1> QED BY <1>5, <1>6

\* Input, and time without it.
LEMMA TimerStep ==
  ASSUME IInv, Touch \/ Tick
  PROVE  IInv'
<1>1. timer' \in TimerType /\ timer'.active = timer.active
  <2>1. timer \in TimerType
    BY Known
  <2>2. CASE Touch
    BY <2>1, <2>2, ResetProps DEF Touch
  <2>3. CASE Tick
    <3> DEFINE left == timer.left - 1
    <3>1. timer.left \in 0 .. Patience /\ timer.left > 0
      BY <2>1, <2>3 DEF Tick, TimerType
    <3>2. left \in 0 .. Patience
      BY <3>1, SessionAssumption
    <3>3. timer' = [timer EXCEPT !.left = left]
      BY <2>3 DEF Tick
    <3> HIDE DEF left
    <3> QED BY <2>1, <3>2, <3>3 DEF TimerType
  <2> QED BY <2>2, <2>3
<1>2. UNCHANGED <<files, storage, engine, window, fresh, form, program>>
  BY DEF Touch, Tick
<1>3. TypeOK'
  BY <1>1, <1>2 DEF IInv, TypeOK, TimerType
<1> QED BY <1>1, <1>2, <1>3 DEF IInv, LockInv, PathInv, StreamIsTheVaults, PagesShowTheVault,
     ListsAreCurrent, FieldsAreOwn, WholeVaultIsListed

\* The vault is locked.
LEMMA LogoutStep ==
  ASSUME IInv, HandleLogout
  PROVE  IInv'
<1>1. window' \in WindowType /\ window'.page = "welcome"
  <2>1. Append(window.dialogs, "locked") \in Seq(Dialogs)
    BY Known, OverProps DEF Dialogs
  <2> QED BY <2>1, Known DEF HandleLogout, WindowType, Pages
<1>2. engine' \in EngineType /\ ~engine'.opened /\ storage' \in StreamType
  BY Known, Start DEF HandleLogout, CloseVault, EngineType
<1>3. timer' \in TimerType /\ ~timer'.active
  BY Start DEF HandleLogout, Stopped
<1>4. form' \in FormType
  <2>1. Aged \in [Kinds -> Owners]
    BY DEF Aged, Owners
  <2> QED BY <2>1, Known DEF HandleLogout, FormType
<1>5. TypeOK'
  BY <1>1, <1>2, <1>3, <1>4, Known
     DEF HandleLogout, TypeOK, StreamType, EngineType, WindowType, TimerType, FormType
<1>6. LockInv' /\ PathInv' /\ StreamIsTheVaults' /\ PagesShowTheVault' /\ WholeVaultIsListed'
  BY <1>1, <1>2, <1>3 DEF LockInv, PathInv, StreamIsTheVaults, PagesShowTheVault, ListsAreCurrent,
     FieldsAreOwn, WholeVaultIsListed, VaultPages
<1> QED BY <1>5, <1>6 DEF IInv

\* The program starts again.
LEMMA LaunchStep ==
  ASSUME IInv, Launch
  PROVE  IInv'
<1>1. UNCHANGED <<files, storage, engine, window, timer, fresh, form>> /\ program' = "running"
  BY DEF Launch
<1>2. TypeOK'
  BY <1>1 DEF IInv, TypeOK
<1> QED BY <1>1, <1>2 DEF IInv, LockInv, PathInv, StreamIsTheVaults, PagesShowTheVault,
     ListsAreCurrent, FieldsAreOwn, WholeVaultIsListed

\* The other ways for the process to end.
LEMMA ThrowStep ==
  ASSUME IInv,
         \/ \E p \in Paths, w \in Passwords : CreateCut(p, w)
         \/ CallOnClosed \/ CallCut \/ Quit
  PROVE  IInv'
<1>1. ASSUME NEW p \in Paths, NEW w \in Passwords, CreateCut(p, w)
      PROVE  files' \in [Paths -> Files] /\ End
  <2>1. File("short", Nobody) \in Files /\ Flawed(w, {"loading"}) \in Files
    BY DEF File, Flawed, Files, FileKinds, Flaws
  <2>2. PICK f \in {File("short", Nobody), Flawed(w, {"loading"})} :
          files' = [files EXCEPT ![p] = f]
    BY <1>1 DEF CreateCut
  <2>3. files' \in [Paths -> Files]
    BY <2>1, <2>2, Known
  <2> QED BY <1>1, <2>3 DEF CreateCut, Throw
<1>2. CASE CallCut
  <2>1. End /\ (UNCHANGED files \/ (engine.opened /\ \E f \in Worse : Commit(f)))
    BY <1>2 DEF CallCut, Throw
  <2>2. files' \in [Paths -> Files]
    <3>1. ASSUME engine.opened, NEW f \in Worse, Commit(f)
          PROVE  files' \in [Paths -> Files]
      BY <3>1, Known, CommitProps, WorseProps
    <3> QED BY <2>1, <3>1, Known
  <2> QED BY <2>1, <2>2, EndStep
<1>3. CASE CallOnClosed \/ Quit
  BY <1>3, Known, EndStep DEF CallOnClosed, Quit, Throw
<1> QED BY <1>1, <1>2, <1>3, EndStep

-----------------------------------------------------------------------------
LEMMA StepInv ==
  ASSUME IInv, [Next]_vars
  PROVE  IInv'
<1>1. CASE UserActs
  <2>1. CASE GoBack \/ Reject \/ \E page \in {"create", "open"} : Go(page)
    BY <2>1, FormStep
  <2>2. ASSUME NEW p \in Paths, NEW w \in Passwords, CreateVault(p, w)
        PROVE  IInv'
    BY <2>2, CreateVaultStep
  <2>3. ASSUME NEW p \in Paths \cup {NoPath}, NEW w \in Passwords, OpenRequested(p, w)
        PROVE  IInv'
    BY <2>3, OpenRequestedStep
  <2>4. CASE NewEntry
    <3>1. PICK k \in Kinds : TRUE
      BY SessionAssumption
    <3> QED BY <2>4, <3>1, EditorStep
  <2>5. ASSUME NEW k \in Kinds, SaveEntry(k) \/ EditEntry("vault", k) \/ EditEntry("folder", k)
        PROVE  IInv'
    BY <2>5, SaveEntryStep, EditorStep
  <2>6. CASE DeleteEntry \/ OpenFolder \/ LeaveFolder \/ DeleteFolder
    BY <2>6, DeleteEntryStep, FolderPageStep, DeleteFolderStep
  <2>7. CASE KeepFolder \/ AskFolder("vault", "newFolder") \/ AskFolder("folder", "editFolder")
    BY <2>7, AskStep DEF Dialogs
  <2>8. CASE Accept \/ Dismiss
    BY <2>8, AcceptStep, DismissStep
  <2>9. CASE CallOnClosed \/ Quit
    BY <2>9, ThrowStep
  <2>10. CASE Lock \/ Touch \/ Launch
    BY <2>10, LogoutStep, TimerStep, LaunchStep DEF Lock
  <2>11. ASSUME NEW query \in Queries, Search(query)
         PROVE  IInv'
    BY <2>11, SearchStep
  <2> QED BY <1>1, <2>1, <2>2, <2>3, <2>4, <2>5, <2>6, <2>7, <2>8, <2>9, <2>10, <2>11 DEF UserActs
<1>2. ASSUME NEW p \in Paths, NEW w \in Passwords, CreateCut(p, w)
      PROVE  IInv'
  BY <1>2, ThrowStep
<1>3. CASE CallCut \/ Tick \/ Timeout
  BY <1>3, ThrowStep, TimerStep, LogoutStep DEF Timeout
<1>4. CASE UNCHANGED vars
  BY <1>4 DEF vars, IInv, TypeOK, LockInv, PathInv, StreamIsTheVaults, PagesShowTheVault,
     ListsAreCurrent, FieldsAreOwn, WholeVaultIsListed
<1> QED BY <1>1, <1>2, <1>3, <1>4 DEF Next

\* The conjunction that is inductive holds in every state.
THEOREM Invariance == Spec => []IInv
<1>1. Init => IInv
  BY InitInv
<1>2. IInv /\ [Next]_vars => IInv'
  BY StepInv
<1> QED BY <1>1, <1>2, PTL DEF Spec

\* Type correctness.
THEOREM TypeCorrect == Spec => []TypeOK
<1>1. IInv => TypeOK
  BY DEF IInv
<1> QED BY <1>1, Invariance, PTL

\* An open vault is the file the user chose, opened with its password, in a
\* stream in order; its pages are in front and its timer runs, and neither
\* without it (VaultEngine::openVault, MainWindow::handleLogout).
THEOREM GuardCorrect == Spec => []OpenVaultIsGuarded
<1>1. IInv => OpenVaultIsGuarded
  BY DEF IInv, OpenVaultIsGuarded, LockIsComplete, LockInv
<1> QED BY <1>1, Invariance, PTL

\* No list in front shows what is gone, and the editor shows no other entry's
\* data for the kind it was opened with (EntryEditorPage::loadEntry).
THEOREM PagesCorrect == Spec => []PagesShowTheVault
<1>1. IInv => PagesShowTheVault
  BY DEF IInv
<1> QED BY <1>1, Invariance, PTL

\* Without a search text the vault page never shows a vault with a record that
\* cannot be read: whoever cuts or finds one ends the program before the page is
\* shown (VaultPage::performSearch, VaultEngine::getAllEntries).
THEOREM ListedCorrect == Spec => []WholeVaultIsListed
<1>1. IInv => WholeVaultIsListed
  BY DEF IInv
<1> QED BY <1>1, Invariance, PTL

=============================================================================
