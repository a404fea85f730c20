------------------------ MODULE EncryptedFilesProofs ------------------------
(* What a record, the row of its file and the bytes on disk promise each   *)
(* other (EncryptedFiles), proved for every number of cards, files and     *)
(* handlers.  A handler does one call a step, and so each invariant says   *)
(* what every handler in flight may still count on: the file it stored has *)
(* no row yet, the rows it listed are those of what it removes, the record *)
(* it read is the record still.                                            *)
EXTENDS EncryptedFiles, TLAPS

Texts == 0..MaxText
Docs == [text : Texts, file : 0..(MaxFile + 1)]
CardData == [state : {"none", "bare", "full"}, file : 0..MaxFile]
RowTable == [Files -> Purposes \cup {None}]
Kinds == {"idle", "text", "file", "clear", "load", "purge", "card", "issue", "backup"}
Steps == {"none", "temporary", "rename", "row", "write", "runtime", "shown", "list", "remove",
          "unlink", "delete", "create", "copy", "card", "tar"}
Handler == [kind : Kinds, of : Purposes \cup {None}, step : Steps, seen : Docs,
            file : 0..MaxFile, todo : SUBSET Files]
Archive ==
  [taken : {"no"}]
    \cup [taken : {"dump"}, doc : [Records -> Docs], card : [Cards -> CardData],
          purpose : RowTable, shown : 0..(MaxFile + 1)]
    \cup [taken : {"full"}, doc : [Records -> Docs], card : [Cards -> CardData],
          purpose : RowTable, shown : 0..(MaxFile + 1), disk : SUBSET Files, tmp : SUBSET Files]

\* Where a handler of each kind can be, and what its record then names.
InCourse(h) ==
  /\ h.kind = "idle" => h = Idle
  /\ h.kind = "text" => h.of \in Records /\ h.step \in {"write", "runtime"}
  /\ h.kind = "file" =>
       /\ h.of \in Records
       /\ h.step \in {"temporary", "rename", "row", "write", "runtime", "shown", "list", "remove", "unlink"}
       /\ h.step # "temporary" => h.file \in Files
  /\ h.kind = "clear" => h.of = Settings /\ h.step \in {"write", "runtime", "shown"}
  /\ h.kind = "load" => h.of = Settings /\ h.step = "runtime"
  /\ h.kind = "purge" => h.of \in {Profile, Editorial} /\ h.step \in {"list", "remove", "unlink", "delete"}
  /\ h.kind = "card" => h.of \in Cards /\ h.step \in {"list", "remove", "unlink", "delete"}
  /\ h.kind = "issue" => h.of \in Cards /\ h.step \in {"create", "copy", "temporary", "rename", "row", "card"}
  /\ h.kind = "backup" => h.of = None /\ h.step = "tar"
  /\ h.step \in {"create", "copy", "temporary"} => h.file = 0
  /\ h.step \in {"rename", "row", "unlink"} => h.file \in Files
  /\ h.step \in {"runtime", "shown"} => h.of = Settings

Course == job \in [Jobs -> Handler] /\ \A j \in Jobs : InCourse(job[j])

Tables ==
  /\ doc \in [Records -> Docs] /\ said \in [Records -> Docs]
  /\ card \in [Cards -> CardData]
  /\ purpose \in RowTable /\ disk \subseteq Files /\ tmp \subseteq Files
  /\ runtime \in Texts \cup {None} /\ shown \in 0..(MaxFile + 1)
  /\ archive \in Archive
  /\ lastFile \in 0..MaxFile /\ lastText \in Texts

Types == Tables /\ Course

-----------------------------------------------------------------------------
(* Rows and bytes.  A file in storing has a number of its own and no row;  *)
(* what a handler listed for removal was in the table when it did.         *)

Fresh(h) == h.step \in {"rename", "row"}

HeldOK(h) ==
  /\ h.step \in {"rename", "row", "unlink"} => h.file <= lastFile /\ purpose[h.file] = None
  /\ h.step = "row" => h.file \in disk
  /\ \A f \in h.todo : f <= lastFile

Apart(h, g) ==
  Fresh(h) => /\ g.step \in {"rename", "row", "unlink"} => g.file # h.file
              /\ h.file \notin g.todo

RowsOK ==
  \A f \in Files : purpose[f] # None => f <= lastFile /\ ("removed" \notin mishaps => f \in disk)

\* Between the dump and the files of a backup, with no removal in between.
Taking == archive.taken = "dump" /\ "removed" \notin mishaps /\ \E i \in Jobs : At(i, "tar")

ArchiveOK ==
  /\ archive.taken # "no" => \A f \in Files : archive.purpose[f] # None => f <= lastFile
  /\ archive.taken = "full" /\ "removed" \notin mishaps =>
       \A f \in Files : archive.purpose[f] # None => f \in archive.disk
  /\ Taking => /\ \A f \in Files : archive.purpose[f] # None => f \in disk
               /\ \A j \in Jobs : job[j].step \in {"rename", "row", "unlink"} =>
                                    archive.purpose[job[j].file] = None

FilesInv ==
  /\ RowsOK
  /\ \A j \in Jobs : HeldOK(job[j])
  /\ \A i, j \in Jobs : i # j => Apart(job[i], job[j])
  /\ ArchiveOK

-----------------------------------------------------------------------------
(* Cards.  Only the removal of a card, or of the account, touches its copy. *)

\* What a handler is removing: one purpose, or all an owner has.
Removes(h, p) == p = h.of \/ (h.kind = "purge" /\ OwnerOf(p) = h.of)

RemovalOK(h) ==
  /\ h.step \in {"remove", "unlink"} => \A f \in h.todo : purpose[f] # None => Removes(h, purpose[f])
  /\ h.kind \in {"card", "purge"} => \A p \in Purposes : Removes(h, p) => p \in doomed

IssueOK(h) ==
  h.kind = "issue" /\ h.step = "card" /\ h.file # 0 /\ h.of \notin doomed => purpose[h.file] = h.of

Copies(cards, rows) ==
  \A c \in Cards \ doomed :
    cards[c].state = "full" /\ cards[c].file # 0 => rows[cards[c].file] = c

CardsInv ==
  /\ Copies(card, purpose)
  /\ archive.taken # "no" => Copies(archive.card, archive.purpose)
  /\ \A j \in Jobs : RemovalOK(job[j]) /\ IssueOK(job[j])

-----------------------------------------------------------------------------
(* Records.  Handlers that meet are in clash; one that met no other finds  *)
(* the record as it left it.                                               *)

Meet(h, g) ==
  /\ h.kind # "idle" /\ g.kind # "idle" /\ None \notin {h.of, g.of}
  /\ h.of = g.of \/ ("purge" \in {h.kind, g.kind} /\ OwnerOf(h.of) = OwnerOf(g.of))

Met == \A i, j \in Jobs : i # j /\ Meet(job[i], job[j]) => job[i].of \in clash

RecordOK(h) ==
  LET r == h.of IN
  r \in Records \ clash =>
    /\ h.kind \in {"text", "file", "clear"} /\ h.step \in {"temporary", "rename", "row", "write"} =>
         h.seen = doc[r]
    /\ h.kind = "file" /\ h.step \in {"write", "runtime", "shown", "list"} => purpose[h.file] = r
    /\ h.kind = "file" /\ h.step \in {"runtime", "shown", "list"} => doc[r].file = h.file
    /\ h.kind = "file" /\ h.step \in {"remove", "unlink"} =>
         /\ doc[r].file \in Files /\ purpose[doc[r].file] = r
         /\ doc[r].file \notin h.todo

Names(docs, rows) ==
  \A r \in Records \ (clash \cup doomed) :
    docs[r].file # 0 => docs[r].file \in Files /\ rows[docs[r].file] = r

RecordsInv ==
  /\ Met
  /\ \A r \in Records \ clash : doc[r] = said[r]
  /\ Names(doc, purpose)
  /\ archive.taken # "no" => Names(archive.doc, archive.purpose)
  /\ \A j \in Jobs : RecordOK(job[j])

-----------------------------------------------------------------------------
(* The settings in memory, while nothing failed.                           *)

SettingsOK(h) ==
  h.of = Settings =>
    /\ h.step \in {"runtime", "shown"} => h.seen = doc[Settings]
    /\ h.step = "shown" => runtime = doc[Settings].text

SettingsInv ==
  /\ Settings \notin doomed
  /\ mishaps = {} /\ Settings \notin clash =>
       /\ (\A j \in Jobs : At(j, "runtime") => job[j].kind = "load") =>
            runtime \in {None, doc[Settings].text}
       /\ (\A j \in Jobs : At(j, "runtime") \/ At(j, "shown") => job[j].kind \notin {"file", "clear"}) =>
            shown = doc[Settings].file
       /\ \A j \in Jobs : SettingsOK(job[j])
       /\ archive.taken # "no" => archive.shown = archive.doc[Settings].file

-----------------------------------------------------------------------------
(* What is left behind, while nothing failed and no two handlers met.      *)

Smooth == mishaps = {} /\ clash = {}

\* A file the record no longer names, or does not name yet, that a handler sees to.
SeenTo(h, r, f) ==
  /\ h.of = r
  /\ \/ h.kind = "purge"
     \/ /\ h.kind = "file"
        /\ \/ h.step = "write" /\ f = h.file
           \/ h.step \in {"runtime", "shown", "list"}
           \/ h.step \in {"remove", "unlink"} /\ f \in h.todo

TidyOK(h) ==
  /\ h.kind = "file" => doc[h.of] # Gone
  /\ h.kind = "issue" => doc[Profile] # Gone
  /\ h.step \in {"remove", "unlink"} => \A f \in h.todo : purpose[f] # None
  /\ h.kind = "purge" /\ h.step \in {"remove", "unlink"} => RowsOf(h.of) \subseteq h.todo
  /\ h.kind = "purge" /\ h.step = "delete" => RowsOf(h.of) = {}

DiskTidy ==
  /\ \A f \in tmp : \E j \in Jobs : At(j, "rename") /\ job[j].file = f
  /\ \A f \in disk : purpose[f] = None =>
       \E j \in Jobs : job[j].step \in {"row", "unlink"} /\ job[j].file = f

RowsTidy ==
  \A r \in Records :
    /\ doc[r].file \in Files =>
         /\ \A f \in Rows(r) : f = doc[r].file \/ \E j \in Jobs : SeenTo(job[j], r, f)
         /\ purpose[doc[r].file] = r \/ \E j \in Jobs : job[j].of = r /\ job[j].kind = "purge"
    /\ doc[r] = Gone => RowsOf(r) = {}

ArchiveTidy ==
  /\ archive.taken = "dump" /\ (\E i \in Jobs : At(i, "tar")) =>
       /\ archive.purpose = purpose
       /\ \A j \in Jobs : job[j].step \notin {"rename", "row", "unlink"}
  /\ archive.taken = "full" =>
       archive.tmp = {} /\ archive.disk = {f \in Files : archive.purpose[f] # None}
  /\ archive.taken # "no" =>
       \A r \in Records :
         /\ archive.doc[r].file \in Files =>
              {f \in Files : archive.purpose[f] = r} = {archive.doc[r].file}
         /\ archive.doc[r] = Gone =>
              \A f \in Files : archive.purpose[f] # None => OwnerOf(archive.purpose[f]) # r

TidyInv ==
  Smooth => DiskTidy /\ RowsTidy /\ ArchiveTidy /\ \A j \in Jobs : TidyOK(job[j])


-----------------------------------------------------------------------------
(* Types                                                                   *)

LEMMA Purposeful ==
    /\ None \notin Purposes /\ Records \subseteq Purposes /\ Cards \subseteq Purposes
    /\ Profile \in Records /\ Editorial \in Records /\ Settings \in Records
    /\ Profile # Editorial /\ Profile # Settings /\ Editorial # Settings
    /\ \A c \in Cards : c \notin Records /\ OwnerOf(c) = Profile
    /\ \A r \in Records : r \notin Cards /\ OwnerOf(r) = r
  BY RecordAssumption, CardAssumption DEF Purposes, Records, OwnerOf

LEMMA Numbers ==
    /\ MaxFile \in Nat /\ MaxText \in Nat
    /\ \A f \in Files : f \in Nat /\ f # 0 /\ f <= MaxFile /\ f \in 0..MaxFile
    /\ \A f \in 0..MaxFile : f # 0 => f \in Files
    /\ MaxFile + 1 \notin Files /\ MaxFile + 1 # 0 /\ 0 \notin Files
  BY BoundAssumption DEF Files

LEMMA GoneOK == Gone \in Docs /\ Gone.file = MaxFile + 1 /\ Gone.text = 0
  BY Numbers DEF Gone, Docs, Texts

LEMMA IdleOK ==
    /\ Idle \in Handler /\ InCourse(Idle)
    /\ Idle.kind = "idle" /\ Idle.of = None /\ Idle.step = "none" /\ Idle.seen = Gone
    /\ Idle.file = 0 /\ Idle.todo = {}
<1>1. Idle \in Handler
  BY GoneOK, Numbers DEF Idle, Handler, Kinds, Steps
<1>2. QED
  BY <1>1 DEF Idle, InCourse

LEMMA SetCourse ==
    ASSUME Course, NEW j \in Jobs, NEW r \in Handler, InCourse(r), Set(j, r)
    PROVE  /\ Course'
           /\ \A i \in Jobs : job'[i] = IF i = j THEN r ELSE job[i]
<1>1. job' \in [Jobs -> Handler]
  BY DEF Course, Set
<1>2. \A i \in Jobs : job'[i] = IF i = j THEN r ELSE job[i]
  BY DEF Course, Set
<1>3. QED
  BY <1>1, <1>2 DEF Course

LEMMA EndCourse ==
    ASSUME Course, NEW j \in Jobs, End(j)
    PROVE  /\ Course'
           /\ \A i \in Jobs : job'[i] = IF i = j THEN Idle ELSE job[i]
  BY IdleOK, SetCourse DEF End

\* The shapes a step of handler j has: the other handlers stay as they are,
\* and it begins, goes on at another step, or ends.
Others(j) == \A i \in Jobs \ {j} : job'[i] = job[i]
Begins(j, k, p, s, d) ==
  /\ Others(j)
  /\ job'[j].kind = k /\ job'[j].of = p /\ job'[j].step = s
  /\ job'[j].seen = d /\ job'[j].file = 0 /\ job'[j].todo = {}
Keeps(j) == Others(j) /\ job'[j].kind = job[j].kind /\ job'[j].of = job[j].of
Goes(j, s) ==
  /\ Keeps(j) /\ job'[j].step = s
  /\ job'[j].seen = job[j].seen /\ job'[j].file = job[j].file /\ job'[j].todo = job[j].todo
Ends(j) == Others(j) /\ job'[j] = Idle

LEMMA BeginShape ==
    ASSUME Types, NEW j \in Jobs, NEW k \in Kinds, NEW p \in Purposes \cup {None}, NEW s \in Steps,
           NEW d \in Docs, NEW q, q = [Idle EXCEPT !.seen = d], Start(j, k, p, s, q),
           \A h \in Handler : h.kind = k /\ h.of = p /\ h.step = s /\ h.file = 0 => InCourse(h)
    PROVE  Course' /\ Begins(j, k, p, s, d)
<1>1. PICK h : h = [q EXCEPT !.kind = k, !.of = p, !.step = s]
  OBVIOUS
<1>2. h \in Handler
  BY <1>1, IdleOK DEF Handler
<1>3. h.kind = k /\ h.of = p /\ h.step = s /\ h.seen = d /\ h.file = 0 /\ h.todo = {}
  BY <1>1, IdleOK DEF Idle
<1>4. Set(j, h)
  BY <1>1 DEF Start
<1>5. QED
  BY <1>2, <1>3, <1>4, SetCourse DEF Begins, Others, Types

LEMMA GoShape ==
    ASSUME Types, NEW j \in Jobs, NEW s \in Steps, Go(j, s),
           \A h \in Handler : h.kind = job[j].kind /\ h.of = job[j].of /\ h.file = job[j].file /\ h.step = s => InCourse(h)
    PROVE  Course' /\ Goes(j, s)
<1>1. PICK h : h = [job[j] EXCEPT !.step = s]
  OBVIOUS
<1>2. job[j] \in Handler
  BY DEF Types, Course
<1>3. h \in Handler
  BY <1>1, <1>2 DEF Handler
<1>4. /\ h.kind = job[j].kind /\ h.of = job[j].of /\ h.step = s
      /\ h.seen = job[j].seen /\ h.file = job[j].file /\ h.todo = job[j].todo
  BY <1>1, <1>2 DEF Handler
<1>5. Set(j, h)
  BY <1>1 DEF Go
<1>6. QED
  BY <1>3, <1>4, <1>5, SetCourse DEF Goes, Keeps, Others, Types

LEMMA EndShape ==
    ASSUME Types, NEW j \in Jobs, End(j)
    PROVE  Course' /\ Ends(j)
  BY EndCourse DEF Ends, Others, Types

\* Nothing but the handlers and what a property remembers of them.
LEMMA SameTables ==
    ASSUME Types, Course', UNCHANGED <<doc, card, files, memory, archive, said, counters>>
    PROVE  Types'
  BY DEF Types, Tables, files, memory, counters

LEMMA SaveShape ==
    ASSUME Types, NEW j \in Jobs, NEW r \in Records, Save(j, r)
    PROVE  Types' /\ Begins(j, "text", r, "write", doc[r])
<1>1. doc[r] \in Docs /\ r \in Purposes
  BY Purposeful DEF Types, Tables
<1>2. \A h \in Handler : h.kind = "text" /\ h.of = r /\ h.step = "write" => InCourse(h)
  BY DEF InCourse
<1>3. Course' /\ Begins(j, "text", r, "write", doc[r])
  BY <1>1, <1>2, BeginShape DEF Save, Kinds, Steps
<1>4. QED
  BY <1>3, SameTables DEF Save

LEMMA UploadShape ==
    ASSUME Types, NEW j \in Jobs, NEW r \in Records, Upload(j, r)
    PROVE  Types' /\ Begins(j, "file", r, "temporary", doc[r])
<1>1. doc[r] \in Docs /\ r \in Purposes
  BY Purposeful DEF Types, Tables
<1>2. \A h \in Handler : h.kind = "file" /\ h.of = r /\ h.step = "temporary" /\ h.file = 0 => InCourse(h)
  BY DEF InCourse
<1>3. Course' /\ Begins(j, "file", r, "temporary", doc[r])
  BY <1>1, <1>2, BeginShape DEF Upload, Kinds, Steps
<1>4. QED
  BY <1>3, SameTables DEF Upload

LEMMA ClearLogoShape ==
    ASSUME Types, NEW j \in Jobs, ClearLogo(j)
    PROVE  Types' /\ Begins(j, "clear", Settings, "write", doc[Settings])
<1>1. doc[Settings] \in Docs /\ Settings \in Purposes
  BY Purposeful DEF Types, Tables
<1>2. \A h \in Handler : h.kind = "clear" /\ h.of = Settings /\ h.step = "write" => InCourse(h)
  BY DEF InCourse
<1>3. Course' /\ Begins(j, "clear", Settings, "write", doc[Settings])
  BY <1>1, <1>2, BeginShape DEF ClearLogo, Kinds, Steps
<1>4. QED
  BY <1>3, SameTables DEF ClearLogo

LEMMA LoadSettingsShape ==
    ASSUME Types, NEW j \in Jobs, LoadSettings(j)
    PROVE  Types' /\ Begins(j, "load", Settings, "runtime", doc[Settings])
<1>1. doc[Settings] \in Docs /\ Settings \in Purposes
  BY Purposeful DEF Types, Tables
<1>2. \A h \in Handler : h.kind = "load" /\ h.of = Settings /\ h.step = "runtime" => InCourse(h)
  BY DEF InCourse
<1>3. Course' /\ Begins(j, "load", Settings, "runtime", doc[Settings])
  BY <1>1, <1>2, BeginShape DEF LoadSettings, Kinds, Steps
<1>4. QED
  BY <1>3, SameTables DEF LoadSettings

LEMMA IdleIsUnread == Idle = [Idle EXCEPT !.seen = Gone]
  BY DEF Idle

LEMMA PurgeShape ==
    ASSUME Types, NEW j \in Jobs, NEW r \in Records, Purge(j, r)
    PROVE  Types' /\ Begins(j, "purge", r, "list", Gone) /\ r \in {Profile, Editorial}
<1>1. r \in {Profile, Editorial} /\ r \in Purposes
  BY Purposeful DEF Purge, Records
<1>2. \A h \in Handler : h.kind = "purge" /\ h.of = r /\ h.step = "list" => InCourse(h)
  BY <1>1 DEF InCourse
<1>3. Course' /\ Begins(j, "purge", r, "list", Gone)
  BY <1>1, <1>2, GoneOK, IdleIsUnread, BeginShape DEF Purge, Kinds, Steps
<1>4. QED
  BY <1>1, <1>3, SameTables DEF Purge

LEMMA RemoveCardShape ==
    ASSUME Types, NEW j \in Jobs, NEW c \in Cards, RemoveCard(j, c)
    PROVE  Types' /\ Begins(j, "card", c, "list", Gone)
<1>1. \A h \in Handler : h.kind = "card" /\ h.of = c /\ h.step = "list" => InCourse(h)
  BY DEF InCourse
<1>2. Course' /\ Begins(j, "card", c, "list", Gone)
  BY <1>1, GoneOK, IdleIsUnread, Purposeful, BeginShape DEF RemoveCard, Kinds, Steps
<1>3. QED
  BY <1>2, SameTables DEF RemoveCard

LEMMA IssueShape ==
    ASSUME Types, NEW j \in Jobs, NEW c \in Cards, Issue(j, c)
    PROVE  Types' /\ Begins(j, "issue", c, "create", doc[Editorial])
<1>1. doc[Editorial] \in Docs /\ c \in Purposes
  BY Purposeful DEF Types, Tables
<1>2. \A h \in Handler : h.kind = "issue" /\ h.of = c /\ h.step = "create" /\ h.file = 0 => InCourse(h)
  BY DEF InCourse
<1>3. Course' /\ Begins(j, "issue", c, "create", doc[Editorial])
  BY <1>1, <1>2, BeginShape DEF Issue, Kinds, Steps
<1>4. QED
  BY <1>3, SameTables DEF Issue

LEMMA DumpShape ==
    ASSUME Types, NEW j \in Jobs, Dump(j)
    PROVE  Types' /\ Begins(j, "backup", None, "tar", Gone)
<1>1. \A h \in Handler : h.kind = "backup" /\ h.of = None /\ h.step = "tar" => InCourse(h)
  BY DEF InCourse
<1>2. Course' /\ Begins(j, "backup", None, "tar", Gone)
  BY <1>1, GoneOK, IdleIsUnread, BeginShape DEF Dump, Kinds, Steps
<1>3. archive' \in Archive
  BY DEF Dump, Types, Tables, Archive
<1>4. QED
  BY <1>2, <1>3 DEF Dump, Types, Tables, files, memory, counters


LEMMA HandlerAt == ASSUME Types, NEW j \in Jobs PROVE job[j] \in Handler /\ InCourse(job[j])
  BY DEF Types, Course

LEMMA WriteTemporaryShape ==
    ASSUME Types, NEW j \in Jobs, WriteTemporary(j)
    PROVE  /\ Types' /\ Keeps(j) /\ job'[j].step = "rename" /\ job'[j].file = lastFile + 1
           /\ job'[j].seen = job[j].seen /\ job'[j].todo = job[j].todo
           /\ lastFile' = lastFile + 1 /\ lastFile \in Nat /\ lastFile + 1 \in Files
<1>1. PICK h : h = [job[j] EXCEPT !.step = "rename", !.file = lastFile + 1]
  OBVIOUS
<1>2. job[j] \in Handler /\ InCourse(job[j]) /\ job[j].step = "temporary"
  BY HandlerAt DEF WriteTemporary, At
<1>3. lastFile \in Nat /\ lastFile + 1 \in Files /\ lastFile + 1 \in 0..MaxFile
  BY Numbers DEF WriteTemporary, Types, Tables, Files
<1>4. h \in Handler
  BY <1>1, <1>2, <1>3 DEF Handler, Steps
<1>5. /\ h.kind = job[j].kind /\ h.of = job[j].of /\ h.step = "rename" /\ h.file = lastFile + 1
      /\ h.seen = job[j].seen /\ h.todo = job[j].todo
  BY <1>1, <1>2 DEF Handler
<1>6. job[j].kind \in {"file", "issue"}
  BY <1>2 DEF InCourse, Handler, Kinds, Idle
<1>7. InCourse(h)
  BY <1>2, <1>3, <1>5, <1>6 DEF InCourse
<1>8. Set(j, h)
  BY <1>1 DEF WriteTemporary
<1>9. Course' /\ Others(j) /\ job'[j] = h
  BY <1>4, <1>7, <1>8, SetCourse DEF Others, Types
<1>10. QED
  BY <1>3, <1>5, <1>9 DEF WriteTemporary, Keeps, Types, Tables, memory

LEMMA RenameShape ==
    ASSUME Types, NEW j \in Jobs, Rename(j)
    PROVE  Types' /\ Goes(j, "row") /\ job[j].file \in Files
<1>1. job[j] \in Handler /\ InCourse(job[j]) /\ job[j].step = "rename"
  BY HandlerAt DEF Rename, At
<1>2. job[j].kind \in {"file", "issue"} /\ job[j].file \in Files
  BY <1>1 DEF InCourse, Handler, Kinds, Idle
<1>3. Course' /\ Goes(j, "row")
  BY <1>1, <1>2, GoShape DEF Rename, InCourse, Steps
<1>4. QED
  BY <1>2, <1>3 DEF Rename, Types, Tables, memory, history, counters

LEMMA CreateRowShape ==
    ASSUME Types, NEW j \in Jobs, CreateRow(j)
    PROVE  /\ Types' /\ job[j].file \in Files
           /\ \/ job[j].kind = "issue" /\ job[j].of \in Cards /\ Goes(j, "card")
              \/ job[j].kind = "file" /\ job[j].of \in Records /\ Goes(j, "write")
<1>1. job[j] \in Handler /\ InCourse(job[j]) /\ job[j].step = "row"
  BY HandlerAt DEF CreateRow, At
<1>2. /\ job[j].file \in Files
      /\ \/ job[j].kind = "issue" /\ job[j].of \in Cards
         \/ job[j].kind = "file" /\ job[j].of \in Records
  BY <1>1 DEF InCourse, Handler, Kinds, Idle
<1>3. Course' /\ Goes(j, IF job[j].kind = "issue" THEN "card" ELSE "write")
  <2>1. CASE job[j].kind = "issue"
    BY <1>1, <1>2, <2>1, GoShape DEF CreateRow, InCourse, Steps
  <2>2. CASE job[j].kind = "file"
    BY <1>1, <1>2, <2>2, GoShape DEF CreateRow, InCourse, Steps
  <2>3. QED
    BY <1>2, <2>1, <2>2
<1>4. purpose' \in RowTable
  BY <1>2, Purposeful DEF CreateRow, Types, Tables, RowTable
<1>5. QED
  BY <1>2, <1>3, <1>4 DEF CreateRow, Types, Tables, memory, history, counters

LEMMA MergedOK ==
    ASSUME Types, NEW j \in Jobs, At(j, "write"), job[j].kind = "text" => lastText < MaxText
    PROVE  /\ Merged(j) \in Docs
           /\ job[j].kind \in {"text", "file", "clear"} /\ job[j].of \in Records
           /\ job[j].kind = "text" => /\ Merged(j) = [job[j].seen EXCEPT !.text = lastText + 1]
                                      /\ lastText + 1 \in Texts
           /\ job[j].kind = "file" => /\ Merged(j) = [job[j].seen EXCEPT !.file = job[j].file]
                                      /\ job[j].file \in Files
           /\ job[j].kind = "clear" => Merged(j) = [job[j].seen EXCEPT !.file = 0] /\ job[j].of = Settings
<1>1. job[j] \in Handler /\ InCourse(job[j]) /\ job[j].step = "write"
  BY HandlerAt DEF At
<1>2. /\ job[j].kind \in {"text", "file", "clear"} /\ job[j].of \in Records
      /\ job[j].kind = "file" => job[j].file \in Files
      /\ job[j].kind = "clear" => job[j].of = Settings
  BY <1>1, Purposeful DEF InCourse, Handler, Kinds, Idle
<1>3. job[j].seen \in Docs /\ job[j].file \in 0..(MaxFile + 1) /\ 0 \in 0..(MaxFile + 1)
  BY <1>1, Numbers DEF Handler
<1>4. job[j].kind = "text" => lastText + 1 \in Texts
  BY Numbers DEF Types, Tables, Texts
<1>5. CASE job[j].kind = "text"
  BY <1>2, <1>3, <1>4, <1>5 DEF Merged, Docs
<1>6. CASE job[j].kind = "file"
  BY <1>2, <1>3, <1>6 DEF Merged, Docs
<1>7. CASE job[j].kind = "clear"
  BY <1>2, <1>3, <1>7 DEF Merged, Docs
<1>8. QED
  BY <1>2, <1>5, <1>6, <1>7

LEMMA WriteShape ==
    ASSUME Types, NEW j \in Jobs, Write(j)
    PROVE  /\ Types'
           /\ \/ /\ job[j].of = Settings /\ Keeps(j) /\ job'[j].step = "runtime"
                 /\ job'[j].seen = Merged(j) /\ job'[j].file = job[j].file
                 /\ job'[j].todo = job[j].todo
              \/ job[j].of # Settings /\ job[j].kind = "text" /\ Ends(j)
              \/ job[j].of # Settings /\ job[j].kind = "file" /\ Goes(j, "list")
<1>1. job[j] \in Handler /\ InCourse(job[j]) /\ job[j].step = "write"
  BY HandlerAt DEF Write, At
<1>2. /\ Merged(j) \in Docs /\ job[j].of \in Records
      /\ job[j].kind \in {"text", "file", "clear"}
      /\ job[j].kind = "text" => lastText + 1 \in Texts
      /\ job[j].kind = "file" => job[j].file \in Files
      /\ job[j].kind = "clear" => job[j].of = Settings
  BY MergedOK DEF Write
<1>3. ASSUME job[j].of = Settings
      PROVE  /\ Course' /\ Keeps(j) /\ job'[j].step = "runtime" /\ job'[j].seen = Merged(j)
             /\ job'[j].file = job[j].file /\ job'[j].todo = job[j].todo
  <2>1. PICK h : h = [job[j] EXCEPT !.step = "runtime", !.seen = Merged(j)]
    OBVIOUS
  <2>2. h \in Handler
    BY <1>1, <1>2, <2>1 DEF Handler, Steps
  <2>3. /\ h.kind = job[j].kind /\ h.of = job[j].of /\ h.step = "runtime" /\ h.seen = Merged(j)
        /\ h.file = job[j].file /\ h.todo = job[j].todo
    BY <1>1, <2>1 DEF Handler
  <2>4. InCourse(h)
    BY <1>1, <1>2, <1>3, <2>3 DEF InCourse
  <2>5. Set(j, h)
    BY <1>3, <2>1 DEF Write
  <2>6. Course' /\ Others(j) /\ job'[j] = h
    BY <2>2, <2>4, <2>5, SetCourse DEF Others, Types
  <2>7. QED
    BY <1>3, <2>3, <2>6 DEF Keeps
<1>4. ASSUME job[j].of # Settings, job[j].kind = "text"
      PROVE  Course' /\ Ends(j)
  BY <1>4, EndShape DEF Write
<1>5. ASSUME job[j].of # Settings, job[j].kind = "file"
      PROVE  Course' /\ Goes(j, "list")
  <2>1. Go(j, "list")
    BY <1>5 DEF Write
  <2>2. QED
    BY <1>1, <1>2, <1>5, <2>1, GoShape DEF InCourse, Steps
<1>6. Course' /\ \/ /\ job[j].of = Settings /\ Keeps(j) /\ job'[j].step = "runtime"
                    /\ job'[j].seen = Merged(j) /\ job'[j].file = job[j].file
                    /\ job'[j].todo = job[j].todo
                 \/ job[j].of # Settings /\ job[j].kind = "text" /\ Ends(j)
                 \/ job[j].of # Settings /\ job[j].kind = "file" /\ Goes(j, "list")
  BY <1>2, <1>3, <1>4, <1>5
<1>7. doc' \in [Records -> Docs] /\ lastText' \in Texts
  BY <1>2 DEF Write, Types, Tables
<1>8. said' \in [Records -> Docs]
  <2>1. said[job[j].of] \in Docs /\ job[j].file \in 0..(MaxFile + 1) /\ 0 \in 0..(MaxFile + 1)
    BY <1>1, <1>2, Numbers DEF Types, Tables, Handler
  <2>2. PICK d : d = IF job[j].kind = "text" THEN [said[job[j].of] EXCEPT !.text = lastText + 1]
                     ELSE [said[job[j].of] EXCEPT !.file = IF job[j].kind = "file" THEN job[j].file ELSE 0]
    OBVIOUS
  <2>3. d \in Docs
    BY <1>2, <2>1, <2>2 DEF Docs
  <2>4. said' = [said EXCEPT ![job[j].of] = d]
    BY <2>2 DEF Write
  <2>5. QED
    BY <1>2, <2>3, <2>4 DEF Types, Tables
<1>9. QED
  BY <1>6, <1>7, <1>8 DEF Write, Types, Tables, files, memory


LEMMA SetRuntimeShape ==
    ASSUME Types, NEW j \in Jobs, SetRuntime(j)
    PROVE  /\ Types' /\ job[j].of = Settings /\ job[j].kind \in {"text", "file", "clear", "load"}
           /\ \/ /\ job[j].kind \in {"file", "load"} /\ ~Readable(job[j].seen.file)
                 /\ runtime' = runtime /\ Ends(j)
              \/ /\ runtime' = job[j].seen.text
                 /\ job[j].kind \in {"file", "clear"} /\ Goes(j, "shown")
              \/ /\ runtime' = job[j].seen.text
                 /\ job[j].kind \in {"text", "load"} /\ Ends(j)
<1>1. job[j] \in Handler /\ InCourse(job[j]) /\ job[j].step = "runtime"
  BY HandlerAt DEF SetRuntime, At
<1>2. job[j].of = Settings /\ job[j].kind \in {"text", "file", "clear", "load"}
  BY <1>1, IdleOK DEF InCourse, Handler, Kinds
<1>3. ASSUME job[j].kind \in {"file", "clear"}, Go(j, "shown")
      PROVE  Course' /\ Goes(j, "shown")
  BY <1>1, <1>2, <1>3, GoShape DEF InCourse, Steps
<1>4. Course' /\
           \/ /\ job[j].kind \in {"file", "load"} /\ ~Readable(job[j].seen.file)
              /\ runtime' = runtime /\ Ends(j)
           \/ /\ runtime' = job[j].seen.text
              /\ job[j].kind \in {"file", "clear"} /\ Goes(j, "shown")
           \/ /\ runtime' = job[j].seen.text
              /\ job[j].kind \in {"text", "load"} /\ Ends(j)
  BY <1>2, <1>3, EndShape DEF SetRuntime
<1>5. runtime' \in Texts \cup {None}
  BY <1>1, <1>4 DEF Types, Tables, Handler, Docs
<1>6. QED
  BY <1>2, <1>4, <1>5 DEF SetRuntime, Types, Tables, files, history, counters

LEMMA WriteShownShape ==
    ASSUME Types, NEW j \in Jobs, WriteShown(j)
    PROVE  /\ Types' /\ job[j].of = Settings
           /\ \/ job[j].kind = "file" /\ Goes(j, "list")
              \/ job[j].kind = "clear" /\ Ends(j)
<1>1. job[j] \in Handler /\ InCourse(job[j]) /\ job[j].step = "shown"
  BY HandlerAt DEF WriteShown, At
<1>2. job[j].of = Settings /\ job[j].kind \in {"file", "clear"}
  BY <1>1, IdleOK DEF InCourse, Handler, Kinds
<1>3. ASSUME job[j].kind = "file", Go(j, "list")
      PROVE  Course' /\ Goes(j, "list")
  BY <1>1, <1>2, <1>3, GoShape DEF InCourse, Steps
<1>4. Course' /\ \/ job[j].kind = "file" /\ Goes(j, "list")
                 \/ job[j].kind = "clear" /\ Ends(j)
  BY <1>2, <1>3, EndShape DEF WriteShown
<1>5. shown' \in 0..(MaxFile + 1)
  BY <1>1 DEF WriteShown, Handler, Docs
<1>6. QED
  BY <1>2, <1>4, <1>5 DEF WriteShown, Types, Tables, files, history, counters

\* A set of rows for removal: those the record no longer names, of the card, of the owner.
ListShape(j, todo) ==
  \/ job[j].kind = "file" /\ todo = Rows(job[j].of) \ Kept(j)
  \/ job[j].kind = "card" /\ todo = Rows(job[j].of)
  \/ job[j].kind = "purge" /\ todo = RowsOf(job[j].of)

LEMMA ListedShape ==
    ASSUME Types, NEW j \in Jobs, List(j)
    PROVE  /\ Types' /\ Keeps(j) /\ job'[j].step = "remove" /\ ListShape(j, job'[j].todo)
           /\ job'[j].file = job[j].file /\ job'[j].seen = job[j].seen
<1>1. job[j] \in Handler /\ InCourse(job[j]) /\ job[j].step = "list"
  BY HandlerAt DEF List, At
<1>2. job[j].kind \in {"file", "card", "purge"}
  BY <1>1, IdleOK DEF InCourse, Handler, Kinds
<1>3. PICK todo : todo = CASE job[j].kind = "file" -> Rows(job[j].of) \ Kept(j)
                           [] job[j].kind = "card" -> Rows(job[j].of)
                           [] job[j].kind = "purge" -> RowsOf(job[j].of)
  OBVIOUS
<1>4. ListShape(j, todo)
  BY <1>2, <1>3 DEF ListShape
<1>5. todo \subseteq Files
  BY <1>4 DEF ListShape, Rows, RowsOf
<1>6. PICK h : h = [job[j] EXCEPT !.step = "remove", !.todo = todo]
  OBVIOUS
<1>7. h \in Handler
  BY <1>1, <1>5, <1>6 DEF Handler, Steps
<1>8. /\ h.kind = job[j].kind /\ h.of = job[j].of /\ h.step = "remove" /\ h.seen = job[j].seen
      /\ h.file = job[j].file /\ h.todo = todo
  BY <1>1, <1>6 DEF Handler
<1>9. InCourse(h)
  BY <1>1, <1>2, <1>8 DEF InCourse
<1>10. Set(j, h)
  BY <1>3, <1>6 DEF List
<1>11. Course' /\ Others(j) /\ job'[j] = h
  BY <1>7, <1>9, <1>10, SetCourse DEF Others, Types
<1>12. Types'
  BY <1>11 DEF List, Types, Tables, files, memory, history, counters
<1>13. QED
  BY <1>4, <1>8, <1>11, <1>12 DEF Keeps

LEMMA RemoveRowShape ==
    ASSUME Types, NEW j \in Jobs, NEW f \in Files, RemoveRow(j, f)
    PROVE  /\ Types' /\ job[j].kind \in {"file", "card", "purge"} /\ job[j].of \in Purposes
           /\ \/ purpose[f] = None /\ purpose' = purpose /\ mishaps' = mishaps
                 /\ \/ job[j].kind = "purge" /\ job[j].of = Profile /\ Goes(j, "delete")
                    \/ ~(job[j].kind = "purge" /\ job[j].of = Profile) /\ Ends(j)
              \/ /\ purpose[f] # None /\ purpose' = [purpose EXCEPT ![f] = None]
                 /\ mishaps \subseteq mishaps'
                 /\ (\E i \in Jobs : At(i, "tar")) => "removed" \in mishaps'
                 /\ mishaps' # mishaps => "removed" \in mishaps'
                 /\ Keeps(j) /\ job'[j].step = "unlink" /\ job'[j].file = f
                 /\ job'[j].seen = job[j].seen /\ job'[j].todo = job[j].todo \ {f}
<1>1. job[j] \in Handler /\ InCourse(job[j]) /\ job[j].step = "remove"
  BY HandlerAt DEF RemoveRow, At
<1>2. job[j].kind \in {"file", "card", "purge"} /\ job[j].of \in Purposes
  BY <1>1, IdleOK, Purposeful DEF InCourse, Handler, Kinds
<1>3. ASSUME purpose[f] = None, UNCHANGED <<purpose, mishaps>>,
             IF job[j].kind = "purge" /\ job[j].of = Profile THEN Go(j, "delete") ELSE End(j)
      PROVE  Types' /\ \/ job[j].kind = "purge" /\ job[j].of = Profile /\ Goes(j, "delete")
                       \/ ~(job[j].kind = "purge" /\ job[j].of = Profile) /\ Ends(j)
  <2>1. ASSUME job[j].kind = "purge", job[j].of = Profile, Go(j, "delete")
        PROVE  Course' /\ Goes(j, "delete")
    BY <1>1, <1>2, <2>1, GoShape DEF InCourse, Steps
  <2>2. Course' /\ \/ job[j].kind = "purge" /\ job[j].of = Profile /\ Goes(j, "delete")
                   \/ ~(job[j].kind = "purge" /\ job[j].of = Profile) /\ Ends(j)
    BY <1>3, <2>1, EndShape
  <2>3. QED
    BY <1>3, <2>2 DEF RemoveRow, Types, Tables, memory, counters
<1>4. ASSUME purpose[f] # None, purpose' = [purpose EXCEPT ![f] = None],
             Set(j, [job[j] EXCEPT !.step = "unlink", !.file = f, !.todo = @ \ {f}])
      PROVE  /\ Types' /\ Keeps(j) /\ job'[j].step = "unlink" /\ job'[j].file = f
             /\ job'[j].seen = job[j].seen /\ job'[j].todo = job[j].todo \ {f}
  <2>1. PICK h : h = [job[j] EXCEPT !.step = "unlink", !.file = f, !.todo = @ \ {f}]
    OBVIOUS
  <2>2. h \in Handler
    BY <1>1, <2>1, Numbers DEF Handler, Steps
  <2>3. /\ h.kind = job[j].kind /\ h.of = job[j].of /\ h.step = "unlink" /\ h.seen = job[j].seen
        /\ h.file = f /\ h.todo = job[j].todo \ {f}
    BY <1>1, <2>1 DEF Handler
  <2>4. InCourse(h)
    BY <1>1, <1>2, <2>3 DEF InCourse
  <2>5. Set(j, h)
    BY <1>4, <2>1
  <2>6. Course' /\ Others(j) /\ job'[j] = h
    BY <2>2, <2>4, <2>5, SetCourse DEF Others, Types
  <2>7. purpose' \in RowTable
    BY <1>4 DEF Types, Tables, RowTable
  <2>8. Types'
    BY <2>6, <2>7 DEF RemoveRow, Types, Tables, memory, counters
  <2>9. QED
    BY <2>3, <2>6, <2>8 DEF Keeps
<1>5. QED
  BY <1>2, <1>3, <1>4 DEF RemoveRow

LEMMA UnlinkShape ==
    ASSUME Types, NEW j \in Jobs, Unlink(j)
    PROVE  /\ Types' /\ Goes(j, "remove") /\ job[j].kind \in {"file", "card", "purge"}
           /\ job[j].file \in Files
<1>1. job[j] \in Handler /\ InCourse(job[j]) /\ job[j].step = "unlink"
  BY HandlerAt DEF Unlink, At
<1>2. job[j].kind \in {"file", "card", "purge"} /\ job[j].file \in Files
  BY <1>1, IdleOK DEF InCourse, Handler, Kinds
<1>3. Course' /\ Goes(j, "remove")
  BY <1>1, <1>2, GoShape DEF Unlink, InCourse, Steps
<1>4. QED
  BY <1>2, <1>3 DEF Unlink, Types, Tables, memory, history, counters

LEMMA RemovedShape ==
    ASSUME Types, NEW j \in Jobs, Removed(j)
    PROVE  /\ Types'
           /\ \/ job[j].kind = "file" /\ Ends(j)
              \/ job[j].kind \in {"card", "purge"} /\ Goes(j, "delete")
<1>1. job[j] \in Handler /\ InCourse(job[j]) /\ job[j].step = "remove"
  BY HandlerAt DEF Removed, At
<1>2. job[j].kind \in {"file", "card", "purge"}
  BY <1>1, IdleOK DEF InCourse, Handler, Kinds
<1>3. ASSUME job[j].kind \in {"card", "purge"}, Go(j, "delete")
      PROVE  Course' /\ Goes(j, "delete")
  BY <1>1, <1>3, GoShape DEF InCourse, Steps
<1>4. Course' /\ \/ job[j].kind = "file" /\ Ends(j)
                 \/ job[j].kind \in {"card", "purge"} /\ Goes(j, "delete")
  BY <1>2, <1>3, EndShape DEF Removed
<1>5. QED
  BY <1>4, SameTables DEF Removed, history

LEMMA DeleteShape ==
    ASSUME Types, NEW j \in Jobs, Delete(j)
    PROVE  /\ Types' /\ Ends(j)
           /\ \/ job[j].kind = "purge" /\ job[j].of \in {Profile, Editorial}
              \/ job[j].kind = "card" /\ job[j].of \in Cards
<1>1. job[j] \in Handler /\ InCourse(job[j]) /\ job[j].step = "delete"
  BY HandlerAt DEF Delete, At
<1>2. \/ job[j].kind = "purge" /\ job[j].of \in {Profile, Editorial}
      \/ job[j].kind = "card" /\ job[j].of \in Cards
  BY <1>1, IdleOK DEF InCourse, Handler, Kinds
<1>3. Course' /\ Ends(j)
  BY EndShape DEF Delete
<1>4. doc' \in [Records -> Docs] /\ said' \in [Records -> Docs]
  BY GoneOK DEF Delete, Types, Tables
<1>5. NoCard \in CardData
  BY Numbers DEF NoCard, CardData
<1>6. card' \in [Cards -> CardData]
  BY <1>5 DEF Delete, Types, Tables
<1>7. purpose' \in RowTable
  BY DEF Delete, Types, Tables, RowTable
<1>8. QED
  BY <1>2, <1>3, <1>4, <1>6, <1>7 DEF Delete, Types, Tables, memory, counters

LEMMA CreateCardShape ==
    ASSUME Types, NEW j \in Jobs, CreateCard(j)
    PROVE  /\ Types' /\ job[j].kind = "issue" /\ job[j].of \in Cards /\ job[j].file = 0
           /\ Goes(j, "card") \/ Goes(j, "copy")
<1>1. job[j] \in Handler /\ InCourse(job[j]) /\ job[j].step = "create"
  BY HandlerAt DEF CreateCard, At
<1>2. job[j].kind = "issue" /\ job[j].of \in Cards /\ job[j].file = 0
  BY <1>1, IdleOK DEF InCourse, Handler, Kinds
<1>3. ASSUME NEW s \in {"card", "copy"}, Go(j, s)
      PROVE  Course' /\ Goes(j, s)
  BY <1>1, <1>2, <1>3, GoShape DEF InCourse, Steps
<1>4. Course' /\ (Goes(j, "card") \/ Goes(j, "copy"))
  BY <1>3 DEF CreateCard
<1>5. [state |-> "bare", file |-> 0] \in CardData
  BY Numbers DEF CardData
<1>6. card' \in [Cards -> CardData]
  BY <1>5 DEF CreateCard, Types, Tables
<1>7. QED
  BY <1>2, <1>4, <1>6 DEF CreateCard, Types, Tables, files, memory, history, counters

LEMMA CopyLogoShape ==
    ASSUME Types, NEW j \in Jobs, CopyLogo(j)
    PROVE  /\ Types' /\ job[j].kind = "issue" /\ job[j].of \in Cards /\ job[j].file = 0
           /\ Goes(j, "temporary") \/ Ends(j)
<1>1. job[j] \in Handler /\ InCourse(job[j]) /\ job[j].step = "copy"
  BY HandlerAt DEF CopyLogo, At
<1>2. job[j].kind = "issue" /\ job[j].of \in Cards /\ job[j].file = 0
  BY <1>1, IdleOK DEF InCourse, Handler, Kinds
<1>3. ASSUME Go(j, "temporary")
      PROVE  Course' /\ Goes(j, "temporary")
  BY <1>1, <1>2, <1>3, GoShape DEF InCourse, Steps
<1>4. Course' /\ (Goes(j, "temporary") \/ Ends(j))
  BY <1>3, EndShape DEF CopyLogo
<1>5. QED
  BY <1>2, <1>4, SameTables DEF CopyLogo, history

LEMMA WriteCardShape ==
    ASSUME Types, NEW j \in Jobs, WriteCard(j)
    PROVE  Types' /\ job[j].kind = "issue" /\ job[j].of \in Cards /\ Ends(j)
<1>1. job[j] \in Handler /\ InCourse(job[j]) /\ job[j].step = "card"
  BY HandlerAt DEF WriteCard, At
<1>2. job[j].kind = "issue" /\ job[j].of \in Cards
  BY <1>1, IdleOK DEF InCourse, Handler, Kinds
<1>3. Course' /\ Ends(j)
  BY EndShape DEF WriteCard
<1>4. [state |-> "full", file |-> job[j].file] \in CardData
  BY <1>1 DEF CardData, Handler
<1>5. card' \in [Cards -> CardData]
  BY <1>4 DEF WriteCard, Types, Tables
<1>6. QED
  BY <1>2, <1>3, <1>5 DEF WriteCard, Types, Tables, files, memory, history, counters

LEMMA ArchiveFields ==
    ASSUME archive \in Archive
    PROVE  /\ archive.taken \in {"no", "dump", "full"}
           /\ archive.taken # "no" =>
                /\ archive.doc \in [Records -> Docs] /\ archive.card \in [Cards -> CardData]
                /\ archive.purpose \in RowTable /\ archive.shown \in 0..(MaxFile + 1)
           /\ archive.taken = "full" => archive.disk \subseteq Files /\ archive.tmp \subseteq Files
  BY DEF Archive

LEMMA TarShape ==
    ASSUME Types, NEW j \in Jobs, Tar(j)
    PROVE  /\ Types' /\ Ends(j)
           /\ archive'.taken = "full" /\ archive'.doc = archive.doc /\ archive'.card = archive.card
           /\ archive'.purpose = archive.purpose /\ archive'.shown = archive.shown
           /\ archive'.disk = disk /\ archive'.tmp = tmp
<1>1. Course' /\ Ends(j)
  BY EndShape DEF Tar
<1>2. /\ archive.doc \in [Records -> Docs] /\ archive.card \in [Cards -> CardData]
      /\ archive.purpose \in RowTable /\ archive.shown \in 0..(MaxFile + 1)
      /\ disk \subseteq Files /\ tmp \subseteq Files
  BY ArchiveFields DEF Tar, Types, Tables
<1>3. archive' \in Archive
  BY <1>2 DEF Tar, Archive
<1>4. QED
  BY <1>1, <1>3 DEF Tar, Types, Tables, files, memory, history, counters

LEMMA RestoreShape ==
    ASSUME Types, Restore
    PROVE  /\ Types' /\ \A j \in Jobs : job[j] = Idle /\ job'[j] = Idle
<1>1. \A j \in Jobs : job[j] = Idle
  BY HandlerAt DEF Restore, Quiet, Busy, InCourse
<1>2. Course'
  BY DEF Restore, Types, Course
<1>3. /\ archive.doc \in [Records -> Docs] /\ archive.card \in [Cards -> CardData]
      /\ archive.purpose \in RowTable /\ archive.shown \in 0..(MaxFile + 1)
      /\ archive.disk \subseteq Files /\ archive.tmp \subseteq Files
  BY ArchiveFields DEF Restore, Types, Tables
<1>4. archive' \in Archive
  BY DEF Restore, Archive
<1>5. QED
  BY <1>1, <1>2, <1>3, <1>4 DEF Restore, Types, Tables, counters

LEMMA ThrowShape ==
    ASSUME Types, NEW j \in Jobs, Throw(j)
    PROVE  /\ Types' /\ mishaps' = mishaps \cup {"throw"}
           /\ \/ job[j].kind = "purge" /\ job[j].of = Profile /\ Goes(j, "delete")
              \/ Ends(j)
<1>1. job[j] \in Handler /\ InCourse(job[j])
  BY HandlerAt
<1>2. ASSUME job[j].kind = "purge", job[j].of = Profile, Go(j, "delete")
      PROVE  Course' /\ Goes(j, "delete")
  BY <1>1, <1>2, GoShape DEF InCourse, Steps
<1>3. Course' /\ \/ job[j].kind = "purge" /\ job[j].of = Profile /\ Goes(j, "delete")
                 \/ Ends(j)
  BY <1>2, EndShape DEF Throw
<1>4. mishaps' = mishaps \cup {"throw"}
  BY DEF Throw
<1>5. QED
  BY <1>3, <1>4 DEF Throw, Types, Tables, memory, counters

LEMMA RestartShape ==
    ASSUME Types, Restart
    PROVE  Types' /\ \A j \in Jobs : job'[j] = Idle
  BY IdleOK DEF Restart, Types, Tables, Course, files, counters

LEMMA InitTypes == Init => Types
<1>1. Init => Tables
  <2>1. [text |-> 0, file |-> 0] \in Docs /\ NoCard \in CardData /\ 0 \in Texts /\ 0 \in 0..MaxFile
    BY Numbers DEF Docs, CardData, NoCard, Texts
  <2>2. [taken |-> "no"] \in Archive
    BY DEF Archive
  <2>3. 0 \in 0..(MaxFile + 1)
    BY Numbers
  <2>4. QED
    BY <2>1, <2>2, <2>3 DEF Init, Tables, RowTable
<1>2. Init => Course
  BY IdleOK DEF Init, Course
<1>3. QED
  BY <1>1, <1>2 DEF Types

LEMMA NextTypes ==
    ASSUME Types, [Next]_vars
    PROVE  Types'
<1>1. CASE UNCHANGED vars
  BY <1>1 DEF Types, Tables, Course, vars, files, memory, history, counters
<1>2. CASE Next
  BY <1>2, SaveShape, UploadShape, PurgeShape, IssueShape, RemoveCardShape, ClearLogoShape,
     LoadSettingsShape, DumpShape, WriteTemporaryShape, RenameShape, CreateRowShape, WriteShape,
     SetRuntimeShape, WriteShownShape, ListedShape, UnlinkShape, RemovedShape, DeleteShape,
     RemoveRowShape, CreateCardShape, CopyLogoShape, WriteCardShape, TarShape, ThrowShape,
     RestoreShape, RestartShape DEF Next
<1>3. QED
  BY <1>1, <1>2

LEMMA AllTypes == Spec => []Types
  BY InitTypes, NextTypes, PTL DEF Spec


-----------------------------------------------------------------------------
(* Rows have their bytes                                                   *)

\* Only a handler moved, to where it stores and removes nothing.
LEMMA FilesFrame ==
    ASSUME FilesInv, Types, Types', NEW j \in Jobs, Others(j), UNCHANGED <<files, archive, lastFile>>,
           "removed" \in mishaps => "removed" \in mishaps',
           job'[j].step \notin {"rename", "row", "unlink", "tar"},
           \A f \in job'[j].todo : f \in job[j].todo \/ purpose[f] # None
    PROVE  FilesInv'
<1>1. purpose' = purpose /\ disk' = disk
  BY DEF files
<1>2. RowsOK'
  BY <1>1 DEF FilesInv, RowsOK
<1>3. \A f \in job'[j].todo : f <= lastFile
  BY DEF FilesInv, RowsOK, HeldOK, Types, Course, Handler
<1>4. \A i \in Jobs : HeldOK(job[i])'
  BY <1>1, <1>3 DEF FilesInv, HeldOK, Others
<1>5. ASSUME NEW i \in Jobs \ {j}
      PROVE  Apart(job[i], job[j])'
  <2>1. Apart(job[i], job[j]) /\ HeldOK(job[i]) /\ job'[i] = job[i]
    BY DEF FilesInv, Others
  <2>2. QED
    BY <2>1 DEF Apart, HeldOK, Fresh
<1>6. \A i, k \in Jobs : i # k => Apart(job[i], job[k])'
  BY <1>5 DEF FilesInv, Apart, Fresh, Others
<1>7. Taking' => Taking
  BY DEF Taking, At, Others
<1>8. ArchiveOK'
  BY <1>1, <1>7 DEF FilesInv, ArchiveOK, Others
<1>9. QED
  BY <1>2, <1>4, <1>6, <1>8 DEF FilesInv

LEMMA WriteTemporaryFiles ==
    ASSUME FilesInv, Types, NEW j \in Jobs, WriteTemporary(j)
    PROVE  FilesInv'
<1>1. /\ Types' /\ Keeps(j) /\ job'[j].step = "rename" /\ job'[j].file = lastFile + 1
      /\ job'[j].todo = job[j].todo
      /\ lastFile' = lastFile + 1 /\ lastFile \in Nat /\ lastFile + 1 \in Files
  BY WriteTemporaryShape
<1>2. /\ purpose' = purpose /\ disk' = disk /\ archive' = archive /\ job[j].step = "temporary"
      /\ "removed" \in mishaps' <=> "removed" \in mishaps
  BY DEF WriteTemporary, At
<1>3. \A f \in Files : f \in Nat
  BY Numbers
<1>4. purpose[lastFile + 1] = None
  BY <1>1 DEF FilesInv, RowsOK
<1>5. RowsOK'
  BY <1>1, <1>2, <1>3 DEF FilesInv, RowsOK
<1>6. \A i \in Jobs : job[i] \in Handler /\ InCourse(job[i]) /\ HeldOK(job[i])
  BY DEF Types, Course, FilesInv
<1>7. \A i \in Jobs \ {j} : HeldOK(job[i])'
  <2> TAKE i \in Jobs \ {j}
  <2>1. job'[i] = job[i] /\ job[i].file \in Nat /\ \A f \in job[i].todo : f \in Nat
    BY <1>1, <1>6, Numbers DEF Keeps, Others, Handler
  <2>2. QED
    BY <1>1, <1>2, <1>6, <2>1 DEF HeldOK
<1>8. HeldOK(job[j])'
  <2>1. \A f \in job[j].todo : f \in Nat /\ f <= lastFile
    BY <1>3, <1>6 DEF Handler, HeldOK
  <2>2. QED
    BY <1>1, <1>2, <1>4, <2>1 DEF HeldOK
<1>9. ASSUME NEW i \in Jobs, i # j
      PROVE  Apart(job[i], job[j])' /\ Apart(job[j], job[i])'
  <2>1. job'[i] = job[i] /\ Apart(job[i], job[j]) /\ HeldOK(job[i])
    BY <1>1, <1>6, <1>9 DEF FilesInv, Keeps, Others
  <2>2. /\ job[i].step \in {"rename", "row", "unlink"} => job[i].file # lastFile + 1
        /\ lastFile + 1 \notin job[i].todo
    BY <1>1, <2>1 DEF HeldOK
  <2>3. QED
    BY <1>1, <2>1, <2>2 DEF Apart, Fresh
<1>10. \A i, k \in Jobs : i # k => Apart(job[i], job[k])'
  BY <1>1, <1>9 DEF FilesInv, Keeps, Others
<1>11. Taking' => Taking
  BY <1>1, <1>2 DEF Taking, At, Keeps, Others
<1>12. archive.taken # "no" => archive.purpose[lastFile + 1] = None
  BY <1>1 DEF FilesInv, ArchiveOK
<1>13. ArchiveOK'
  <2>1. Taking => archive.taken # "no"
    BY DEF Taking
  <2>2. \A i \in Jobs : job'[i].step \in {"rename", "row", "unlink"} =>
           (i # j /\ job'[i] = job[i]) \/ job'[i].file = lastFile + 1
    BY <1>1 DEF Keeps, Others
  <2>3. QED
    BY <1>1, <1>2, <1>3, <1>11, <1>12, <2>1, <2>2 DEF FilesInv, ArchiveOK
<1>14. QED
  BY <1>5, <1>7, <1>8, <1>10, <1>13 DEF FilesInv

LEMMA RenameFiles ==
    ASSUME FilesInv, Types, NEW j \in Jobs, Rename(j)
    PROVE  FilesInv'
<1>1. Types' /\ Goes(j, "row") /\ Others(j) /\ job[j].step = "rename" /\ job'[j].step = "row"
  BY RenameShape DEF Goes, Keeps, Rename, At
<1>2. /\ purpose' = purpose /\ disk' = disk \cup {job[j].file} /\ archive' = archive
      /\ mishaps' = mishaps /\ lastFile' = lastFile
  BY DEF Rename, history, counters
<1>3. RowsOK'
  BY <1>2 DEF FilesInv, RowsOK
<1>4. \A i \in Jobs : HeldOK(job[i])'
  BY <1>1, <1>2 DEF FilesInv, HeldOK, Others, Goes
<1>5. \A i, k \in Jobs : i # k => Apart(job[i], job[k])'
  BY <1>1 DEF FilesInv, Apart, Fresh, Others, Goes
<1>6. Taking' => Taking
  BY <1>1, <1>2 DEF Taking, At, Others
<1>7. ArchiveOK'
  BY <1>1, <1>2, <1>6 DEF FilesInv, ArchiveOK, Others, Goes
<1>8. QED
  BY <1>3, <1>4, <1>5, <1>7 DEF FilesInv

LEMMA CreateRowFiles ==
    ASSUME FilesInv, Types, NEW j \in Jobs, CreateRow(j)
    PROVE  FilesInv'
<1>1. /\ Types' /\ job[j].file \in Files /\ Others(j) /\ job[j].step = "row"
      /\ job'[j].step \in {"card", "write"} /\ job'[j].todo = job[j].todo
  BY CreateRowShape DEF Goes, Keeps, CreateRow, At
<1>2. /\ purpose' = [purpose EXCEPT ![job[j].file] = job[j].of] /\ disk' = disk /\ archive' = archive
      /\ mishaps' = mishaps /\ lastFile' = lastFile
  BY DEF CreateRow, history, counters
<1>3. purpose \in RowTable /\ HeldOK(job[j])
  BY DEF Types, Tables, FilesInv
<1>4. RowsOK'
  BY <1>1, <1>2, <1>3 DEF FilesInv, RowsOK, HeldOK, RowTable
<1>5. \A i \in Jobs \ {j} : HeldOK(job[i])'
  <2> TAKE i \in Jobs \ {j}
  <2>1. job'[i] = job[i] /\ HeldOK(job[i]) /\ Apart(job[j], job[i])
    BY <1>1 DEF FilesInv, Others
  <2>2. job[i].step \in {"rename", "row", "unlink"} => job[i].file # job[j].file /\ job[i].file \in Files
    BY <1>1, <2>1, HandlerAt DEF Apart, Fresh, InCourse
  <2>3. QED
    BY <1>2, <1>3, <2>1, <2>2 DEF HeldOK, RowTable
<1>6. HeldOK(job[j])'
  BY <1>1, <1>2, <1>3 DEF HeldOK
<1>7. \A i, k \in Jobs : i # k => Apart(job[i], job[k])'
  BY <1>1 DEF FilesInv, Apart, Fresh, Others
<1>8. Taking' => Taking
  BY <1>1, <1>2 DEF Taking, At, Others
<1>9. ArchiveOK'
  BY <1>1, <1>2, <1>8 DEF FilesInv, ArchiveOK, Others
<1>10. QED
  BY <1>4, <1>5, <1>6, <1>7, <1>9 DEF FilesInv

\* Rows go away, bytes stay.
LEMMA FewerRows ==
    ASSUME FilesInv, Types, Types', NEW j \in Jobs, Others(j), UNCHANGED <<disk, archive, lastFile>>,
           \A f \in Files : purpose'[f] \in {purpose[f], None},
           mishaps \subseteq mishaps',
           job'[j].todo \subseteq job[j].todo,
           \/ job'[j].step \notin {"rename", "row", "unlink", "tar"}
           \/ /\ job'[j].step = "unlink" /\ job[j].step \notin {"rename", "row"}
              /\ purpose[job'[j].file] # None /\ purpose'[job'[j].file] = None
              /\ (\E i \in Jobs : At(i, "tar")) => "removed" \in mishaps'
    PROVE  FilesInv'
<1>1. \A i \in Jobs : /\ job[i] \in Handler /\ InCourse(job[i]) /\ HeldOK(job[i])
                      /\ job'[i] \in Handler /\ InCourse(job'[i])
  BY DEF Types, Course, FilesInv
<1>2. RowsOK'
  BY DEF FilesInv, RowsOK
<1>3. \A i \in Jobs \ {j} : HeldOK(job[i])'
  <2> TAKE i \in Jobs \ {j}
  <2>1. job'[i] = job[i] /\ HeldOK(job[i]) /\ (job[i].step \in {"rename", "row", "unlink"} => job[i].file \in Files)
    BY <1>1 DEF Others, InCourse
  <2>2. QED
    BY <2>1 DEF HeldOK
<1>4. HeldOK(job[j])'
  <2>1. job'[j].step = "unlink" => job'[j].file \in Files
    BY <1>1 DEF InCourse
  <2>2. job'[j].step = "unlink" => job'[j].file <= lastFile
    BY <2>1 DEF FilesInv, RowsOK
  <2>3. QED
    BY <1>1, <2>2 DEF HeldOK
<1>5. ASSUME NEW i \in Jobs, i # j
      PROVE  Apart(job[i], job[j])' /\ Apart(job[j], job[i])'
  <2>1. job'[i] = job[i] /\ Apart(job[i], job[j]) /\ HeldOK(job[i])
    BY <1>1, <1>5 DEF FilesInv, Others
  <2>2. QED
    BY <2>1 DEF Apart, Fresh, HeldOK
<1>6. \A i, k \in Jobs : i # k => Apart(job[i], job[k])'
  BY <1>5 DEF FilesInv, Others
<1>7. Taking' => Taking /\ job'[j].step \notin {"rename", "row", "unlink"}
  BY DEF Taking, At, Others
<1>8. ArchiveOK'
  BY <1>7 DEF FilesInv, ArchiveOK, Others
<1>9. QED
  BY <1>2, <1>3, <1>4, <1>6, <1>8 DEF FilesInv


\* Bytes go away that no row and no handler counts on.
LEMMA FewerBytes ==
    ASSUME FilesInv, Types, Types', NEW j \in Jobs, Others(j), UNCHANGED <<purpose, archive, lastFile>>,
           NEW f, disk' = disk \ {f}, f \in Files => purpose[f] = None,
           \A i \in Jobs \ {j} : job[i].step = "row" => job[i].file # f,
           Taking /\ f \in Files => archive.purpose[f] = None,
           "removed" \in mishaps <=> "removed" \in mishaps',
           job'[j].step \notin {"rename", "row", "unlink", "tar"}, job'[j].todo \subseteq job[j].todo
    PROVE  FilesInv'
<1>1. RowsOK'
  BY DEF FilesInv, RowsOK
<1>2. \A i \in Jobs : HeldOK(job[i])'
  BY DEF FilesInv, HeldOK, Others
<1>3. ASSUME NEW i \in Jobs, i # j
      PROVE  Apart(job[i], job[j])' /\ Apart(job[j], job[i])'
  <2>1. job'[i] = job[i] /\ Apart(job[i], job[j])
    BY <1>3 DEF FilesInv, Others
  <2>2. QED
    BY <2>1 DEF Apart, Fresh
<1>4. \A i, k \in Jobs : i # k => Apart(job[i], job[k])'
  BY <1>3 DEF FilesInv, Others
<1>5. Taking' => Taking
  BY DEF Taking, At, Others
<1>6. ArchiveOK'
  BY <1>5 DEF FilesInv, ArchiveOK, Others
<1>7. QED
  BY <1>1, <1>2, <1>4, <1>6 DEF FilesInv

LEMMA UnlinkFiles ==
    ASSUME FilesInv, Types, NEW j \in Jobs, Unlink(j)
    PROVE  FilesInv'
<1>1. /\ Types' /\ Others(j) /\ job[j].step = "unlink" /\ job'[j].step = "remove"
      /\ job'[j].todo = job[j].todo /\ job[j].file \in Files
  BY UnlinkShape DEF Goes, Keeps, Unlink, At
<1>2. purpose[job[j].file] = None
  BY <1>1 DEF FilesInv, HeldOK
<1>3. \A i \in Jobs \ {j} : job[i].step = "row" => job[i].file # job[j].file
  BY <1>1 DEF FilesInv, Apart, Fresh
<1>4. Taking => archive.purpose[job[j].file] = None
  BY <1>1 DEF FilesInv, ArchiveOK
<1>5. QED
  BY <1>1, <1>2, <1>3, <1>4, FewerBytes DEF Unlink, history, counters

LEMMA ThrowFiles ==
    ASSUME FilesInv, Types, NEW j \in Jobs, Throw(j)
    PROVE  FilesInv'
<1>1. /\ Types' /\ Others(j) /\ job'[j].step \in {"delete", "none"} /\ job'[j].todo \subseteq job[j].todo
      /\ mishaps' = mishaps \cup {"throw"}
  BY ThrowShape, IdleOK DEF Goes, Keeps, Ends
<1>2. job[j] \in Handler /\ InCourse(job[j]) /\ disk \subseteq Files
  BY HandlerAt DEF Types, Tables
<1>3. PICK f : f = IF Storing(j) THEN job[j].file ELSE 0
  OBVIOUS
<1>4. disk' = disk \ {f}
  BY <1>2, <1>3, Numbers DEF Throw
<1>5. f \in Files => f = job[j].file /\ job[j].step \in {"rename", "row"}
  BY <1>2, <1>3, Numbers DEF Storing, InCourse
<1>6. f \in Files => purpose[f] = None
  BY <1>5 DEF FilesInv, HeldOK
<1>7. \A i \in Jobs \ {j} : job[i].step = "row" => job[i].file # f
  <2>1. \A i \in Jobs : job[i].step = "row" => job[i].file \in Files
    BY HandlerAt DEF InCourse
  <2>2. QED
    BY <1>5, <2>1 DEF FilesInv, Apart, Fresh
<1>8. Taking /\ f \in Files => archive.purpose[f] = None
  BY <1>5 DEF FilesInv, ArchiveOK
<1>9. QED
  BY <1>1, <1>4, <1>6, <1>7, <1>8, FewerBytes DEF Throw, counters

LEMMA DumpMishaps ==
    ASSUME NEW j \in Jobs, Dump(j)
    PROVE  /\ mishaps \subseteq mishaps'
           /\ "removed" \notin mishaps' => \A i \in Jobs : job[i].step # "unlink"
           /\ "stored" \notin mishaps' => \A i \in Jobs : job[i].step \notin {"rename", "row"}
           /\ "midway" \notin mishaps' => \A i \in Jobs :
                job[i].step \notin {"write", "runtime", "shown", "list", "remove", "unlink", "delete", "card"}
<1>1. PICK m : m = {x \in {"stored", "removed", "midway"} : \E i \in Jobs :
                   job[i].step \in CASE x = "stored" -> {"rename", "row"}
                                     [] x = "removed" -> {"unlink"}
                                     [] OTHER -> {"write", "runtime", "shown", "list", "remove", "unlink", "delete", "card"}}
  OBVIOUS
<1>2. mishaps' = mishaps \cup m
  BY <1>1 DEF Dump
<1>3. "removed" \notin m => \A i \in Jobs : job[i].step # "unlink"
  BY <1>1
<1>4. "stored" \notin m => \A i \in Jobs : job[i].step \notin {"rename", "row"}
  BY <1>1
<1>5. "midway" \notin m => \A i \in Jobs :
                job[i].step \notin {"write", "runtime", "shown", "list", "remove", "unlink", "delete", "card"}
  BY <1>1
<1>6. QED
  BY <1>2, <1>3, <1>4, <1>5

LEMMA DumpFiles ==
    ASSUME FilesInv, Types, NEW j \in Jobs, Dump(j)
    PROVE  FilesInv'
<1>1. /\ Types' /\ Others(j) /\ job'[j].step = "tar" /\ job'[j].todo = {}
  BY DumpShape DEF Begins
<1>2. /\ purpose' = purpose /\ disk' = disk /\ lastFile' = lastFile
      /\ archive'.taken = "dump" /\ archive'.purpose = purpose
  BY DEF Dump, files, counters
<1>3. /\ mishaps \subseteq mishaps'
      /\ "removed" \notin mishaps' => \A i \in Jobs : job[i].step # "unlink"
  BY DumpMishaps
<1>4. RowsOK'
  BY <1>2, <1>3 DEF FilesInv, RowsOK
<1>5. \A i \in Jobs : HeldOK(job[i])'
  BY <1>1, <1>2 DEF FilesInv, HeldOK, Others
<1>6. ASSUME NEW i \in Jobs, i # j
      PROVE  Apart(job[i], job[j])' /\ Apart(job[j], job[i])'
  <2>1. job'[i] = job[i]
    BY <1>1, <1>6 DEF Others
  <2>2. QED
    BY <1>1, <2>1 DEF Apart, Fresh
<1>7. \A i, k \in Jobs : i # k => Apart(job[i], job[k])'
  BY <1>1, <1>6 DEF FilesInv, Others
<1>8. \A i \in Jobs : job'[i].step \in {"rename", "row", "unlink"} => purpose[job'[i].file] = None
  BY <1>1 DEF FilesInv, HeldOK, Others
<1>9. ArchiveOK'
  BY <1>2, <1>3, <1>8 DEF FilesInv, ArchiveOK, RowsOK, Taking
<1>10. QED
  BY <1>4, <1>5, <1>7, <1>9 DEF FilesInv

LEMMA TarFiles ==
    ASSUME FilesInv, Types, NEW j \in Jobs, Tar(j)
    PROVE  FilesInv'
<1>1. /\ Types' /\ Others(j) /\ job'[j].step = "none" /\ job'[j].todo = {}
      /\ archive'.taken = "full" /\ archive'.purpose = archive.purpose /\ archive'.disk = disk
  BY TarShape, IdleOK DEF Ends
<1>2. /\ purpose' = purpose /\ disk' = disk /\ lastFile' = lastFile /\ mishaps' = mishaps
  BY DEF Tar, files, counters, history
<1>3. "removed" \notin mishaps => Taking
  BY DEF Tar, Taking
<1>4. RowsOK'
  BY <1>2 DEF FilesInv, RowsOK
<1>5. \A i \in Jobs : HeldOK(job[i])'
  BY <1>1, <1>2 DEF FilesInv, HeldOK, Others
<1>6. ASSUME NEW i \in Jobs, i # j
      PROVE  Apart(job[i], job[j])' /\ Apart(job[j], job[i])'
  <2>1. job'[i] = job[i]
    BY <1>1, <1>6 DEF Others
  <2>2. QED
    BY <1>1, <2>1 DEF Apart, Fresh
<1>7. \A i, k \in Jobs : i # k => Apart(job[i], job[k])'
  BY <1>1, <1>6 DEF FilesInv, Others
<1>8. archive.taken # "no"
  BY DEF Tar
<1>9. ArchiveOK'
  BY <1>1, <1>2, <1>3, <1>8 DEF FilesInv, ArchiveOK, Taking
<1>10. QED
  BY <1>4, <1>5, <1>7, <1>9 DEF FilesInv

\* Without handlers only the tables count.
LEMMA RestFiles ==
    ASSUME \A j \in Jobs : job'[j] = Idle, RowsOK', (archive.taken # "no" => \A f \in Files : archive.purpose[f] # None => f <= lastFile)',
           (archive.taken = "full" /\ "removed" \notin mishaps =>
               \A f \in Files : archive.purpose[f] # None => f \in archive.disk)'
    PROVE  FilesInv'
<1>1. \A i \in Jobs : HeldOK(job[i])'
  BY IdleOK DEF HeldOK
<1>2. \A i, k \in Jobs : i # k => Apart(job[i], job[k])'
  BY IdleOK DEF Apart, Fresh
<1>3. ~Taking'
  BY IdleOK DEF Taking, At
<1>4. ArchiveOK'
  BY <1>3 DEF ArchiveOK
<1>5. QED
  BY <1>1, <1>2, <1>4 DEF FilesInv

LEMMA RestoreFiles ==
    ASSUME FilesInv, Types, Restore
    PROVE  FilesInv'
<1>1. \A j \in Jobs : job'[j] = Idle
  BY RestoreShape
<1>2. /\ archive'.taken = "no" /\ purpose' = archive.purpose /\ disk' = archive.disk
      /\ lastFile' = lastFile /\ mishaps' = mishaps /\ archive.taken = "full"
  BY DEF Restore, counters
<1>3. RowsOK'
  BY <1>2 DEF FilesInv, ArchiveOK, RowsOK
<1>4. QED
  BY <1>1, <1>2, <1>3, RestFiles

LEMMA RestartFiles ==
    ASSUME FilesInv, Types, Restart
    PROVE  FilesInv'
<1>1. \A j \in Jobs : job'[j] = Idle
  BY RestartShape
<1>2. /\ archive' = archive /\ purpose' = purpose /\ disk' = disk /\ lastFile' = lastFile
      /\ "removed" \in mishaps' <=> "removed" \in mishaps
  BY DEF Restart, files, counters
<1>3. RowsOK'
  BY <1>2 DEF FilesInv, RowsOK
<1>4. QED
  BY <1>1, <1>2, <1>3, RestFiles DEF FilesInv, ArchiveOK

LEMMA StartFiles ==
    ASSUME FilesInv, Types, NEW j \in Jobs,
           \/ \E r \in Records : Save(j, r) \/ Upload(j, r) \/ Purge(j, r)
           \/ \E c \in Cards : Issue(j, c) \/ RemoveCard(j, c)
           \/ ClearLogo(j) \/ LoadSettings(j)
    PROVE  FilesInv'
<1>1. /\ Types' /\ Others(j) /\ job'[j].todo = {}
      /\ job'[j].step \in {"write", "temporary", "list", "create", "runtime"}
  BY SaveShape, UploadShape, PurgeShape, IssueShape, RemoveCardShape, ClearLogoShape,
     LoadSettingsShape DEF Begins
<1>2. UNCHANGED <<files, archive, lastFile, mishaps>>
  BY DEF Save, Upload, Purge, Issue, RemoveCard, ClearLogo, LoadSettings, counters
<1>3. QED
  BY <1>1, <1>2, FilesFrame

LEMMA MoveFiles ==
    ASSUME FilesInv, Types, NEW j \in Jobs,
           Write(j) \/ SetRuntime(j) \/ WriteShown(j) \/ Removed(j) \/ CreateCard(j) \/ CopyLogo(j) \/ WriteCard(j)
    PROVE  FilesInv'
<1>1. /\ Types' /\ Others(j) /\ job'[j].todo \subseteq job[j].todo
      /\ job'[j].step \in {"runtime", "list", "none", "shown", "delete", "card", "copy", "temporary"}
  BY WriteShape, SetRuntimeShape, WriteShownShape, RemovedShape, CreateCardShape, CopyLogoShape,
     WriteCardShape, IdleOK DEF Goes, Ends, Keeps
<1>2. UNCHANGED <<files, archive, lastFile, mishaps>>
  BY DEF Write, SetRuntime, WriteShown, Removed, CreateCard, CopyLogo, WriteCard, counters, history
<1>3. QED
  BY <1>1, <1>2, FilesFrame

LEMMA ListFiles ==
    ASSUME FilesInv, Types, NEW j \in Jobs, List(j)
    PROVE  FilesInv'
<1>1. Types' /\ Others(j) /\ job'[j].step = "remove" /\ ListShape(j, job'[j].todo)
  BY ListedShape DEF Keeps
<1>2. job[j].of \in Purposes
  BY <1>1, HandlerAt, IdleOK, Purposeful DEF ListShape, InCourse, Handler
<1>3. \A f \in job'[j].todo : purpose[f] # None
  BY <1>1, <1>2, Purposeful DEF ListShape, Rows, RowsOf
<1>4. QED
  BY <1>1, <1>3, FilesFrame DEF List, counters, history

LEMMA RemoveRowFiles ==
    ASSUME FilesInv, Types, NEW j \in Jobs, NEW f \in Files, RemoveRow(j, f)
    PROVE  FilesInv'
<1>1. Types' /\ Others(j) /\ job'[j].todo \subseteq job[j].todo /\ job[j].step = "remove"
  BY RemoveRowShape, IdleOK DEF Goes, Ends, Keeps, RemoveRow, At
<1>2. \A g \in Files : purpose'[g] \in {purpose[g], None}
  BY RemoveRowShape DEF Types, Tables, RowTable
<1>3. mishaps \subseteq mishaps'
  BY RemoveRowShape
<1>4. \/ job'[j].step \notin {"rename", "row", "unlink", "tar"}
      \/ /\ job'[j].step = "unlink" /\ job[j].step \notin {"rename", "row"}
         /\ purpose[job'[j].file] # None /\ purpose'[job'[j].file] = None
         /\ (\E i \in Jobs : At(i, "tar")) => "removed" \in mishaps'
  BY <1>1, RemoveRowShape, IdleOK DEF Goes, Ends, Keeps, Types, Tables, RowTable
<1>5. QED
  BY <1>1, <1>2, <1>3, <1>4, FewerRows DEF RemoveRow, counters

LEMMA DeleteFiles ==
    ASSUME FilesInv, Types, NEW j \in Jobs, Delete(j)
    PROVE  FilesInv'
<1>1. Types' /\ Others(j) /\ job'[j].todo = {} /\ job'[j].step = "none"
  BY DeleteShape, IdleOK DEF Ends
<1>2. \A g \in Files : purpose'[g] \in {purpose[g], None}
  BY DEF Delete
<1>3. QED
  BY <1>1, <1>2, FewerRows DEF Delete, counters

LEMMA InitFiles == Init => FilesInv
<1>1. Init => RowsOK /\ \A i \in Jobs : HeldOK(job[i])
  BY IdleOK DEF Init, RowsOK, HeldOK
<1>2. Init => \A i, k \in Jobs : i # k => Apart(job[i], job[k])
  BY IdleOK DEF Init, Apart, Fresh
<1>3. Init => ArchiveOK
  BY DEF Init, ArchiveOK, Taking
<1>4. QED
  BY <1>1, <1>2, <1>3 DEF FilesInv

LEMMA NextFiles ==
    ASSUME FilesInv, Types, [Next]_vars
    PROVE  FilesInv'
<1>1. CASE UNCHANGED vars
  BY <1>1 DEF FilesInv, RowsOK, HeldOK, Apart, Fresh, ArchiveOK, Taking, At, vars, files, memory, history, counters
<1>2. CASE Next
  BY <1>2, StartFiles, MoveFiles, ListFiles, RemoveRowFiles, DeleteFiles, DumpFiles, TarFiles,
     WriteTemporaryFiles, RenameFiles, CreateRowFiles, UnlinkFiles, ThrowFiles, RestoreFiles,
     RestartFiles DEF Next
<1>3. QED
  BY <1>1, <1>2

LEMMA AllFiles == Spec => [](Types /\ FilesInv)
  BY InitTypes, NextTypes, InitFiles, NextFiles, PTL DEF Spec

(* The row of a file always has its bytes on disk: the bytes come before   *)
(* the row and go after it, and no two handlers have one file in storing,  *)
(* however they overlap, throw or are cut short (RowHasBytes).             *)
THEOREM RowsHaveBytes == Spec => []RowHasBytes
<1>1. FilesInv => RowHasBytes
  BY DEF FilesInv, RowsOK, RowHasBytes
<1>2. QED
  BY <1>1, AllFiles, PTL


-----------------------------------------------------------------------------
(* Cards keep their copy of the logo                                       *)

LEMMA IdleCards == RemovalOK(Idle)' /\ IssueOK(Idle)'
  BY IdleOK DEF RemovalOK, IssueOK

\* What a step of handler j owes: rows of cards that are not being removed stay,
\* and what others listed is not given to anything else.
LEMMA CardsFrame ==
    ASSUME CardsInv, Types, Types', NEW j \in Jobs, Others(j), doomed \subseteq doomed',
           archive'.taken # "no" =>
             \/ archive.taken # "no" /\ archive'.card = archive.card /\ archive'.purpose = archive.purpose
             \/ archive'.card = card /\ archive'.purpose = purpose,
           \A c \in Cards \ doomed' : card'[c].state = "full" /\ card'[c].file # 0 =>
             card'[c] = card[c] \/ purpose'[card'[c].file] = c,
           \A c \in Cards \ doomed' : \A f \in Files : purpose[f] = c => purpose'[f] = c,
           \A i \in Jobs \ {j} : \A f \in job[i].todo : purpose'[f] \in {purpose[f], None},
           RemovalOK(job[j])', IssueOK(job[j])'
    PROVE  CardsInv'
<1>1. \A c \in Cards : card[c].file \in 0..MaxFile
  BY DEF Types, Tables, CardData
<1>2. Copies(card, purpose)'
  BY <1>1, Numbers DEF CardsInv, Copies
<1>3. archive'.taken # "no" => Copies(archive.card, archive.purpose)'
  BY DEF CardsInv, Copies
<1>4. ASSUME NEW i \in Jobs \ {j}
      PROVE  RemovalOK(job[i])' /\ IssueOK(job[i])'
  <2>1. job'[i] = job[i] /\ RemovalOK(job[i]) /\ IssueOK(job[i])
    BY DEF CardsInv, Others
  <2>2. RemovalOK(job[i])'
    BY <2>1 DEF RemovalOK, Removes
  <2>3. job[i].kind = "issue" => job[i].of \in Cards
    BY HandlerAt DEF InCourse
  <2>4. job[i].file # 0 => job[i].file \in Files
    BY HandlerAt, Numbers DEF Handler
  <2>5. IssueOK(job[i])'
    BY <2>1, <2>3, <2>4 DEF IssueOK
  <2>6. QED
    BY <2>2, <2>5
<1>5. QED
  BY <1>2, <1>3, <1>4 DEF CardsInv

\* A handler that only moves goes on removing what it listed.
LEMMA StillRemoves ==
    ASSUME CardsInv, NEW j \in Jobs, doomed \subseteq doomed',
           job'[j].kind = job[j].kind, job'[j].of = job[j].of, job'[j].todo \subseteq job[j].todo,
           job'[j].step \in {"remove", "unlink"} => job[j].step \in {"remove", "unlink"},
           \A f \in job[j].todo : purpose'[f] \in {purpose[f], None}
    PROVE  RemovalOK(job[j])'
  BY DEF CardsInv, RemovalOK, Removes

LEMMA StartCards ==
    ASSUME CardsInv, Types, NEW j \in Jobs,
           \/ \E r \in Records : Save(j, r) \/ Upload(j, r) \/ Purge(j, r)
           \/ \E c \in Cards : Issue(j, c) \/ RemoveCard(j, c)
           \/ ClearLogo(j) \/ LoadSettings(j) \/ Dump(j)
    PROVE  CardsInv'
<1>1. /\ Types' /\ Others(j)
      /\ job'[j].step \in {"write", "temporary", "list", "create", "runtime", "tar"}
  BY SaveShape, UploadShape, PurgeShape, IssueShape, RemoveCardShape, ClearLogoShape,
     LoadSettingsShape, DumpShape DEF Begins
<1>2. UNCHANGED <<purpose, card>> /\ doomed \subseteq doomed'
  BY DEF Save, Upload, Purge, Issue, RemoveCard, ClearLogo, LoadSettings, Dump, files
<1>3. archive'.taken # "no" =>
             \/ archive.taken # "no" /\ archive'.card = archive.card /\ archive'.purpose = archive.purpose
             \/ archive'.card = card /\ archive'.purpose = purpose
  <2>1. Dump(j) => archive'.card = card /\ archive'.purpose = purpose
    BY DEF Dump
  <2>2. Dump(j) \/ archive' = archive
    BY DEF Save, Upload, Purge, Issue, RemoveCard, ClearLogo, LoadSettings
  <2>3. QED
    BY <2>1, <2>2
<1>4. job'[j].kind \in {"card", "purge"} => \A p \in Purposes : (Removes(job[j], p))' => p \in doomed'
  <2>1. ASSUME NEW r \in Records, Purge(j, r)
        PROVE  \A p \in Purposes : (Removes(job[j], p))' => p \in doomed'
    <3>1. job'[j].of = r /\ r \in Purposes /\ OwnerOf(r) = r
      BY <2>1, PurgeShape, Purposeful DEF Begins
    <3>2. doomed' = doomed \cup {p \in Purposes : OwnerOf(p) = r}
      BY <2>1 DEF Purge
    <3>3. QED
      BY <3>1, <3>2 DEF Removes
  <2>2. ASSUME NEW c \in Cards, RemoveCard(j, c)
        PROVE  \A p \in Purposes : (Removes(job[j], p))' => p \in doomed'
    <3>1. job'[j].of = c /\ job'[j].kind = "card" /\ doomed' = doomed \cup {c}
      BY <2>2, RemoveCardShape DEF Begins, RemoveCard
    <3>2. QED
      BY <3>1 DEF Removes
  <2>3. QED
    BY <2>1, <2>2, SaveShape, UploadShape, IssueShape, ClearLogoShape, LoadSettingsShape, DumpShape DEF Begins
<1>5. RemovalOK(job[j])' /\ IssueOK(job[j])'
  BY <1>1, <1>4 DEF RemovalOK, IssueOK
<1>6. QED
  BY <1>1, <1>2, <1>3, <1>5, CardsFrame

LEMMA MoveCards ==
    ASSUME CardsInv, Types, NEW j \in Jobs,
           \/ WriteTemporary(j) \/ Rename(j) \/ Write(j) \/ SetRuntime(j) \/ WriteShown(j)
           \/ Unlink(j) \/ Removed(j) \/ CopyLogo(j) \/ Tar(j) \/ Throw(j)
    PROVE  CardsInv'
<1>1. Types' /\ Others(j)
  BY WriteTemporaryShape, RenameShape, WriteShape, SetRuntimeShape, WriteShownShape, UnlinkShape,
     RemovedShape, CopyLogoShape, TarShape, ThrowShape DEF Goes, Ends, Keeps
<1>2. UNCHANGED <<purpose, card, doomed>>
  BY DEF WriteTemporary, Rename, Write, SetRuntime, WriteShown, Unlink, Removed, CopyLogo, Tar, Throw,
         files, history
<1>3. archive'.taken # "no" => archive.taken # "no" /\ archive'.card = archive.card /\ archive'.purpose = archive.purpose
  BY TarShape DEF WriteTemporary, Rename, Write, SetRuntime, WriteShown, Unlink, Removed, CopyLogo, Tar, Throw
<1>4. \/ job'[j] = Idle
      \/ /\ job'[j].kind = job[j].kind /\ job'[j].of = job[j].of /\ job'[j].todo = job[j].todo
         /\ job'[j].step # "card"
         /\ job'[j].step \in {"remove", "unlink"} => job[j].step \in {"remove", "unlink"}
  BY WriteTemporaryShape, RenameShape, WriteShape, SetRuntimeShape, WriteShownShape, UnlinkShape,
     RemovedShape, CopyLogoShape, TarShape, ThrowShape DEF Goes, Ends, Keeps, Unlink, At
<1>5. RemovalOK(job[j])' /\ IssueOK(job[j])'
  <2>1. CASE job'[j] = Idle
    BY <2>1, IdleCards DEF RemovalOK, IssueOK, Removes
  <2>2. CASE /\ job'[j].kind = job[j].kind /\ job'[j].of = job[j].of /\ job'[j].todo = job[j].todo
             /\ job'[j].step # "card"
             /\ job'[j].step \in {"remove", "unlink"} => job[j].step \in {"remove", "unlink"}
    BY <1>2, <2>2, StillRemoves DEF IssueOK
  <2>3. QED
    BY <1>4, <2>1, <2>2
<1>6. QED
  BY <1>1, <1>2, <1>3, <1>5, CardsFrame

LEMMA CreateRowCards ==
    ASSUME CardsInv, FilesInv, Types, NEW j \in Jobs, CreateRow(j)
    PROVE  CardsInv'
<1>1. /\ Types' /\ job[j].file \in Files /\ Keeps(j) /\ job[j].step = "row" /\ job[j].of \in Purposes
      /\ job'[j].step \in {"card", "write"} /\ job'[j].todo = job[j].todo /\ job'[j].file = job[j].file
  BY CreateRowShape, Purposeful DEF Goes, Keeps, CreateRow, At
<1>2. purpose' = [purpose EXCEPT ![job[j].file] = job[j].of] /\ UNCHANGED <<card, doomed, archive>>
  BY DEF CreateRow, history
<1>3. purpose \in RowTable /\ purpose[job[j].file] = None
  BY <1>1 DEF Types, Tables, FilesInv, HeldOK
<1>4. \A c \in Cards : \A f \in Files : purpose[f] = c => purpose'[f] = c
  BY <1>1, <1>2, <1>3, Purposeful DEF RowTable
<1>5. \A i \in Jobs \ {j} : \A f \in job[i].todo : purpose'[f] \in {purpose[f], None}
  <2> TAKE i \in Jobs \ {j}
  <2>1. job[j].file \notin job[i].todo /\ job[i].todo \subseteq Files
    BY <1>1, HandlerAt DEF FilesInv, Apart, Fresh, Handler
  <2>2. QED
    BY <1>2, <1>3, <2>1 DEF RowTable
<1>6. job[j].kind \notin {"card", "purge"}
  BY CreateRowShape
<1>7. RemovalOK(job[j])' /\ IssueOK(job[j])'
  BY <1>1, <1>2, <1>3, <1>6 DEF RemovalOK, IssueOK, Keeps, RowTable
<1>8. QED
  BY <1>1, <1>2, <1>4, <1>5, <1>7, CardsFrame DEF Keeps

LEMMA ListCards ==
    ASSUME CardsInv, Types, NEW j \in Jobs, List(j)
    PROVE  CardsInv'
<1>1. /\ Types' /\ Keeps(j) /\ job'[j].step = "remove" /\ ListShape(j, job'[j].todo)
  BY ListedShape
<1>2. UNCHANGED <<purpose, card, doomed, archive>>
  BY DEF List, files, history
<1>3. \A f \in job'[j].todo : purpose[f] # None => Removes(job[j], purpose[f])
  BY <1>1 DEF ListShape, Rows, RowsOf, Removes
<1>4. RemovalOK(job[j])' /\ IssueOK(job[j])'
  BY <1>1, <1>2, <1>3 DEF CardsInv, RemovalOK, IssueOK, Removes, Keeps
<1>5. QED
  BY <1>1, <1>2, <1>4, CardsFrame DEF Keeps

\* Whose row a handler can come to remove.
LEMMA WhatIsRemoved ==
    ASSUME CardsInv, Types, NEW j \in Jobs, NEW f \in Files, RemoveRow(j, f), purpose[f] # None
    PROVE  \/ purpose[f] \in doomed /\ Removes(job[j], purpose[f])
           \/ job[j].kind = "file" /\ purpose[f] = job[j].of /\ job[j].of \in Records
<1>1. f \in job[j].todo /\ job[j].step = "remove" /\ RemovalOK(job[j])
  BY DEF RemoveRow, At, CardsInv
<1>2. purpose[f] \in Purposes
  BY DEF Types, Tables, RowTable
<1>3. Removes(job[j], purpose[f])
  BY <1>1 DEF RemovalOK
<1>4. job[j].kind \in {"file", "card", "purge"}
  BY RemoveRowShape
<1>5. job[j].kind = "file" => job[j].of \in Records
  BY HandlerAt DEF InCourse
<1>6. QED
  BY <1>1, <1>2, <1>3, <1>4, <1>5 DEF RemovalOK, Removes

LEMMA RemoveRowCards ==
    ASSUME CardsInv, Types, NEW j \in Jobs, NEW f \in Files, RemoveRow(j, f)
    PROVE  CardsInv'
<1>1. Types' /\ Others(j) /\ job'[j].todo \subseteq job[j].todo /\ job'[j].step # "card"
  BY RemoveRowShape, IdleOK DEF Goes, Ends, Keeps
<1>2. \A g \in Files : purpose'[g] \in {purpose[g], None}
  BY RemoveRowShape DEF Types, Tables, RowTable
<1>3. UNCHANGED <<card, doomed, archive>>
  BY DEF RemoveRow
<1>4. \A c \in Cards \ doomed : \A g \in Files : purpose[g] = c => purpose'[g] = c
  <2> TAKE c \in Cards \ doomed
  <2> TAKE g \in Files
  <2>1. CASE g = f /\ purpose[f] = c
    BY <2>1, WhatIsRemoved, Purposeful
  <2>2. CASE g # f
    BY <2>2, RemoveRowShape DEF Types, Tables, RowTable
  <2>3. QED
    BY <2>1, <2>2
<1>5. \A i \in Jobs : job[i].todo \subseteq Files
  BY HandlerAt DEF Handler
<1>6. RemovalOK(job[j])' /\ IssueOK(job[j])'
  <2>1. CASE job'[j] = Idle
    BY <2>1, IdleCards DEF RemovalOK, IssueOK, Removes
  <2>2. CASE Keeps(j)
    BY <1>1, <1>2, <1>3, <1>5, <2>2, StillRemoves DEF IssueOK, Keeps, RemoveRow, At
  <2>3. QED
    BY <2>1, <2>2, RemoveRowShape DEF Goes, Ends
<1>7. QED
  BY <1>1, <1>2, <1>3, <1>4, <1>5, <1>6, CardsFrame

LEMMA DeleteCards ==
    ASSUME CardsInv, Types, NEW j \in Jobs, Delete(j)
    PROVE  CardsInv'
<1>1. Types' /\ Others(j) /\ job'[j] = Idle
  BY DeleteShape DEF Ends
<1>2. \A g \in Files : purpose'[g] \in {purpose[g], None} /\ (purpose[g] # Editorial => purpose'[g] = purpose[g])
  BY DEF Delete
<1>3. \A c \in Cards : card'[c].state = "full" => card'[c] = card[c]
  BY DEF Delete, NoCard
<1>4. UNCHANGED <<doomed, archive>>
  BY DEF Delete
<1>5. \A i \in Jobs : job[i].todo \subseteq Files
  BY HandlerAt DEF Handler
<1>6. RemovalOK(job[j])' /\ IssueOK(job[j])'
  BY <1>1, IdleCards DEF RemovalOK, IssueOK, Removes
<1>7. QED
  BY <1>1, <1>2, <1>3, <1>4, <1>5, <1>6, Purposeful, CardsFrame

LEMMA CreateCardCards ==
    ASSUME CardsInv, Types, NEW j \in Jobs, CreateCard(j)
    PROVE  CardsInv'
<1>1. /\ Types' /\ Keeps(j) /\ job'[j].step \in {"card", "copy"} /\ job'[j].file = 0
      /\ job'[j].todo = job[j].todo /\ job[j].kind = "issue"
  BY CreateCardShape DEF Goes, Keeps
<1>2. UNCHANGED <<purpose, doomed, archive>>
  BY DEF CreateCard, files, history
<1>3. \A c \in Cards : card'[c].state = "full" => card'[c] = card[c]
  BY DEF CreateCard, Types, Tables
<1>4. RemovalOK(job[j])' /\ IssueOK(job[j])'
  BY <1>1 DEF RemovalOK, IssueOK, Keeps
<1>5. QED
  BY <1>1, <1>2, <1>3, <1>4, CardsFrame DEF Keeps

LEMMA WriteCardCards ==
    ASSUME CardsInv, Types, NEW j \in Jobs, WriteCard(j)
    PROVE  CardsInv'
<1>1. Types' /\ Others(j) /\ job'[j] = Idle /\ job[j].kind = "issue" /\ job[j].of \in Cards
  BY WriteCardShape DEF Ends
<1>2. UNCHANGED <<purpose, doomed, archive>>
  BY DEF WriteCard, files, history
<1>3. IssueOK(job[j]) /\ job[j].step = "card"
  BY DEF CardsInv, WriteCard, At
<1>4. \A c \in Cards \ doomed : card'[c].file # 0 => card'[c] = card[c] \/ purpose[card'[c].file] = c
  BY <1>1, <1>3 DEF WriteCard, Types, Tables, IssueOK
<1>5. RemovalOK(job[j])' /\ IssueOK(job[j])'
  BY <1>1, IdleCards DEF RemovalOK, IssueOK, Removes
<1>6. QED
  BY <1>1, <1>2, <1>4, <1>5, CardsFrame

LEMMA RestoreCards ==
    ASSUME CardsInv, Types, Restore
    PROVE  CardsInv'
<1>1. \A j \in Jobs : job'[j] = Idle
  BY RestoreShape
<1>2. \A j \in Jobs : RemovalOK(job[j])' /\ IssueOK(job[j])'
  BY <1>1, IdleOK DEF RemovalOK, IssueOK
<1>3. archive'.taken = "no" /\ archive.taken # "no" /\ card' = archive.card /\ purpose' = archive.purpose /\ doomed' = doomed
  BY DEF Restore
<1>4. QED
  BY <1>2, <1>3 DEF CardsInv, Copies

LEMMA RestartCards ==
    ASSUME CardsInv, Types, Restart
    PROVE  CardsInv'
<1>1. \A j \in Jobs : job'[j] = Idle
  BY RestartShape
<1>2. \A j \in Jobs : RemovalOK(job[j])' /\ IssueOK(job[j])'
  BY <1>1, IdleOK DEF RemovalOK, IssueOK
<1>3. QED
  BY <1>2 DEF Restart, CardsInv, Copies, files

LEMMA InitCards == Init => CardsInv
<1>1. Init => \A j \in Jobs : RemovalOK(job[j]) /\ IssueOK(job[j])
  BY IdleOK DEF Init, RemovalOK, IssueOK
<1>2. QED
  BY <1>1 DEF Init, CardsInv, Copies, NoCard

LEMMA NextCards ==
    ASSUME CardsInv, FilesInv, Types, [Next]_vars
    PROVE  CardsInv'
<1>1. CASE UNCHANGED vars
  BY <1>1 DEF CardsInv, Copies, RemovalOK, Removes, IssueOK, vars, files, history
<1>2. CASE Next
  BY <1>2, StartCards, MoveCards, CreateRowCards, ListCards, RemoveRowCards, DeleteCards,
     CreateCardCards, WriteCardCards, RestoreCards, RestartCards DEF Next
<1>3. QED
  BY <1>1, <1>2

LEMMA AllCards == Spec => [](Types /\ FilesInv /\ CardsInv)
  BY AllFiles, InitCards, NextCards, PTL DEF Spec

(* A card that has its data keeps the logo it was issued with, row and     *)
(* bytes, until it or the account is removed: uploads for the editorial,   *)
(* its removal and a restore never touch the copy (CardsKeepLogo).         *)
THEOREM CopiesStay == Spec => []CardsKeepLogo
<1>1. Types /\ FilesInv /\ CardsInv => CardsKeepLogo
  <2> SUFFICES ASSUME Types, FilesInv, CardsInv, "removed" \notin mishaps, NEW c \in Cards \ doomed,
                      card[c].state = "full", card[c].file # 0
               PROVE  purpose[card[c].file] = c /\ card[c].file \in disk
    BY DEF CardsKeepLogo
  <2>1. card[c].file \in Files
    BY Numbers DEF Types, Tables, CardData
  <2>2. purpose[card[c].file] = c
    BY DEF CardsInv, Copies
  <2>3. QED
    BY <2>1, <2>2, Purposeful DEF FilesInv, RowsOK
<1>2. QED
  BY <1>1, AllCards, PTL


-----------------------------------------------------------------------------
(* Records keep what was answered                                          *)

LEMMA MetStarts ==
    ASSUME Met, NEW j \in Jobs, NEW k, NEW p, NEW s, NEW q, NEW d,
           Start(j, k, p, s, q), Begins(j, k, p, s, d)
    PROVE  Met' /\ clash \subseteq clash'
<1>1. clash' = clash \cup UNION {{p, job[i].of} : i \in {x \in Jobs : Meets(k, p, x)}}
  BY DEF Start
<1>2. ASSUME NEW i \in Jobs, i # j, Meet(job[i], job[j])' \/ Meet(job[j], job[i])'
      PROVE  job[i].of \in clash' /\ p \in clash'
  <2>1. job'[i] = job[i] /\ job'[j].kind = k /\ job'[j].of = p
    BY <1>2 DEF Begins, Others
  <2>2. Meets(k, p, i)
    BY <1>2, <2>1 DEF Meet, Meets, Busy
  <2>3. QED
    BY <1>1, <2>2
<1>3. ASSUME NEW i \in Jobs, NEW m \in Jobs, i # m, Meet(job[i], job[m])'
      PROVE  job'[i].of \in clash'
  <2>1. CASE i = j
    BY <1>2, <1>3, <2>1 DEF Begins
  <2>2. CASE m = j
    <3>1. job'[i] = job[i]
      BY <1>3, <2>2 DEF Begins, Others
    <3>2. QED
      BY <1>2, <1>3, <2>2, <3>1
  <2>3. CASE i # j /\ m # j
    <3>1. job'[i] = job[i] /\ job'[m] = job[m]
      BY <2>3 DEF Begins, Others
    <3>2. Meet(job[i], job[m])
      BY <1>3, <3>1 DEF Meet
    <3>3. QED
      BY <1>1, <1>3, <3>1, <3>2 DEF Met
  <2>4. QED
    BY <2>1, <2>2, <2>3
<1>4. Met'
  BY <1>3 DEF Met
<1>5. QED
  BY <1>1, <1>4

LEMMA MetStays ==
    ASSUME Met, NEW j \in Jobs, Keeps(j) \/ Ends(j), clash' = clash
    PROVE  Met'
<1>1. ASSUME NEW i \in Jobs, NEW m \in Jobs, i # m, Meet(job[i], job[m])'
      PROVE  job'[i].of \in clash'
  <2>1. \A x \in Jobs : job'[x].kind # "idle" => job'[x].kind = job[x].kind /\ job'[x].of = job[x].of
    BY IdleOK DEF Keeps, Ends, Others
  <2>2. Meet(job[i], job[m])
    BY <1>1, <2>1 DEF Meet
  <2>3. job'[i].of = job[i].of
    BY <1>1, <2>1 DEF Meet
  <2>4. QED
    BY <1>1, <2>2, <2>3 DEF Met
<1>2. QED
  BY <1>1 DEF Met

\* Of one record there is one handler, while it is not in clash.
LEMMA OneOfRecord ==
    ASSUME Met, Types, NEW i \in Jobs, NEW j \in Jobs, i # j, job[i].of = job[j].of, job[j].of \in Records
    PROVE  job[j].of \in clash
<1>1. job[i].kind # "idle" /\ job[j].kind # "idle"
  BY HandlerAt, IdleOK, Purposeful DEF InCourse
<1>2. Meet(job[i], job[j])
  BY <1>1, Purposeful DEF Meet
<1>3. QED
  BY <1>2 DEF Met

\* What a step of handler j owes the records.
LEMMA RecordsFrame ==
    ASSUME RecordsInv, Types, Types', NEW j \in Jobs, Others(j), clash \subseteq clash', Met',
           \A r \in Records \ clash' : doc'[r] = said'[r],
           Names(doc, purpose)',
           archive'.taken # "no" => Names(archive.doc, archive.purpose)',
           \A i \in Jobs \ {j} : job[i].of \in Records \ clash' =>
             /\ doc'[job[i].of] = doc[job[i].of]
             /\ \A f \in Files : purpose[f] = job[i].of => purpose'[f] = job[i].of,
           RecordOK(job[j])'
    PROVE  RecordsInv'
<1>1. ASSUME NEW i \in Jobs \ {j}
      PROVE  RecordOK(job[i])'
  <2>1. job'[i] = job[i] /\ RecordOK(job[i]) /\ InCourse(job[i])
    BY HandlerAt DEF RecordsInv, Others
  <2>2. SUFFICES ASSUME job[i].of \in Records \ clash'
                 PROVE  RecordOK(job[i])'
    BY <2>1 DEF RecordOK
  <2>3. job[i].kind = "file" /\ job[i].step # "temporary" => job[i].file \in Files
    BY <2>1 DEF InCourse
  <2>4. /\ doc'[job[i].of] = doc[job[i].of]
        /\ \A f \in Files : purpose[f] = job[i].of => purpose'[f] = job[i].of
    BY <2>2
  <2>5. QED
    BY <2>1, <2>2, <2>3, <2>4 DEF RecordOK
<1>2. QED
  BY <1>1 DEF RecordsInv

\* ... when it touches no record and no row a record may name.
LEMMA RecordsSame ==
    ASSUME RecordsInv, Types, Types', NEW j \in Jobs, Others(j), clash \subseteq clash', Met',
           doomed \subseteq doomed', doc' = doc, said' = said,
           archive'.taken # "no" =>
             \/ archive.taken # "no" /\ archive'.doc = archive.doc /\ archive'.purpose = archive.purpose
             \/ archive'.doc = doc /\ archive'.purpose = purpose,
           \A r \in Records : \A f \in Files : purpose[f] = r => purpose'[f] = r,
           RecordOK(job[j])'
    PROVE  RecordsInv'
<1>1. \A r \in Records \ clash' : doc'[r] = said'[r]
  BY DEF RecordsInv
<1>2. Names(doc, purpose)'
  BY DEF RecordsInv, Names
<1>3. archive'.taken # "no" => Names(archive.doc, archive.purpose)'
  BY DEF RecordsInv, Names
<1>4. \A i \in Jobs \ {j} : job[i].of \in Records \ clash' =>
             /\ doc'[job[i].of] = doc[job[i].of]
             /\ \A f \in Files : purpose[f] = job[i].of => purpose'[f] = job[i].of
  OBVIOUS
<1>5. QED
  BY <1>1, <1>2, <1>3, <1>4, RecordsFrame

LEMMA IdleRecord == ASSUME NEW j \in Jobs, job'[j] = Idle PROVE RecordOK(job[j])'
  BY IdleOK, Purposeful DEF RecordOK

LEMMA StartRecords ==
    ASSUME RecordsInv, Types, NEW j \in Jobs,
           \/ \E r \in Records : Save(j, r) \/ Upload(j, r) \/ Purge(j, r)
           \/ \E c \in Cards : Issue(j, c) \/ RemoveCard(j, c)
           \/ ClearLogo(j) \/ LoadSettings(j) \/ Dump(j)
    PROVE  RecordsInv'
<1>1. Types' /\ Others(j)
  BY SaveShape, UploadShape, PurgeShape, IssueShape, RemoveCardShape, ClearLogoShape,
     LoadSettingsShape, DumpShape DEF Begins
<1>2. UNCHANGED <<doc, said, purpose>> /\ doomed \subseteq doomed'
  BY DEF Save, Upload, Purge, Issue, RemoveCard, ClearLogo, LoadSettings, Dump, files
<1>3. Met' /\ clash \subseteq clash'
  <2>1. ASSUME NEW k, NEW p, NEW s, NEW q, NEW d, Start(j, k, p, s, q), Begins(j, k, p, s, d)
        PROVE  Met' /\ clash \subseteq clash'
    BY <2>1, MetStarts DEF RecordsInv
  <2>2. ASSUME NEW r \in Records, Save(j, r) PROVE Met' /\ clash \subseteq clash'
    BY <2>1, <2>2, SaveShape DEF Save
  <2>3. ASSUME NEW r \in Records, Upload(j, r) PROVE Met' /\ clash \subseteq clash'
    BY <2>1, <2>3, UploadShape DEF Upload
  <2>4. ASSUME NEW r \in Records, Purge(j, r) PROVE Met' /\ clash \subseteq clash'
    BY <2>1, <2>4, PurgeShape DEF Purge
  <2>5. ASSUME NEW c \in Cards, Issue(j, c) PROVE Met' /\ clash \subseteq clash'
    BY <2>1, <2>5, IssueShape DEF Issue
  <2>6. ASSUME NEW c \in Cards, RemoveCard(j, c) PROVE Met' /\ clash \subseteq clash'
    BY <2>1, <2>6, RemoveCardShape DEF RemoveCard
  <2>7. ASSUME ClearLogo(j) PROVE Met' /\ clash \subseteq clash'
    BY <2>1, <2>7, ClearLogoShape DEF ClearLogo
  <2>8. ASSUME LoadSettings(j) PROVE Met' /\ clash \subseteq clash'
    BY <2>1, <2>8, LoadSettingsShape DEF LoadSettings
  <2>9. ASSUME Dump(j) PROVE Met' /\ clash \subseteq clash'
    BY <2>1, <2>9, DumpShape DEF Dump
  <2>10. QED
    BY <2>2, <2>3, <2>4, <2>5, <2>6, <2>7, <2>8, <2>9
<1>4. archive'.taken # "no" =>
             \/ archive.taken # "no" /\ archive'.doc = archive.doc /\ archive'.purpose = archive.purpose
             \/ archive'.doc = doc /\ archive'.purpose = purpose
  <2>1. Dump(j) => archive'.doc = doc /\ archive'.purpose = purpose
    BY DEF Dump
  <2>2. Dump(j) \/ archive' = archive
    BY DEF Save, Upload, Purge, Issue, RemoveCard, ClearLogo, LoadSettings
  <2>3. QED
    BY <2>1, <2>2
<1>5. RecordOK(job[j])'
  <2>1. \/ job'[j].kind \notin {"text", "file", "clear"}
        \/ job'[j].step \in {"write", "temporary"} /\ job'[j].seen = doc[job'[j].of]
           /\ (job'[j].kind = "file" => job'[j].step = "temporary")
    BY SaveShape, UploadShape, PurgeShape, IssueShape, RemoveCardShape, ClearLogoShape,
       LoadSettingsShape, DumpShape DEF Begins
  <2>2. QED
    BY <1>2, <2>1 DEF RecordOK
<1>6. QED
  BY <1>1, <1>2, <1>3, <1>4, <1>5, RecordsSame


LEMMA MoveRecords ==
    ASSUME RecordsInv, Types, NEW j \in Jobs,
           \/ WriteTemporary(j) \/ Rename(j) \/ SetRuntime(j) \/ WriteShown(j) \/ Unlink(j) \/ Removed(j)
           \/ CreateCard(j) \/ CopyLogo(j) \/ WriteCard(j) \/ Tar(j) \/ Throw(j)
    PROVE  RecordsInv'
<1>1. Types' /\ Others(j) /\ (Keeps(j) \/ Ends(j))
  BY WriteTemporaryShape, RenameShape, SetRuntimeShape, WriteShownShape, UnlinkShape,
     RemovedShape, CreateCardShape, CopyLogoShape, WriteCardShape, TarShape, ThrowShape DEF Goes, Ends, Keeps
<1>2. UNCHANGED <<doc, said, purpose, doomed, clash>>
  BY DEF WriteTemporary, Rename, SetRuntime, WriteShown, Unlink, Removed, CreateCard, CopyLogo, WriteCard,
         Tar, Throw, files, history
<1>3. archive'.taken # "no" => archive.taken # "no" /\ archive'.doc = archive.doc /\ archive'.purpose = archive.purpose
  BY TarShape DEF WriteTemporary, Rename, SetRuntime, WriteShown, Unlink, Removed, CreateCard, CopyLogo,
                  WriteCard, Tar, Throw
<1>4. \/ Ends(j)
      \/ job'[j].kind \notin {"text", "file", "clear"}
      \/ /\ Keeps(j) /\ job[j].step = "temporary" /\ job'[j].step = "rename" /\ job'[j].seen = job[j].seen
      \/ /\ Goes(j, "row") /\ job[j].step = "rename"
      \/ /\ Goes(j, "shown") /\ job[j].step = "runtime"
      \/ /\ Goes(j, "list") /\ job[j].step = "shown"
      \/ /\ Goes(j, "remove") /\ job[j].step = "unlink"
  <2>1. WriteTemporary(j) => Keeps(j) /\ job[j].step = "temporary" /\ job'[j].step = "rename" /\ job'[j].seen = job[j].seen
    BY WriteTemporaryShape DEF WriteTemporary, At
  <2>2. Rename(j) => Goes(j, "row") /\ job[j].step = "rename"
    BY RenameShape DEF Rename, At
  <2>3. SetRuntime(j) => Ends(j) \/ (Goes(j, "shown") /\ job[j].step = "runtime")
    BY SetRuntimeShape DEF SetRuntime, At
  <2>4. WriteShown(j) => Ends(j) \/ (Goes(j, "list") /\ job[j].step = "shown")
    BY WriteShownShape DEF WriteShown, At
  <2>5. Unlink(j) => Goes(j, "remove") /\ job[j].step = "unlink"
    BY UnlinkShape DEF Unlink, At
  <2>6. Removed(j) \/ CreateCard(j) \/ CopyLogo(j) \/ WriteCard(j) \/ Tar(j) \/ Throw(j) =>
          Ends(j) \/ job'[j].kind \notin {"text", "file", "clear"}
    BY RemovedShape, CreateCardShape, CopyLogoShape, WriteCardShape, TarShape, ThrowShape DEF Goes, Keeps
  <2>7. QED
    BY <2>1, <2>2, <2>3, <2>4, <2>5, <2>6
<1>5. RecordOK(job[j])'
  <2>1. CASE Ends(j)
    BY <2>1, IdleRecord DEF Ends
  <2>2. CASE job'[j].kind \notin {"text", "file", "clear"}
    BY <2>2 DEF RecordOK
  <2>3. RecordOK(job[j])
    BY DEF RecordsInv
  <2>4. CASE Keeps(j) /\ job[j].step = "temporary" /\ job'[j].step = "rename" /\ job'[j].seen = job[j].seen
    BY <1>2, <2>3, <2>4 DEF RecordOK, Keeps
  <2>5. CASE Goes(j, "row") /\ job[j].step = "rename"
    BY <1>2, <2>3, <2>5 DEF RecordOK, Goes, Keeps
  <2>6. CASE Goes(j, "shown") /\ job[j].step = "runtime"
    BY <1>2, <2>3, <2>6 DEF RecordOK, Goes, Keeps
  <2>7. CASE Goes(j, "list") /\ job[j].step = "shown"
    BY <1>2, <2>3, <2>7 DEF RecordOK, Goes, Keeps
  <2>8. CASE Goes(j, "remove") /\ job[j].step = "unlink"
    BY <1>2, <2>3, <2>8 DEF RecordOK, Goes, Keeps
  <2>9. QED
    BY <1>4, <2>1, <2>2, <2>4, <2>5, <2>6, <2>7, <2>8
<1>6. Met'
  BY <1>1, <1>2, MetStays DEF RecordsInv
<1>7. QED
  BY <1>1, <1>2, <1>3, <1>5, <1>6, RecordsSame

LEMMA CreateRowRecords ==
    ASSUME RecordsInv, FilesInv, Types, NEW j \in Jobs, CreateRow(j)
    PROVE  RecordsInv'
<1>1. /\ Types' /\ job[j].file \in Files /\ Keeps(j) /\ Others(j) /\ job[j].step = "row"
      /\ job'[j].step \in {"card", "write"} /\ job'[j].seen = job[j].seen /\ job'[j].file = job[j].file
  BY CreateRowShape DEF Goes, Keeps, CreateRow, At
<1>2. purpose' = [purpose EXCEPT ![job[j].file] = job[j].of] /\ UNCHANGED <<doc, said, clash, doomed, archive>>
  BY DEF CreateRow, history
<1>3. purpose \in RowTable /\ purpose[job[j].file] = None
  BY <1>1 DEF Types, Tables, FilesInv, HeldOK
<1>4. \A r \in Records : \A f \in Files : purpose[f] = r => purpose'[f] = r
  BY <1>1, <1>2, <1>3, Purposeful DEF RowTable
<1>5. RecordOK(job[j])'
  BY <1>1, <1>2, <1>3 DEF RecordsInv, RecordOK, Keeps, RowTable
<1>6. Met'
  BY <1>1, <1>2, MetStays DEF RecordsInv
<1>7. QED
  BY <1>1, <1>2, <1>4, <1>5, <1>6, RecordsSame

LEMMA ListRecords ==
    ASSUME RecordsInv, Types, NEW j \in Jobs, List(j)
    PROVE  RecordsInv'
<1>1. /\ Types' /\ Keeps(j) /\ Others(j) /\ job[j].step = "list" /\ job'[j].step = "remove"
      /\ ListShape(j, job'[j].todo)
  BY ListedShape DEF Keeps, List, At
<1>2. UNCHANGED <<doc, said, purpose, clash, doomed, archive>>
  BY DEF List, files, history
<1>3. Met'
  BY <1>1, <1>2, MetStays DEF RecordsInv
<1>4. RecordOK(job[j])'
  <2>1. SUFFICES ASSUME job[j].kind = "file", job[j].of \in Records \ clash
                 PROVE  RecordOK(job[j])'
    BY <1>1, <1>2, HandlerAt DEF RecordOK, ListShape, Keeps
  <2>2. /\ purpose[job[j].file] = job[j].of /\ doc[job[j].of].file = job[j].file /\ job[j].file \in Files
        /\ job'[j].todo = Rows(job[j].of) \ {job[j].file}
    BY <1>1, <2>1, HandlerAt DEF RecordsInv, RecordOK, ListShape, Kept, InCourse
  <2>3. QED
    BY <1>1, <1>2, <2>1, <2>2 DEF RecordOK, Keeps
<1>5. QED
  BY <1>1, <1>2, <1>3, <1>4, RecordsSame

LEMMA RemoveRowRecords ==
    ASSUME RecordsInv, CardsInv, Types, NEW j \in Jobs, NEW f \in Files, RemoveRow(j, f)
    PROVE  RecordsInv'
<1>1. Types' /\ Others(j) /\ (Keeps(j) \/ Ends(j))
  BY RemoveRowShape DEF Goes, Ends, Keeps
<1>2. UNCHANGED <<doc, said, clash, doomed, archive>>
  BY DEF RemoveRow
<1>3. Met'
  BY <1>1, <1>2, MetStays DEF RecordsInv
<1>4. CASE purpose[f] = None
  <2>1. purpose' = purpose /\ (Ends(j) \/ job'[j].kind = "purge")
    BY <1>4, RemoveRowShape DEF Goes, Keeps
  <2>2. RecordOK(job[j])'
    BY <2>1, IdleRecord DEF RecordOK, Ends
  <2>3. QED
    BY <1>1, <1>2, <1>3, <2>1, <2>2, RecordsSame
<1>5. CASE purpose[f] # None
  <2>1. /\ purpose' = [purpose EXCEPT ![f] = None]
        /\ Keeps(j) /\ job'[j].step = "unlink" /\ job'[j].todo = job[j].todo \ {f}
    BY <1>5, RemoveRowShape
  <2>2. purpose \in RowTable /\ f \in job[j].todo /\ job[j].step = "remove"
    BY DEF Types, Tables, RemoveRow, At
  <2>3. \A g \in Files : g # f => purpose'[g] = purpose[g]
    BY <2>1, <2>2 DEF RowTable
  <2>4. ASSUME NEW r \in Records \ clash, purpose[f] = r
        PROVE  \A i \in Jobs \ {j} : job[i].of # r
    <3>1. job[j].of = r
      BY <1>5, <2>4, WhatIsRemoved, Purposeful DEF Removes
    <3>2. QED
      BY <2>4, <3>1, OneOfRecord DEF RecordsInv
  <2>5. Names(doc, purpose)'
    <3>1. SUFFICES ASSUME NEW r \in Records \ (clash \cup doomed), doc[r].file # 0
                   PROVE  doc[r].file \in Files /\ purpose'[doc[r].file] = r
      BY <1>2 DEF Names
    <3>2. doc[r].file \in Files /\ purpose[doc[r].file] = r
      BY <3>1 DEF RecordsInv, Names
    <3>3. CASE doc[r].file = f
      <4>1. job[j].kind = "file" /\ job[j].of = r
        BY <1>5, <3>1, <3>2, <3>3, WhatIsRemoved
      <4>2. doc[r].file \notin job[j].todo
        BY <2>2, <3>1, <4>1 DEF RecordsInv, RecordOK
      <4>3. QED
        BY <2>2, <3>3, <4>2
    <3>4. QED
      BY <2>3, <3>2, <3>3
  <2>6. archive'.taken # "no" => Names(archive.doc, archive.purpose)'
    BY <1>2 DEF RecordsInv, Names
  <2>7. \A i \in Jobs \ {j} : job[i].of \in Records \ clash' =>
             /\ doc'[job[i].of] = doc[job[i].of]
             /\ \A g \in Files : purpose[g] = job[i].of => purpose'[g] = job[i].of
    BY <1>2, <2>3, <2>4
  <2>8. RecordOK(job[j])'
    <3>1. SUFFICES ASSUME job[j].kind = "file", job[j].of \in Records \ clash
                   PROVE  RecordOK(job[j])'
      BY <1>2, <2>1, RemoveRowShape DEF RecordOK, Keeps
    <3>2. PICK r : r = job[j].of
      OBVIOUS
    <3>3. doc[r].file \in Files /\ purpose[doc[r].file] = r /\ doc[r].file \notin job[j].todo
      BY <2>2, <3>1, <3>2 DEF RecordsInv, RecordOK
    <3>4. purpose'[doc[r].file] = r
      BY <2>2, <2>3, <3>3
    <3>5. QED
      BY <1>2, <2>1, <3>1, <3>2, <3>3, <3>4 DEF RecordOK, Keeps
  <2>9. \A r \in Records \ clash' : doc'[r] = said'[r]
    BY <1>2 DEF RecordsInv
  <2>10. QED
    BY <1>1, <1>2, <1>3, <2>5, <2>6, <2>7, <2>8, <2>9, RecordsFrame
<1>6. QED
  BY <1>4, <1>5

LEMMA WriteRecords ==
    ASSUME RecordsInv, Types, NEW j \in Jobs, Write(j)
    PROVE  RecordsInv'
<1>1. PICK r : r = job[j].of
  OBVIOUS
<1>2. Types' /\ Others(j) /\ (Keeps(j) \/ Ends(j)) /\ job[j].step = "write" /\ r \in Records
  BY <1>1, WriteShape, MergedOK DEF Goes, Ends, Keeps, Write, At
<1>3. UNCHANGED <<purpose, clash, doomed, archive>> /\ doc' = [doc EXCEPT ![r] = Merged(j)]
  BY <1>1 DEF Write, files
<1>4. Met'
  BY <1>2, <1>3, MetStays DEF RecordsInv
<1>5. /\ Merged(j) \in Docs /\ job[j].kind \in {"text", "file", "clear"}
      /\ job[j].kind = "text" => Merged(j) = [job[j].seen EXCEPT !.text = lastText + 1]
      /\ job[j].kind = "file" => Merged(j) = [job[j].seen EXCEPT !.file = job[j].file] /\ job[j].file \in Files
      /\ job[j].kind = "clear" => Merged(j) = [job[j].seen EXCEPT !.file = 0]
  BY MergedOK DEF Write
<1>6. doc \in [Records -> Docs] /\ said \in [Records -> Docs] /\ job[j].seen \in Docs
  BY HandlerAt DEF Types, Tables, Handler
<1>7. doc'[r] = Merged(j) /\ \A q \in Records \ {r} : doc'[q] = doc[q]
  BY <1>2, <1>3, <1>6
<1>8. \A q \in Records \ {r} : said'[q] = said[q]
  BY <1>1, <1>6 DEF Write
<1>9. ASSUME r \notin clash
      PROVE  /\ job[j].seen = doc[r] /\ doc[r] = said[r]
             /\ job[j].kind = "file" => purpose[job[j].file] = r
  BY <1>1, <1>2, <1>5, <1>9 DEF RecordsInv, RecordOK
<1>10. ASSUME r \notin clash PROVE said'[r] = Merged(j)
  <2>1. said'[r] = IF job[j].kind = "text" THEN [said[r] EXCEPT !.text = lastText + 1]
                   ELSE [said[r] EXCEPT !.file = IF job[j].kind = "file" THEN job[j].file ELSE 0]
    BY <1>1, <1>2, <1>6 DEF Write
  <2>2. QED
    BY <1>5, <1>9, <1>10, <2>1
<1>11. \A q \in Records \ clash' : doc'[q] = said'[q]
  BY <1>3, <1>7, <1>8, <1>10 DEF RecordsInv
<1>12. /\ job[j].kind = "text" => Merged(j).file = job[j].seen.file
       /\ job[j].kind = "file" => Merged(j).file = job[j].file
       /\ job[j].kind = "clear" => Merged(j).file = 0
  BY <1>5, <1>6 DEF Docs
<1>13. Names(doc, purpose)'
  <2>1. ASSUME NEW q \in Records \ (clash \cup doomed), doc'[q].file # 0
        PROVE  doc'[q].file \in Files /\ purpose[doc'[q].file] = q
    <3>1. doc[q].file # 0 => doc[q].file \in Files /\ purpose[doc[q].file] = q
      BY <2>1 DEF RecordsInv, Names
    <3>2. CASE q # r
      BY <1>7, <2>1, <3>1, <3>2
    <3>3. CASE q = r
      BY <1>5, <1>7, <1>9, <1>12, <2>1, <3>1, <3>3
    <3>4. QED
      BY <3>2, <3>3
  <2>2. QED
    BY <1>3, <2>1 DEF Names
<1>14. archive'.taken # "no" => Names(archive.doc, archive.purpose)'
  BY <1>3 DEF RecordsInv, Names
<1>15. \A i \in Jobs \ {j} : job[i].of \in Records \ clash' =>
             /\ doc'[job[i].of] = doc[job[i].of]
             /\ \A f \in Files : purpose[f] = job[i].of => purpose'[f] = job[i].of
  <2>1. \A i \in Jobs \ {j} : job[i].of \in Records \ clash => job[i].of # r
    BY <1>1, OneOfRecord DEF RecordsInv
  <2>2. QED
    BY <1>3, <1>7, <2>1
<1>16. RecordOK(job[j])'
  <2>1. CASE Ends(j)
    BY <2>1, IdleRecord DEF Ends
  <2>2. CASE Keeps(j) /\ job'[j].step \in {"runtime", "list"} /\ job'[j].file = job[j].file
    BY <1>1, <1>2, <1>3, <1>7, <1>9, <1>12, <2>2 DEF RecordOK, Keeps
  <2>3. QED
    BY <2>1, <2>2, WriteShape DEF Goes
<1>17. QED
  BY <1>2, <1>3, <1>4, <1>11, <1>13, <1>14, <1>15, <1>16, RecordsFrame

LEMMA DeleteRecords ==
    ASSUME RecordsInv, CardsInv, Types, NEW j \in Jobs, Delete(j)
    PROVE  RecordsInv'
<1>1. PICK p : p = job[j].of
  OBVIOUS
<1>2. Types' /\ Others(j) /\ Ends(j) /\ job'[j] = Idle
  BY DeleteShape DEF Ends
<1>3. UNCHANGED <<clash, doomed, archive>>
  BY DEF Delete
<1>4. \/ job[j].kind = "purge" /\ p \in {Profile, Editorial}
      \/ job[j].kind = "card" /\ p \in Cards
  BY <1>1, DeleteShape
<1>5. p \in doomed
  BY <1>1, <1>4, Purposeful DEF CardsInv, RemovalOK, Removes
<1>6. \A q \in Records \ {p} : doc'[q] = doc[q] /\ said'[q] = said[q]
  BY <1>1 DEF Delete, Types, Tables
<1>7. p \in Records => doc'[p] = Gone /\ said'[p] = Gone
  BY <1>1 DEF Delete, Types, Tables
<1>8. \A f \in Files : purpose[f] # p => purpose'[f] = purpose[f]
  BY <1>1 DEF Delete
<1>9. Met'
  BY <1>2, <1>3, MetStays DEF RecordsInv
<1>10. \A q \in Records \ clash' : doc'[q] = said'[q]
  BY <1>3, <1>6, <1>7 DEF RecordsInv
<1>11. Names(doc, purpose)'
  BY <1>3, <1>5, <1>6, <1>8 DEF RecordsInv, Names
<1>12. archive'.taken # "no" => Names(archive.doc, archive.purpose)'
  BY <1>3 DEF RecordsInv, Names
<1>13. \A i \in Jobs \ {j} : job[i].of \in Records \ clash' =>
             /\ doc'[job[i].of] = doc[job[i].of]
             /\ \A f \in Files : purpose[f] = job[i].of => purpose'[f] = job[i].of
  <2>1. \A i \in Jobs \ {j} : job[i].of \in Records \ clash => job[i].of # p
    BY <1>1, OneOfRecord DEF RecordsInv
  <2>2. QED
    BY <1>3, <1>6, <1>8, <2>1
<1>14. QED
  BY <1>2, <1>3, <1>9, <1>10, <1>11, <1>12, <1>13, IdleRecord, RecordsFrame

LEMMA RestRecords ==
    ASSUME \A j \in Jobs : job'[j] = Idle
    PROVE  Met' /\ \A j \in Jobs : RecordOK(job[j])'
  BY IdleOK, IdleRecord DEF Met, Meet

LEMMA RestoreRecords ==
    ASSUME RecordsInv, Types, Restore
    PROVE  RecordsInv'
<1>1. Met' /\ \A j \in Jobs : RecordOK(job[j])'
  BY RestoreShape, RestRecords
<1>2. /\ archive'.taken = "no" /\ archive.taken # "no" /\ doc' = archive.doc /\ said' = archive.doc
      /\ purpose' = archive.purpose /\ clash' = clash /\ doomed' = doomed
  BY DEF Restore
<1>3. QED
  BY <1>1, <1>2 DEF RecordsInv, Names

LEMMA RestartRecords ==
    ASSUME RecordsInv, Types, Restart
    PROVE  RecordsInv'
<1>1. Met' /\ \A j \in Jobs : RecordOK(job[j])'
  BY RestartShape, RestRecords
<1>2. UNCHANGED <<archive, doc, said, purpose, clash, doomed>>
  BY DEF Restart, files
<1>3. QED
  BY <1>1, <1>2 DEF RecordsInv, Names

LEMMA InitRecords == Init => RecordsInv
<1>1. Init => Met /\ \A j \in Jobs : RecordOK(job[j])
  BY IdleOK, Purposeful DEF Init, Met, Meet, RecordOK
<1>2. QED
  BY <1>1 DEF Init, RecordsInv, Names

LEMMA NextRecords ==
    ASSUME RecordsInv, CardsInv, FilesInv, Types, [Next]_vars
    PROVE  RecordsInv'
<1>1. CASE UNCHANGED vars
  BY <1>1 DEF RecordsInv, Met, Meet, Names, RecordOK, vars, files, history
<1>2. CASE Next
  BY <1>2, StartRecords, MoveRecords, CreateRowRecords, ListRecords, RemoveRowRecords, WriteRecords,
     DeleteRecords, RestoreRecords, RestartRecords DEF Next
<1>3. QED
  BY <1>1, <1>2

LEMMA AllRecords == Spec => [](Types /\ FilesInv /\ CardsInv /\ RecordsInv)
  BY AllCards, InitRecords, NextRecords, PTL DEF Spec

(* A record that no two handlers were at together holds every change that  *)
(* was answered and names a file of its own, whatever else overlaps,       *)
(* throws, crashes or is restored (RecordsStand).                          *)
THEOREM RecordsKeepChanges == Spec => []RecordsStand
<1>1. RecordsInv => RecordsStand
  BY DEF RecordsInv, Names, RecordsStand
<1>2. QED
  BY <1>1, AllRecords, PTL


-----------------------------------------------------------------------------
(* The settings in memory are those of the row                             *)

\* At the steps that bring the settings into memory a handler is alone.
LEMMA AloneAtSettings ==
    ASSUME Types, Met, Settings \notin clash, NEW i \in Jobs, NEW j \in Jobs,
           job[i].of = Settings, job[j].of = Settings
    PROVE  i = j
  BY OneOfRecord, Purposeful

LEMMA AtSettings ==
    ASSUME Types, NEW j \in Jobs, At(j, "runtime") \/ At(j, "shown")
    PROVE  job[j].of = Settings /\ job[j].kind \in {"text", "file", "clear", "load"}
  BY HandlerAt, IdleOK DEF At, InCourse, Handler, Kinds

\* A step that leaves the settings and what is in memory alone.
LEMMA SettingsFrame ==
    ASSUME SettingsInv, NEW j \in Jobs, Others(j), doc'[Settings] = doc[Settings], UNCHANGED memory,
           mishaps \subseteq mishaps', clash \subseteq clash', Settings \notin doomed',
           mishaps' = {} /\ archive'.taken # "no" =>
             \/ archive.taken # "no" /\ archive'.shown = archive.shown /\ archive'.doc = archive.doc
             \/ archive'.shown = archive'.doc[Settings].file,
           job[j].step \notin {"runtime", "shown"},
           \/ job'[j].step \notin {"runtime", "shown"}
           \/ job'[j].step = "runtime" /\ job'[j].kind = "load" /\ job'[j].seen = doc[Settings]
    PROVE  SettingsInv'
<1>1. SUFFICES ASSUME mishaps' = {}, Settings \notin clash'
               PROVE  SettingsInv'
  BY DEF SettingsInv
<1>2. mishaps = {} /\ Settings \notin clash /\ runtime' = runtime /\ shown' = shown
  BY <1>1 DEF memory
<1>3. (\A i \in Jobs : At(i, "runtime") => job[i].kind = "load")' =>
        (\A i \in Jobs : At(i, "runtime") => job[i].kind = "load")
  BY DEF At, Others
<1>4. (\A i \in Jobs : At(i, "runtime") \/ At(i, "shown") => job[i].kind \notin {"file", "clear"})' =>
        (\A i \in Jobs : At(i, "runtime") \/ At(i, "shown") => job[i].kind \notin {"file", "clear"})
  BY DEF At, Others
<1>5. \A i \in Jobs : SettingsOK(job[i])'
  BY <1>2 DEF SettingsInv, SettingsOK, Others
<1>6. archive'.taken # "no" => archive'.shown = archive'.doc[Settings].file
  BY <1>1, <1>2 DEF SettingsInv
<1>7. QED
  BY <1>2, <1>3, <1>4, <1>5, <1>6 DEF SettingsInv

LEMMA StartSettings ==
    ASSUME SettingsInv, Types, NEW j \in Jobs,
           \/ \E r \in Records : Save(j, r) \/ Upload(j, r) \/ Purge(j, r)
           \/ \E c \in Cards : Issue(j, c) \/ RemoveCard(j, c)
           \/ ClearLogo(j) \/ LoadSettings(j)
    PROVE  SettingsInv'
<1>1. /\ Others(j)
      /\ \/ job'[j].step \notin {"runtime", "shown"}
         \/ job'[j].step = "runtime" /\ job'[j].kind = "load" /\ job'[j].seen = doc[Settings]
  BY SaveShape, UploadShape, PurgeShape, IssueShape, RemoveCardShape, ClearLogoShape,
     LoadSettingsShape DEF Begins
<1>2. job[j].step = "none"
  BY HandlerAt, IdleOK DEF Save, Upload, Purge, Issue, RemoveCard, ClearLogo, LoadSettings, Start, Busy, InCourse
<1>3. UNCHANGED <<doc, memory, archive, mishaps>>
  BY DEF Save, Upload, Purge, Issue, RemoveCard, ClearLogo, LoadSettings
<1>4. clash \subseteq clash'
  BY DEF Save, Upload, Purge, Issue, RemoveCard, ClearLogo, LoadSettings, Start
<1>5. Settings \notin doomed'
  <2>1. \A r \in Records : Purge(j, r) => Settings \notin doomed'
    BY Purposeful DEF Purge, SettingsInv
  <2>2. \A c \in Cards : RemoveCard(j, c) => Settings \notin doomed'
    BY Purposeful DEF RemoveCard, SettingsInv
  <2>3. (\E r \in Records : Purge(j, r)) \/ (\E c \in Cards : RemoveCard(j, c)) \/ doomed' = doomed
    BY DEF Save, Upload, Issue, ClearLogo, LoadSettings
  <2>4. QED
    BY <2>1, <2>2, <2>3 DEF SettingsInv
<1>6. QED
  BY <1>1, <1>2, <1>3, <1>4, <1>5, SettingsFrame

LEMMA DumpSettings ==
    ASSUME SettingsInv, Types, NEW j \in Jobs, Dump(j)
    PROVE  SettingsInv'
<1>1. Others(j) /\ job'[j].step \notin {"runtime", "shown"}
  BY DumpShape DEF Begins
<1>2. job[j].step = "none"
  BY HandlerAt, IdleOK DEF Dump, Start, Busy, InCourse
<1>3. UNCHANGED <<doc, memory>> /\ archive'.shown = shown /\ archive'.doc = doc /\ doomed' = doomed
  BY DEF Dump
<1>4. clash \subseteq clash' /\ mishaps \subseteq mishaps'
  BY DumpMishaps DEF Dump, Start
<1>5. CASE Settings \in clash
  BY <1>3, <1>4, <1>5 DEF SettingsInv
<1>6. CASE Settings \notin clash
  <2>1. mishaps' = {} => shown = doc[Settings].file
    <3>1. mishaps' = {} => \A i \in Jobs : ~At(i, "runtime") /\ ~At(i, "shown")
      BY DumpMishaps DEF At
    <3>2. QED
      BY <1>4, <1>6, <3>1 DEF SettingsInv
  <2>2. QED
    BY <1>1, <1>2, <1>3, <1>4, <2>1, SettingsFrame DEF SettingsInv
<1>7. QED
  BY <1>5, <1>6

LEMMA MoveSettings ==
    ASSUME SettingsInv, Types, NEW j \in Jobs,
           \/ WriteTemporary(j) \/ Rename(j) \/ CreateRow(j) \/ List(j) \/ Unlink(j) \/ Removed(j)
           \/ Delete(j) \/ CreateCard(j) \/ CopyLogo(j) \/ WriteCard(j) \/ Tar(j)
           \/ \E f \in Files : RemoveRow(j, f)
           \/ Write(j) /\ job[j].of # Settings
    PROVE  SettingsInv'
<1>1. Others(j) /\ job'[j].step \notin {"runtime", "shown"}
  BY WriteTemporaryShape, RenameShape, CreateRowShape, ListedShape, UnlinkShape, RemovedShape, DeleteShape,
     CreateCardShape, CopyLogoShape, WriteCardShape, TarShape, RemoveRowShape, WriteShape, IdleOK
     DEF Goes, Ends, Keeps
<1>2. job[j].step \notin {"runtime", "shown"}
  BY DEF WriteTemporary, Rename, CreateRow, List, Unlink, Removed, Delete, CreateCard, CopyLogo, WriteCard, Tar,
         RemoveRow, Write, At
<1>3. UNCHANGED <<memory, clash, doomed>>
  BY DEF WriteTemporary, Rename, CreateRow, List, Unlink, Removed, Delete, CreateCard, CopyLogo, WriteCard, Tar,
         RemoveRow, Write, history
<1>4. mishaps \subseteq mishaps'
  BY RemoveRowShape DEF WriteTemporary, Rename, CreateRow, List, Unlink, Removed, Delete, CreateCard, CopyLogo,
         WriteCard, Tar, Write, history
<1>5. doc'[Settings] = doc[Settings]
  <2>1. Delete(j) => doc'[Settings] = doc[Settings]
    BY DeleteShape, Purposeful DEF Delete, Types, Tables
  <2>2. Write(j) /\ job[j].of # Settings => doc'[Settings] = doc[Settings]
    BY Purposeful DEF Write, Types, Tables
  <2>3. Delete(j) \/ Write(j) \/ doc' = doc
    BY DEF WriteTemporary, Rename, CreateRow, List, Unlink, Removed, CreateCard, CopyLogo, WriteCard, Tar, RemoveRow
  <2>4. ~Write(j) \/ job[j].of # Settings
    BY DEF WriteTemporary, Rename, CreateRow, List, Unlink, Removed, Delete, CreateCard, CopyLogo, WriteCard, Tar,
           RemoveRow, Write, At
  <2>5. QED
    BY <2>1, <2>2, <2>3, <2>4
<1>6. archive'.taken # "no" =>
         archive.taken # "no" /\ archive'.shown = archive.shown /\ archive'.doc = archive.doc
  BY TarShape DEF WriteTemporary, Rename, CreateRow, List, Unlink, Removed, Delete, CreateCard, CopyLogo,
     WriteCard, Tar, RemoveRow, Write
<1>7. QED
  BY <1>1, <1>2, <1>3, <1>4, <1>5, <1>6, SettingsFrame DEF SettingsInv

\* The one handler at the settings writes, sets what is in memory, and the logo in the clear.
LEMMA SettingsStep ==
    ASSUME SettingsInv, RecordsInv, Types, NEW j \in Jobs, Others(j), job[j].of = Settings,
           UNCHANGED <<mishaps, clash, doomed, archive>>,
           Settings \notin clash /\ mishaps = {} =>
             /\ SettingsOK(job[j])'
             /\ \/ job'[j].step = "runtime" /\ job'[j].kind # "load"
                \/ runtime' \in {None, doc'[Settings].text}
             /\ \/ job'[j].step \in {"runtime", "shown"} /\ job'[j].kind \in {"file", "clear"}
                \/ shown' = doc'[Settings].file
    PROVE  SettingsInv'
<1>1. SUFFICES ASSUME mishaps = {}, Settings \notin clash
               PROVE  SettingsInv'
  BY DEF SettingsInv
<1>2. \A i \in Jobs \ {j} : job'[i].of # Settings
  BY <1>1, AloneAtSettings DEF RecordsInv, Others
<1>3. \A i \in Jobs : SettingsOK(job[i])'
  BY <1>1, <1>2 DEF SettingsOK
<1>4. QED
  BY <1>1, <1>3 DEF SettingsInv, At

LEMMA WriteSettings ==
    ASSUME SettingsInv, RecordsInv, Types, NEW j \in Jobs, Write(j), job[j].of = Settings
    PROVE  SettingsInv'
<1>1. /\ Others(j) /\ Keeps(j) /\ job'[j].step = "runtime" /\ job'[j].seen = Merged(j) /\ job[j].step = "write"
  BY WriteShape DEF Keeps, Write, At
<1>2. UNCHANGED <<memory, clash, mishaps, doomed, archive>> /\ doc' = [doc EXCEPT ![Settings] = Merged(j)]
  BY DEF Write
<1>3. doc'[Settings] = Merged(j)
  BY <1>2, Purposeful DEF Types, Tables
<1>4. job[j].kind \in {"text", "file", "clear"} /\ job[j].seen \in Docs
      /\ (job[j].kind = "text" => Merged(j) = [job[j].seen EXCEPT !.text = lastText + 1])
  BY MergedOK, HandlerAt DEF Write, Handler
<1>5. SettingsOK(job[j])'
  BY <1>1, <1>3 DEF SettingsOK
<1>6. Settings \notin clash /\ mishaps = {} /\ job[j].kind = "text" => shown' = doc'[Settings].file
  <2>1. SUFFICES ASSUME Settings \notin clash, mishaps = {}, job[j].kind = "text"
                 PROVE  shown = doc'[Settings].file
    BY <1>2 DEF memory
  <2>2. job[j].seen = doc[Settings]
    BY <1>1, <1>4, <2>1, Purposeful DEF RecordsInv, RecordOK
  <2>3. doc'[Settings].file = doc[Settings].file
    BY <1>3, <1>4, <2>1, <2>2 DEF Docs
  <2>4. \A i \in Jobs : ~At(i, "runtime") /\ ~At(i, "shown")
    <3>1. \A i \in Jobs : At(i, "runtime") \/ At(i, "shown") => i = j
      BY <2>1, AtSettings, AloneAtSettings DEF RecordsInv
    <3>2. QED
      BY <1>1, <3>1 DEF At
  <2>5. QED
    BY <2>1, <2>3, <2>4 DEF SettingsInv
<1>7. QED
  BY <1>1, <1>2, <1>4, <1>5, <1>6, SettingsStep DEF Keeps

\* The file a handler just gave the settings can be read back.
LEMMA FileIsReadable ==
    ASSUME SettingsInv, RecordsInv, FilesInv, Types, NEW j \in Jobs, At(j, "runtime"),
           job[j].kind = "file", Settings \notin clash, mishaps = {}
    PROVE  Readable(job[j].seen.file)
<1>1. job[j].step = "runtime" /\ job[j].of = Settings /\ job[j].file \in Files
  BY HandlerAt DEF InCourse, At
<1>2. job[j].seen = doc[Settings]
  BY <1>1 DEF SettingsInv, SettingsOK
<1>3. purpose[job[j].file] = Settings /\ doc[Settings].file = job[j].file
  BY <1>1, Purposeful DEF RecordsInv, RecordOK
<1>4. job[j].file \in disk
  BY <1>1, <1>3, Purposeful DEF FilesInv, RowsOK
<1>5. QED
  BY <1>1, <1>2, <1>3, <1>4, Purposeful DEF Readable

LEMMA SetRuntimeSettings ==
    ASSUME SettingsInv, RecordsInv, FilesInv, Types, NEW j \in Jobs, SetRuntime(j)
    PROVE  SettingsInv'
<1>1. Others(j) /\ job[j].of = Settings /\ job[j].step = "runtime"
  BY SetRuntimeShape DEF Goes, Ends, Keeps, SetRuntime, At
<1>2. UNCHANGED <<doc, shown, mishaps, clash, doomed, archive>>
  BY DEF SetRuntime, history
<1>3. SUFFICES ASSUME Settings \notin clash, mishaps = {}
               PROVE  /\ SettingsOK(job[j])'
                      /\ \/ job'[j].step = "runtime" /\ job'[j].kind # "load"
                         \/ runtime' \in {None, doc'[Settings].text}
                      /\ \/ job'[j].step \in {"runtime", "shown"} /\ job'[j].kind \in {"file", "clear"}
                         \/ shown' = doc'[Settings].file
  BY <1>1, <1>2, SettingsStep
<1>4. job[j].seen = doc[Settings]
  BY <1>1, <1>3 DEF SettingsInv, SettingsOK
<1>5. \A i \in Jobs : At(i, "runtime") \/ At(i, "shown") => i = j
  BY <1>1, <1>3, AtSettings, AloneAtSettings DEF RecordsInv
<1>6. job[j].kind \notin {"file", "clear"} => shown = doc[Settings].file
  BY <1>3, <1>5 DEF SettingsInv
<1>7. job[j].kind = "load" => runtime \in {None, doc[Settings].text}
  BY <1>3, <1>5 DEF SettingsInv
<1>8. job[j].kind = "file" => Readable(job[j].seen.file)
  BY <1>1, <1>3, FileIsReadable DEF At
<1>9. CASE job[j].kind = "load" /\ runtime' = runtime /\ Ends(j)
  BY <1>2, <1>6, <1>7, <1>9, IdleOK DEF SettingsOK, Ends
<1>10. CASE runtime' = job[j].seen.text /\ job[j].kind \in {"file", "clear"} /\ Goes(j, "shown")
  BY <1>2, <1>4, <1>10 DEF SettingsOK, Goes, Keeps
<1>11. CASE runtime' = job[j].seen.text /\ job[j].kind \in {"text", "load"} /\ Ends(j)
  BY <1>2, <1>4, <1>6, <1>11, IdleOK DEF SettingsOK, Ends
<1>12. QED
  BY <1>8, <1>9, <1>10, <1>11, SetRuntimeShape

LEMMA WriteShownSettings ==
    ASSUME SettingsInv, RecordsInv, Types, NEW j \in Jobs, WriteShown(j)
    PROVE  SettingsInv'
<1>1. /\ Others(j) /\ job[j].of = Settings /\ job[j].step = "shown" /\ job'[j].step \in {"list", "none"}
  BY WriteShownShape, IdleOK DEF Goes, Ends, Keeps, WriteShown, At
<1>2. UNCHANGED <<doc, runtime, mishaps, clash, doomed, archive>> /\ shown' = job[j].seen.file
  BY DEF WriteShown, history
<1>3. SettingsOK(job[j])'
  BY <1>1 DEF SettingsOK
<1>4. Settings \notin clash /\ mishaps = {} => job[j].seen = doc[Settings] /\ runtime = doc[Settings].text
  BY <1>1 DEF SettingsInv, SettingsOK
<1>5. QED
  BY <1>1, <1>2, <1>3, <1>4, SettingsStep

LEMMA RestSettings ==
    ASSUME SettingsInv, Types, Restore \/ Restart
    PROVE  SettingsInv'
<1>1. \A j \in Jobs : job'[j] = Idle
  BY RestoreShape, RestartShape
<1>2. \A j \in Jobs : SettingsOK(job[j])'
  BY <1>1, IdleOK DEF SettingsOK
<1>3. runtime' = None /\ doomed' = doomed /\ clash' = clash
  BY DEF Restore, Restart
<1>4. CASE Restore
  <2>1. archive'.taken = "no" /\ archive.taken # "no" /\ shown' = archive.shown /\ doc' = archive.doc /\ mishaps' = mishaps
    BY <1>4 DEF Restore
  <2>2. QED
    BY <1>2, <1>3, <2>1 DEF SettingsInv
<1>5. CASE Restart
  <2>1. UNCHANGED <<archive, shown, doc>> /\ (mishaps' = {} => mishaps = {} /\ Quiet)
    BY <1>5 DEF Restart
  <2>2. Quiet => \A j \in Jobs : ~At(j, "runtime") /\ ~At(j, "shown")
    BY HandlerAt, IdleOK DEF Quiet, Busy, InCourse, At
  <2>3. QED
    BY <1>2, <1>3, <2>1, <2>2 DEF SettingsInv
<1>6. QED
  BY <1>4, <1>5

LEMMA ThrowSettings ==
    ASSUME SettingsInv, NEW j \in Jobs, Throw(j)
    PROVE  SettingsInv'
  BY DEF Throw, SettingsInv

LEMMA InitSettings == Init => SettingsInv
  BY IdleOK, Purposeful DEF Init, SettingsInv, SettingsOK

LEMMA NextSettings ==
    ASSUME SettingsInv, RecordsInv, FilesInv, Types, [Next]_vars
    PROVE  SettingsInv'
<1>1. CASE UNCHANGED vars
  BY <1>1 DEF SettingsInv, SettingsOK, At, vars, files, memory, history, counters
<1>2. CASE Next
  BY <1>2, StartSettings, DumpSettings, MoveSettings, WriteSettings, SetRuntimeSettings,
     WriteShownSettings, RestSettings, ThrowSettings DEF Next
<1>3. QED
  BY <1>1, <1>2

LEMMA AllSettings == Spec => [](Types /\ FilesInv /\ CardsInv /\ RecordsInv /\ SettingsInv)
  BY AllRecords, InitSettings, NextSettings, PTL DEF Spec

(* Between requests, when nothing failed and no two handlers met at the    *)
(* settings, memory holds the row's text and the logo in the clear is the  *)
(* one the row names (SettingsInStep).                                     *)
THEOREM SettingsStayInStep == Spec => []SettingsInStep
<1>1. Types /\ SettingsInv => SettingsInStep
  <2> SUFFICES ASSUME Types, SettingsInv, Quiet, mishaps = {}, Settings \notin clash
               PROVE  runtime \in {None, doc[Settings].text} /\ shown = doc[Settings].file
    BY DEF SettingsInStep
  <2>1. \A j \in Jobs : ~At(j, "runtime") /\ ~At(j, "shown")
    BY HandlerAt, IdleOK DEF Quiet, Busy, InCourse, At
  <2>2. QED
    BY <2>1 DEF SettingsInv
<1>2. QED
  BY <1>1, AllSettings, PTL


-----------------------------------------------------------------------------
(* Nothing is left behind                                                  *)

LEMMA SmoothBefore ==
    ASSUME mishaps \subseteq mishaps', clash \subseteq clash', Smooth'
    PROVE  Smooth
  BY DEF Smooth

LEMMA NobodyMeets ==
    ASSUME Met, Smooth, NEW i \in Jobs, NEW j \in Jobs, i # j
    PROVE  ~Meet(job[i], job[j])
  BY DEF Met, Smooth

\* Handlers that remove one purpose, both of them, meet.
LEMMA RemovingMeets ==
    ASSUME Types, NEW i \in Jobs, NEW j \in Jobs, NEW p \in Purposes,
           job[i].kind \in {"file", "card", "purge"}, job[j].kind \in {"file", "card", "purge"},
           Removes(job[i], p), Removes(job[j], p)
    PROVE  Meet(job[i], job[j])
<1>1. /\ job[i].of \in Purposes /\ (job[i].kind = "purge" => OwnerOf(job[i].of) = job[i].of)
      /\ job[j].of \in Purposes /\ (job[j].kind = "purge" => OwnerOf(job[j].of) = job[j].of)
  BY HandlerAt, Purposeful DEF InCourse
<1>2. job[i].kind # "idle" /\ job[j].kind # "idle" /\ None \notin {job[i].of, job[j].of}
  BY <1>1, Purposeful
<1>3. job[i].of = job[j].of \/ ("purge" \in {job[i].kind, job[j].kind} /\ OwnerOf(job[i].of) = OwnerOf(job[j].of))
  BY <1>1 DEF Removes
<1>4. QED
  BY <1>2, <1>3 DEF Meet

\* Handler j moves; tables, bytes and archive stay.
LEMMA TidyFrame ==
    ASSUME TidyInv, NEW j \in Jobs, Others(j), UNCHANGED <<doc, files, archive>>,
           mishaps \subseteq mishaps', clash \subseteq clash',
           job[j].step \notin {"rename", "row", "unlink"},
           job'[j].step \notin {"rename", "row", "unlink", "tar"},
           \A r \in Records : \A f \in Files :
             Smooth /\ SeenTo(job[j], r, f) /\ f \in Rows(r) /\ f # doc[r].file => SeenTo(job[j], r, f)',
           job[j].kind = "purge" => job'[j].kind = "purge" /\ job'[j].of = job[j].of,
           Smooth' => TidyOK(job[j])'
    PROVE  TidyInv'
<1>1. SUFFICES ASSUME Smooth'
               PROVE  DiskTidy' /\ RowsTidy' /\ ArchiveTidy' /\ \A i \in Jobs : TidyOK(job[i])'
  BY DEF TidyInv
<1>2. Smooth /\ DiskTidy /\ RowsTidy /\ ArchiveTidy /\ \A i \in Jobs : TidyOK(job[i])
  BY <1>1, SmoothBefore DEF TidyInv
<1>3. purpose' = purpose /\ disk' = disk /\ tmp' = tmp
  BY DEF files
<1>4. DiskTidy'
  <2>1. \A i \in Jobs : job[i].step \in {"rename", "row", "unlink"} => job'[i] = job[i]
    BY DEF Others
  <2>2. QED
    BY <1>2, <1>3, <2>1 DEF DiskTidy, At
<1>5. RowsTidy'
  <2>1. SUFFICES ASSUME NEW r \in Records
                 PROVE  /\ doc[r].file \in Files =>
                             /\ \A f \in Rows(r) : f = doc[r].file \/ \E i \in Jobs : SeenTo(job[i], r, f)'
                             /\ \/ purpose[doc[r].file] = r
                                \/ \E i \in Jobs : job'[i].of = r /\ job'[i].kind = "purge"
                        /\ doc[r] = Gone => RowsOf(r) = {}
    BY <1>3 DEF RowsTidy, Rows, RowsOf
  <2>2. \A f \in Rows(r) : \A i \in Jobs : SeenTo(job[i], r, f) /\ f # doc[r].file => SeenTo(job[i], r, f)'
    <3>1. \A f \in Rows(r) : f \in Files
      BY DEF Rows
    <3>2. \A f \in Rows(r) : \A i \in Jobs \ {j} : SeenTo(job[i], r, f) => SeenTo(job[i], r, f)'
      BY DEF Others, SeenTo
    <3>3. QED
      BY <1>2, <3>1, <3>2
  <2>3. \A i \in Jobs : job[i].kind = "purge" => job'[i].kind = "purge" /\ job'[i].of = job[i].of
    BY DEF Others
  <2>4. QED
    BY <1>2, <2>2, <2>3 DEF RowsTidy
<1>6. ArchiveTidy'
  <2>1. (\E i \in Jobs : At(i, "tar"))' => \E i \in Jobs : At(i, "tar")
    BY DEF At, Others
  <2>2. QED
    BY <1>2, <1>3, <2>1 DEF ArchiveTidy, Others
<1>7. \A i \in Jobs \ {j} : TidyOK(job[i])'
  BY <1>2, <1>3 DEF TidyOK, RowsOf, Others
<1>8. QED
  BY <1>1, <1>4, <1>5, <1>6, <1>7

LEMMA StartTidy ==
    ASSUME TidyInv, Types, NEW j \in Jobs,
           \/ \E r \in Records : Save(j, r) \/ Upload(j, r) \/ Purge(j, r)
           \/ \E c \in Cards : Issue(j, c) \/ RemoveCard(j, c)
           \/ ClearLogo(j) \/ LoadSettings(j)
    PROVE  TidyInv'
<1>1. /\ Others(j) /\ job'[j].todo = {}
      /\ job'[j].step \in {"write", "temporary", "list", "create", "runtime"}
  BY SaveShape, UploadShape, PurgeShape, IssueShape, RemoveCardShape, ClearLogoShape,
     LoadSettingsShape DEF Begins
<1>2. job[j] = Idle
  BY HandlerAt DEF Save, Upload, Purge, Issue, RemoveCard, ClearLogo, LoadSettings, Start, Busy, InCourse
<1>3. UNCHANGED <<doc, files, archive, mishaps>>
  BY DEF Save, Upload, Purge, Issue, RemoveCard, ClearLogo, LoadSettings
<1>4. clash \subseteq clash'
  BY DEF Save, Upload, Purge, Issue, RemoveCard, ClearLogo, LoadSettings, Start
<1>5. job'[j].kind = "file" => doc[job'[j].of] # Gone
  <2>1. \A r \in Records : Upload(j, r) => job'[j].of = r /\ doc[r] # Gone
    BY UploadShape DEF Begins, Upload, Present
  <2>2. QED
    BY <2>1, SaveShape, PurgeShape, IssueShape, RemoveCardShape, ClearLogoShape, LoadSettingsShape DEF Begins
<1>6. job'[j].kind = "issue" => doc[Profile] # Gone
  <2>1. \A c \in Cards : Issue(j, c) => doc[Profile] # Gone
    BY DEF Issue
  <2>2. QED
    BY <2>1, SaveShape, UploadShape, PurgeShape, RemoveCardShape, ClearLogoShape, LoadSettingsShape DEF Begins
<1>7. TidyOK(job[j])'
  BY <1>1, <1>3, <1>5, <1>6 DEF TidyOK
<1>8. QED
  BY <1>1, <1>2, <1>3, <1>4, <1>7, IdleOK, TidyFrame DEF SeenTo

LEMMA MoveTidy ==
    ASSUME TidyInv, SettingsInv, RecordsInv, FilesInv, Types, NEW j \in Jobs,
           SetRuntime(j) \/ WriteShown(j) \/ CreateCard(j) \/ CopyLogo(j) \/ WriteCard(j)
    PROVE  TidyInv'
<1>1. /\ Others(j) /\ (Keeps(j) \/ Ends(j))
      /\ job'[j].step \in {"none", "shown", "list", "card", "copy", "temporary"}
  BY SetRuntimeShape, WriteShownShape, CreateCardShape, CopyLogoShape, WriteCardShape, IdleOK DEF Goes, Ends, Keeps
<1>2. UNCHANGED <<doc, files, archive, mishaps, clash>>
  BY DEF SetRuntime, WriteShown, CreateCard, CopyLogo, WriteCard, history
<1>3. job[j].step \in {"runtime", "shown", "create", "copy", "card"} /\ job[j].kind # "purge"
  BY SetRuntimeShape, WriteShownShape, CreateCardShape, CopyLogoShape, WriteCardShape
     DEF SetRuntime, WriteShown, CreateCard, CopyLogo, WriteCard, At
<1>4. Smooth /\ job[j].kind = "file" => Keeps(j) /\ job'[j].step \in {"shown", "list"}
  <2>1. Smooth /\ job[j].kind = "file" /\ SetRuntime(j) => Readable(job[j].seen.file)
    BY FileIsReadable DEF Smooth, SetRuntime
  <2>2. QED
    BY <2>1, SetRuntimeShape, WriteShownShape, CreateCardShape, CopyLogoShape, WriteCardShape DEF Goes
<1>5. \A r \in Records : \A f \in Files :
        Smooth /\ SeenTo(job[j], r, f) /\ f \in Rows(r) /\ f # doc[r].file => SeenTo(job[j], r, f)'
  BY <1>3, <1>4 DEF SeenTo, Keeps
<1>6. Smooth' => TidyOK(job[j])'
  <2>1. CASE Ends(j)
    BY <2>1, IdleOK DEF TidyOK, Ends
  <2>2. CASE Keeps(j)
    BY <1>1, <1>2, <1>3, <2>2, SmoothBefore DEF TidyInv, TidyOK, Keeps
  <2>3. QED
    BY <1>1, <2>1, <2>2
<1>7. QED
  BY <1>1, <1>2, <1>3, <1>5, <1>6, TidyFrame

LEMMA ListTidy ==
    ASSUME TidyInv, RecordsInv, Types, NEW j \in Jobs, List(j)
    PROVE  TidyInv'
<1>1. /\ Types' /\ Keeps(j) /\ Others(j) /\ job[j].step = "list" /\ job'[j].step = "remove"
      /\ ListShape(j, job'[j].todo)
  BY ListedShape DEF Keeps, List, At
<1>2. UNCHANGED <<doc, files, archive, mishaps, clash>> /\ purpose' = purpose
  BY DEF List, history, files
<1>3. \A r \in Records : \A f \in Files :
        Smooth /\ SeenTo(job[j], r, f) /\ f \in Rows(r) /\ f # doc[r].file => SeenTo(job[j], r, f)'
  <2>1. SUFFICES ASSUME NEW r \in Records, NEW f \in Rows(r), Smooth, f # doc[r].file,
                        job[j].of = r, job[j].kind = "file"
                 PROVE  f \in job'[j].todo
    BY <1>1 DEF SeenTo, Keeps
  <2>2. doc[r].file = job[j].file
    BY <1>1, <2>1 DEF RecordsInv, RecordOK, Smooth
  <2>3. QED
    BY <1>1, <2>1, <2>2 DEF ListShape, Kept
<1>4. job[j].of \in Purposes
  BY <1>1, HandlerAt, IdleOK, Purposeful DEF ListShape, InCourse, Handler
<1>5. Smooth' => TidyOK(job[j])'
  <2>1. SUFFICES ASSUME Smooth'
                 PROVE  TidyOK(job[j])'
    OBVIOUS
  <2>2. TidyOK(job[j])
    BY <1>2, <2>1, SmoothBefore DEF TidyInv
  <2>3. \A f \in job'[j].todo : purpose[f] # None
    BY <1>1, <1>4, Purposeful DEF ListShape, Rows, RowsOf
  <2>4. job[j].kind = "purge" => RowsOf(job[j].of) \subseteq job'[j].todo
    BY <1>1 DEF ListShape
  <2>5. QED
    BY <1>1, <1>2, <2>2, <2>3, <2>4 DEF TidyOK, Keeps, RowsOf
<1>6. QED
  BY <1>1, <1>2, <1>3, <1>5, TidyFrame DEF Keeps

LEMMA RemovedTidy ==
    ASSUME TidyInv, Types, NEW j \in Jobs, Removed(j)
    PROVE  TidyInv'
<1>1. /\ Others(j) /\ job[j].step = "remove" /\ job[j].todo = {}
      /\ \/ job[j].kind = "file" /\ Ends(j)
         \/ job[j].kind \in {"card", "purge"} /\ Goes(j, "delete")
  BY RemovedShape DEF Goes, Ends, Keeps, Removed, At
<1>2. UNCHANGED <<doc, files, archive, mishaps, clash>> /\ purpose' = purpose
  BY DEF Removed, history, files
<1>3. job'[j].step \in {"none", "delete"} /\ (job[j].kind = "purge" => job'[j].kind = "purge" /\ job'[j].of = job[j].of)
  BY <1>1, IdleOK DEF Goes, Ends, Keeps
<1>4. \A r \in Records : \A f \in Files :
        Smooth /\ SeenTo(job[j], r, f) /\ f \in Rows(r) /\ f # doc[r].file => SeenTo(job[j], r, f)'
  BY <1>1, <1>3 DEF SeenTo
<1>5. Smooth' => TidyOK(job[j])'
  <2>1. CASE Ends(j)
    BY <2>1, IdleOK DEF TidyOK, Ends
  <2>2. CASE Goes(j, "delete") /\ job[j].kind \in {"card", "purge"}
    BY <1>1, <1>2, <2>2, SmoothBefore DEF TidyInv, TidyOK, Goes, Keeps, RowsOf
  <2>3. QED
    BY <1>1, <2>1, <2>2
<1>6. QED
  BY <1>1, <1>2, <1>3, <1>4, <1>5, TidyFrame


\* What holds before a smooth step.
LEMMA TidyBefore ==
    ASSUME TidyInv, mishaps \subseteq mishaps', clash \subseteq clash', Smooth'
    PROVE  Smooth /\ DiskTidy /\ RowsTidy /\ ArchiveTidy /\ \A i \in Jobs : TidyOK(job[i])
  BY SmoothBefore DEF TidyInv

LEMMA DumpTidy ==
    ASSUME TidyInv, Types, NEW j \in Jobs, Dump(j)
    PROVE  TidyInv'
<1>1. Others(j) /\ job'[j].step = "tar" /\ job'[j].kind = "backup" /\ job'[j].todo = {}
  BY DumpShape DEF Begins
<1>2. /\ UNCHANGED <<doc, purpose, disk, tmp>> /\ mishaps \subseteq mishaps' /\ clash \subseteq clash'
      /\ archive'.taken = "dump" /\ archive'.purpose = purpose /\ archive'.doc = doc
  BY DumpMishaps DEF Dump, Start, files
<1>3. job[j] = Idle
  BY HandlerAt DEF Dump, Start, Busy, InCourse
<1>4. SUFFICES ASSUME Smooth'
               PROVE  DiskTidy' /\ RowsTidy' /\ ArchiveTidy' /\ \A i \in Jobs : TidyOK(job[i])'
  BY DEF TidyInv
<1>5. Smooth /\ DiskTidy /\ RowsTidy /\ ArchiveTidy /\ \A i \in Jobs : TidyOK(job[i])
  BY <1>2, <1>4, TidyBefore
<1>6. \A i \in Jobs : job[i].step \notin
        {"rename", "row", "write", "runtime", "shown", "list", "remove", "unlink", "delete", "card"}
  BY <1>4, DumpMishaps DEF Smooth
<1>7. \A i \in Jobs : job'[i].step \notin {"rename", "row", "unlink"}
  BY <1>1, <1>6 DEF Others
<1>8. DiskTidy'
  BY <1>2, <1>5, <1>6 DEF DiskTidy, At
<1>9. \A i \in Jobs : job[i].kind # "purge" /\ \A r \in Records : \A f \in Files : ~SeenTo(job[i], r, f)
  <2>1. \A i \in Jobs : job[i].kind = "purge" => job[i].step \in {"list", "remove", "unlink", "delete"}
    BY HandlerAt DEF InCourse
  <2>2. QED
    BY <1>6, <2>1 DEF SeenTo
<1>10. /\ \A r \in Records : doc[r].file \in Files => Rows(r) = {doc[r].file}
       /\ \A r \in Records : doc[r] = Gone => RowsOf(r) = {}
  BY <1>5, <1>9 DEF RowsTidy, Rows
<1>11. RowsTidy'
  BY <1>2, <1>10 DEF RowsTidy, Rows, RowsOf
<1>12. ArchiveTidy'
  BY <1>2, <1>7, <1>10 DEF ArchiveTidy, Rows, RowsOf
<1>13. \A i \in Jobs : TidyOK(job[i])'
  BY <1>1, <1>2, <1>5 DEF TidyOK, RowsOf, Others
<1>14. QED
  BY <1>8, <1>11, <1>12, <1>13

LEMMA TarTidy ==
    ASSUME TidyInv, FilesInv, Types, NEW j \in Jobs, Tar(j)
    PROVE  TidyInv'
<1>1. /\ Others(j) /\ job'[j] = Idle
      /\ archive'.taken = "full" /\ archive'.doc = archive.doc /\ archive'.purpose = archive.purpose
      /\ archive'.disk = disk /\ archive'.tmp = tmp
  BY TarShape DEF Ends
<1>2. UNCHANGED <<doc, purpose, disk, tmp, mishaps, clash>> /\ archive.taken = "dump" /\ job[j].step = "tar"
  BY DEF Tar, files, history, At
<1>3. SUFFICES ASSUME Smooth'
               PROVE  DiskTidy' /\ RowsTidy' /\ ArchiveTidy' /\ \A i \in Jobs : TidyOK(job[i])'
  BY DEF TidyInv
<1>4. Smooth /\ DiskTidy /\ RowsTidy /\ ArchiveTidy /\ \A i \in Jobs : TidyOK(job[i])
  BY <1>2, <1>3, TidyBefore
<1>5. archive.purpose = purpose /\ \A i \in Jobs : job[i].step \notin {"rename", "row", "unlink"}
  BY <1>2, <1>4 DEF ArchiveTidy, At
<1>6. tmp = {} /\ \A f \in disk : purpose[f] # None
  BY <1>4, <1>5 DEF DiskTidy, At
<1>7. disk = {f \in Files : purpose[f] # None}
  BY <1>4, <1>6 DEF FilesInv, RowsOK, Smooth, Types, Tables
<1>8. DiskTidy'
  BY <1>2, <1>6 DEF DiskTidy
<1>9. RowsTidy'
  <2>1. job[j].kind = "backup"
    BY <1>2, HandlerAt, IdleOK DEF InCourse, Handler, Kinds
  <2>2. \A i \in Jobs : job[i].kind # "backup" => job'[i] = job[i]
    BY <1>1, <2>1 DEF Others
  <2>3. \A r \in Records : \A f \in Files : \A i \in Jobs : SeenTo(job[i], r, f) => SeenTo(job[i], r, f)'
    BY <2>2 DEF SeenTo
  <2>4. QED
    BY <1>2, <1>4, <2>2, <2>3 DEF RowsTidy, Rows, RowsOf
<1>10. ArchiveTidy'
  BY <1>1, <1>2, <1>4, <1>5, <1>6, <1>7 DEF ArchiveTidy
<1>11. \A i \in Jobs : TidyOK(job[i])'
  BY <1>1, <1>2, <1>4, IdleOK DEF TidyOK, RowsOf, Others
<1>12. QED
  BY <1>8, <1>9, <1>10, <1>11

LEMMA WriteTemporaryTidy ==
    ASSUME TidyInv, Types, NEW j \in Jobs, WriteTemporary(j)
    PROVE  TidyInv'
<1>1. /\ Keeps(j) /\ Others(j) /\ job[j].step = "temporary" /\ job'[j].step = "rename"
      /\ job'[j].file = lastFile + 1 /\ job'[j].todo = job[j].todo
  BY WriteTemporaryShape DEF Keeps, WriteTemporary, At
<1>2. /\ UNCHANGED <<doc, purpose, disk, archive, clash>> /\ tmp' = tmp \cup {lastFile + 1}
      /\ mishaps \subseteq mishaps'
      /\ mishaps' = {} => \A i \in Jobs : ~At(i, "tar")
  BY DEF WriteTemporary
<1>3. SUFFICES ASSUME Smooth'
               PROVE  DiskTidy' /\ RowsTidy' /\ ArchiveTidy' /\ \A i \in Jobs : TidyOK(job[i])'
  BY DEF TidyInv
<1>4. Smooth /\ DiskTidy /\ RowsTidy /\ ArchiveTidy /\ \A i \in Jobs : TidyOK(job[i])
  BY <1>2, <1>3, TidyBefore
<1>5. DiskTidy'
  BY <1>1, <1>2, <1>4 DEF DiskTidy, At, Others
<1>6. RowsTidy'
  <2>1. \A r \in Records : \A f \in Files : \A i \in Jobs : SeenTo(job[i], r, f) => SeenTo(job[i], r, f)'
    BY <1>1 DEF SeenTo, Others, Keeps
  <2>2. \A i \in Jobs : job'[i].kind = job[i].kind /\ job'[i].of = job[i].of
    BY <1>1 DEF Others, Keeps
  <2>3. QED
    BY <1>2, <1>4, <2>1, <2>2 DEF RowsTidy, Rows, RowsOf
<1>7. \A i \in Jobs : ~At(i, "tar")'
  BY <1>1, <1>2, <1>3 DEF Smooth, At, Others
<1>8. ArchiveTidy'
  BY <1>2, <1>4, <1>7 DEF ArchiveTidy
<1>9. \A i \in Jobs : TidyOK(job[i])'
  BY <1>1, <1>2, <1>4 DEF TidyOK, RowsOf, Others, Keeps
<1>10. QED
  BY <1>5, <1>6, <1>8, <1>9

LEMMA RenameTidy ==
    ASSUME TidyInv, Types, NEW j \in Jobs, Rename(j)
    PROVE  TidyInv'
<1>1. /\ Goes(j, "row") /\ Keeps(j) /\ Others(j) /\ job[j].step = "rename" /\ job'[j].step = "row"
      /\ job'[j].file = job[j].file /\ job'[j].todo = job[j].todo
  BY RenameShape DEF Goes, Keeps, Rename, At
<1>2. /\ UNCHANGED <<doc, purpose, archive, clash, mishaps>>
      /\ tmp' = tmp \ {job[j].file} /\ disk' = disk \cup {job[j].file}
  BY DEF Rename, history
<1>3. SUFFICES ASSUME Smooth'
               PROVE  DiskTidy' /\ RowsTidy' /\ ArchiveTidy' /\ \A i \in Jobs : TidyOK(job[i])'
  BY DEF TidyInv
<1>4. Smooth /\ DiskTidy /\ RowsTidy /\ ArchiveTidy /\ \A i \in Jobs : TidyOK(job[i])
  BY <1>2, <1>3, TidyBefore
<1>5. DiskTidy'
  <2>1. \A f \in tmp' : \E i \in Jobs \ {j} : At(i, "rename") /\ job[i].file = f
    BY <1>2, <1>4 DEF DiskTidy
  <2>2. \A f \in tmp' : \E i \in Jobs : At(i, "rename")' /\ job'[i].file = f
    BY <1>1, <2>1 DEF Others, At
  <2>3. \A f \in disk : purpose[f] = None => \E i \in Jobs : job'[i].step \in {"row", "unlink"} /\ job'[i].file = f
    BY <1>1, <1>4 DEF DiskTidy, Others
  <2>4. QED
    BY <1>1, <1>2, <2>2, <2>3 DEF DiskTidy
<1>6. RowsTidy'
  <2>1. \A r \in Records : \A f \in Files : \A i \in Jobs : SeenTo(job[i], r, f) => SeenTo(job[i], r, f)'
    BY <1>1 DEF SeenTo, Others, Keeps
  <2>2. \A i \in Jobs : job'[i].kind = job[i].kind /\ job'[i].of = job[i].of
    BY <1>1 DEF Others, Keeps
  <2>3. QED
    BY <1>2, <1>4, <2>1, <2>2 DEF RowsTidy, Rows, RowsOf
<1>7. (archive.taken = "dump" => \A i \in Jobs : ~At(i, "tar"))'
  BY <1>1, <1>2, <1>4 DEF ArchiveTidy, At, Others
<1>8. ArchiveTidy'
  BY <1>2, <1>4, <1>7 DEF ArchiveTidy
<1>9. \A i \in Jobs : TidyOK(job[i])'
  BY <1>1, <1>2, <1>4 DEF TidyOK, RowsOf, Others, Keeps
<1>10. QED
  BY <1>5, <1>6, <1>8, <1>9

LEMMA UnlinkTidy ==
    ASSUME TidyInv, Types, NEW j \in Jobs, Unlink(j)
    PROVE  TidyInv'
<1>1. /\ Keeps(j) /\ Others(j) /\ job[j].step = "unlink" /\ job'[j].step = "remove"
      /\ job'[j].file = job[j].file /\ job'[j].todo = job[j].todo
  BY UnlinkShape DEF Goes, Keeps, Unlink, At
<1>2. /\ UNCHANGED <<doc, purpose, tmp, archive, clash, mishaps>> /\ disk' = disk \ {job[j].file}
  BY DEF Unlink, history
<1>3. SUFFICES ASSUME Smooth'
               PROVE  DiskTidy' /\ RowsTidy' /\ ArchiveTidy' /\ \A i \in Jobs : TidyOK(job[i])'
  BY DEF TidyInv
<1>4. Smooth /\ DiskTidy /\ RowsTidy /\ ArchiveTidy /\ \A i \in Jobs : TidyOK(job[i])
  BY <1>2, <1>3, TidyBefore
<1>5. DiskTidy'
  <2>1. \A f \in tmp : \E i \in Jobs : At(i, "rename")' /\ job'[i].file = f
    BY <1>1, <1>4 DEF DiskTidy, Others, At
  <2>2. \A f \in disk' : purpose[f] = None => \E i \in Jobs \ {j} : job[i].step \in {"row", "unlink"} /\ job[i].file = f
    BY <1>2, <1>4 DEF DiskTidy
  <2>3. \A f \in disk' : purpose[f] = None => \E i \in Jobs : job'[i].step \in {"row", "unlink"} /\ job'[i].file = f
    BY <1>1, <2>2 DEF Others
  <2>4. QED
    BY <1>2, <2>1, <2>3 DEF DiskTidy
<1>6. RowsTidy'
  <2>1. \A r \in Records : \A f \in Files : \A i \in Jobs : SeenTo(job[i], r, f) => SeenTo(job[i], r, f)'
    BY <1>1 DEF SeenTo, Others, Keeps
  <2>2. \A i \in Jobs : job'[i].kind = job[i].kind /\ job'[i].of = job[i].of
    BY <1>1 DEF Others, Keeps
  <2>3. QED
    BY <1>2, <1>4, <2>1, <2>2 DEF RowsTidy, Rows, RowsOf
<1>7. (archive.taken = "dump" => \A i \in Jobs : ~At(i, "tar"))'
  BY <1>1, <1>2, <1>4 DEF ArchiveTidy, At, Others
<1>8. ArchiveTidy'
  BY <1>2, <1>4, <1>7 DEF ArchiveTidy
<1>9. \A i \in Jobs : TidyOK(job[i])'
  BY <1>1, <1>2, <1>4 DEF TidyOK, RowsOf, Others, Keeps
<1>10. QED
  BY <1>5, <1>6, <1>8, <1>9


LEMMA CreateRowTidy ==
    ASSUME TidyInv, RecordsInv, FilesInv, Types, NEW j \in Jobs, CreateRow(j)
    PROVE  TidyInv'
<1>1. /\ job[j].file \in Files /\ Keeps(j) /\ Others(j) /\ job[j].step = "row"
      /\ job'[j].seen = job[j].seen /\ job'[j].file = job[j].file /\ job'[j].todo = job[j].todo
      /\ \/ job[j].kind = "issue" /\ job[j].of \in Cards /\ job'[j].step = "card"
         \/ job[j].kind = "file" /\ job[j].of \in Records /\ job'[j].step = "write"
  BY CreateRowShape DEF Goes, Keeps, CreateRow, At
<1>2. /\ purpose' = [purpose EXCEPT ![job[j].file] = job[j].of]
      /\ UNCHANGED <<doc, disk, tmp, archive, clash, mishaps>>
  BY DEF CreateRow, history
<1>3. SUFFICES ASSUME Smooth'
               PROVE  DiskTidy' /\ RowsTidy' /\ ArchiveTidy' /\ \A i \in Jobs : TidyOK(job[i])'
  BY DEF TidyInv
<1>4. Smooth /\ DiskTidy /\ RowsTidy /\ ArchiveTidy /\ \A i \in Jobs : TidyOK(job[i])
  BY <1>2, <1>3, TidyBefore
<1>5. purpose \in RowTable /\ purpose[job[j].file] = None /\ disk \subseteq Files /\ job[j].of \in Purposes
  BY <1>1, Purposeful DEF Types, Tables, FilesInv, HeldOK
<1>6. \A f \in Files : purpose'[f] = IF f = job[j].file THEN job[j].of ELSE purpose[f]
  BY <1>1, <1>2, <1>5 DEF RowTable
<1>7. DiskTidy'
  <2>1. \A f \in tmp : \E i \in Jobs : At(i, "rename")' /\ job'[i].file = f
    BY <1>1, <1>4 DEF DiskTidy, Others, At
  <2>2. ASSUME NEW f \in disk, purpose'[f] = None
        PROVE  \E i \in Jobs : job'[i].step \in {"row", "unlink"} /\ job'[i].file = f
    <3>1. f # job[j].file /\ purpose[f] = None
      BY <1>5, <1>6, <2>2, Purposeful
    <3>2. PICK i \in Jobs : job[i].step \in {"row", "unlink"} /\ job[i].file = f
      BY <1>4, <3>1 DEF DiskTidy
    <3>3. job'[i] = job[i]
      BY <1>1, <3>1, <3>2 DEF Others
    <3>4. QED
      BY <3>2, <3>3
  <2>3. QED
    BY <1>2, <2>1, <2>2 DEF DiskTidy
<1>8. \A i \in Jobs : job'[i].kind = job[i].kind /\ job'[i].of = job[i].of
  BY <1>1 DEF Others, Keeps
<1>9. RowsTidy'
  <2>1. \A r \in Records : \A f \in Files : \A i \in Jobs : SeenTo(job[i], r, f) => SeenTo(job[i], r, f)'
    BY <1>1 DEF SeenTo, Others, Keeps
  <2>2. ASSUME NEW r \in Records, doc[r].file \in Files, NEW f \in Files, purpose'[f] = r
        PROVE  f = doc[r].file \/ \E i \in Jobs : SeenTo(job[i], r, f)'
    <3>1. CASE f = job[j].file
      <4>1. SeenTo(job[j], r, f)'
        BY <1>1, <1>6, <2>2, <3>1, Purposeful DEF SeenTo, Keeps
      <4>2. QED
        BY <4>1
    <3>2. CASE f # job[j].file
      <4>1. f \in Rows(r)
        BY <1>6, <2>2, <3>2 DEF Rows
      <4>2. QED
        BY <1>4, <2>1, <2>2, <4>1 DEF RowsTidy
    <3>3. QED
      BY <3>1, <3>2
  <2>3. ASSUME NEW r \in Records, doc[r].file \in Files
        PROVE  purpose'[doc[r].file] = r \/ \E i \in Jobs : job'[i].of = r /\ job'[i].kind = "purge"
    BY <1>4, <1>5, <1>6, <1>8, <2>3, Purposeful DEF RowsTidy
  <2>4. ASSUME NEW r \in Records, doc[r] = Gone, NEW f \in Files, purpose'[f] # None, OwnerOf(purpose'[f]) = r
        PROVE  FALSE
    <3>1. CASE f = job[j].file
      <4>1. OwnerOf(job[j].of) = r
        BY <1>6, <2>4, <3>1
      <4>2. QED
        BY <1>1, <1>4, <2>4, <4>1, Purposeful DEF TidyOK
    <3>2. CASE f # job[j].file
      BY <1>4, <1>6, <2>4, <3>2 DEF RowsTidy, RowsOf
    <3>3. QED
      BY <3>1, <3>2
  <2>5. QED
    BY <1>2, <2>2, <2>3, <2>4 DEF RowsTidy, Rows, RowsOf
<1>10. (archive.taken = "dump" => \A i \in Jobs : ~At(i, "tar"))'
  BY <1>1, <1>2, <1>4 DEF ArchiveTidy, At, Others
<1>11. ArchiveTidy'
  BY <1>2, <1>4, <1>10 DEF ArchiveTidy
<1>12. ASSUME NEW i \in Jobs \ {j}
       PROVE  TidyOK(job[i])'
  <2>1. job'[i] = job[i] /\ TidyOK(job[i]) /\ job[i].todo \subseteq Files
    BY <1>1, <1>4, HandlerAt DEF Others, Handler
  <2>2. \A f \in job[i].todo : purpose[f] # None => purpose'[f] # None
    BY <1>5, <1>6, <2>1, Purposeful
  <2>3. job[i].kind = "purge" => OwnerOf(job[j].of) # job[i].of
    <3>1. SUFFICES ASSUME job[i].kind = "purge", OwnerOf(job[j].of) = job[i].of
                   PROVE  FALSE
      OBVIOUS
    <3>2. job[i].of \in Records /\ OwnerOf(job[i].of) = job[i].of
      BY <3>1, HandlerAt, Purposeful DEF InCourse
    <3>3. Meet(job[i], job[j])
      BY <1>1, <1>5, <3>1, <3>2, Purposeful DEF Meet
    <3>4. QED
      BY <1>4, <3>3, NobodyMeets DEF RecordsInv
  <2>4. job[i].kind = "purge" => RowsOf(job[i].of)' \subseteq RowsOf(job[i].of)
    BY <1>6, <2>1, <2>3 DEF RowsOf
  <2>5. QED
    BY <1>2, <2>1, <2>2, <2>4 DEF TidyOK
<1>13. TidyOK(job[j])'
  BY <1>1, <1>2, <1>4 DEF TidyOK, Keeps
<1>14. QED
  BY <1>7, <1>9, <1>11, <1>12, <1>13

LEMMA WriteTidy ==
    ASSUME TidyInv, RecordsInv, Types, NEW j \in Jobs, Write(j)
    PROVE  TidyInv'
<1>1. PICK r : r = job[j].of
  OBVIOUS
<1>2. /\ Others(j) /\ job[j].step = "write" /\ r \in Records /\ doc' = [doc EXCEPT ![r] = Merged(j)]
      /\ UNCHANGED <<purpose, disk, tmp, archive, clash, mishaps>>
      /\ job'[j].step \in {"runtime", "list", "none"}
      /\ \/ Keeps(j) /\ job'[j].file = job[j].file /\ job'[j].step \in {"runtime", "list"}
         \/ job[j].kind = "text" /\ Ends(j)
  BY <1>1, WriteShape, MergedOK, IdleOK DEF Goes, Ends, Keeps, Write, At, files
<1>3. SUFFICES ASSUME Smooth'
               PROVE  DiskTidy' /\ RowsTidy' /\ ArchiveTidy' /\ \A i \in Jobs : TidyOK(job[i])'
  BY DEF TidyInv
<1>4. Smooth /\ DiskTidy /\ RowsTidy /\ ArchiveTidy /\ \A i \in Jobs : TidyOK(job[i])
  BY <1>2, <1>3, TidyBefore
<1>5. /\ Merged(j) \in Docs /\ job[j].kind \in {"text", "file", "clear"}
      /\ job[j].kind = "text" => Merged(j) = [job[j].seen EXCEPT !.text = lastText + 1]
      /\ job[j].kind = "file" => Merged(j) = [job[j].seen EXCEPT !.file = job[j].file] /\ job[j].file \in Files
      /\ job[j].kind = "clear" => Merged(j) = [job[j].seen EXCEPT !.file = 0]
      /\ job[j].seen \in Docs
  BY MergedOK, HandlerAt DEF Write, Handler
<1>6. /\ job[j].seen = doc[r]
      /\ job[j].kind = "file" => purpose[job[j].file] = r
  BY <1>1, <1>2, <1>4, <1>5 DEF RecordsInv, RecordOK, Smooth
<1>7. /\ job[j].kind = "text" => Merged(j).file = doc[r].file /\ Merged(j).text = lastText + 1
      /\ job[j].kind = "file" => Merged(j).file = job[j].file
      /\ job[j].kind = "clear" => Merged(j).file = 0
  BY <1>5, <1>6 DEF Docs
<1>8. Merged(j) # Gone
  <2>1. lastText \in Nat
    BY Numbers DEF Types, Tables, Texts
  <2>2. lastText + 1 # 0
    BY <2>1
  <2>3. QED
    BY <1>5, <1>7, <2>2, GoneOK, Numbers
<1>9. doc'[r] = Merged(j) /\ \A q \in Records \ {r} : doc'[q] = doc[q]
  BY <1>2 DEF Types, Tables
<1>10. \A i \in Jobs : job[i].step \in {"rename", "row", "unlink"} => job'[i] = job[i]
  BY <1>2 DEF Others
<1>11. DiskTidy'
  BY <1>2, <1>4, <1>10 DEF DiskTidy, At
<1>12. \A i \in Jobs : job[i].kind = "purge" => job'[i] = job[i]
  BY <1>2, <1>5 DEF Others
<1>13. RowsTidy'
  <2>1. \A q \in Records : \A f \in Files : \A i \in Jobs : SeenTo(job[i], q, f) => SeenTo(job[i], q, f)'
    BY <1>2, <1>5 DEF SeenTo, Others, Keeps
  <2>2. job[j].kind = "file" => \A f \in Files : SeenTo(job[j], r, f)'
    BY <1>1, <1>2 DEF SeenTo, Keeps, Ends
  <2>3. ASSUME NEW q \in Records
        PROVE  /\ doc'[q].file \in Files =>
                    /\ \A f \in Rows(q) : f = doc'[q].file \/ \E i \in Jobs : SeenTo(job[i], q, f)'
                    /\ \/ purpose[doc'[q].file] = q
                       \/ \E i \in Jobs : job'[i].of = q /\ job'[i].kind = "purge"
               /\ doc'[q] = Gone => RowsOf(q) = {}
    <3>1. CASE doc'[q] = Gone \/ doc'[q].file = doc[q].file
      <4>1. doc'[q] = Gone => doc[q] = Gone
        BY <1>8, <1>9
      <4>2. doc'[q] = Gone => doc'[q].file \notin Files
        BY GoneOK, Numbers
      <4>3. \A f \in Rows(q) : f \in Files
        BY DEF Rows
      <4>4. QED
        BY <1>4, <1>12, <2>1, <3>1, <4>1, <4>2, <4>3 DEF RowsTidy
    <3>2. CASE q = r /\ job[j].kind = "file"
      <4>1. \A f \in Rows(q) : f \in Files
        BY DEF Rows
      <4>2. QED
        BY <1>6, <1>7, <1>8, <1>9, <2>2, <3>2, <4>1
    <3>3. CASE q = r /\ job[j].kind = "clear"
      BY <1>7, <1>8, <1>9, <3>3, Numbers
    <3>4. QED
      BY <1>5, <1>7, <1>9, <3>1, <3>2, <3>3
  <2>4. QED
    BY <1>2, <2>3 DEF RowsTidy, Rows, RowsOf
<1>14. ArchiveTidy'
  <2>1. (\E i \in Jobs : At(i, "tar"))' => \E i \in Jobs : At(i, "tar")
    BY <1>2 DEF At, Others
  <2>2. \A i \in Jobs : job'[i].step \in {"rename", "row", "unlink"} => job'[i] = job[i]
    BY <1>2 DEF Others
  <2>3. QED
    BY <1>2, <1>4, <2>1, <2>2 DEF ArchiveTidy
<1>15. ASSUME NEW i \in Jobs \ {j}
       PROVE  TidyOK(job[i])'
  <2>1. job'[i] = job[i] /\ TidyOK(job[i]) /\ (job[i].kind = "file" => job[i].of \in Records)
    BY <1>2, <1>4, HandlerAt DEF Others, InCourse
  <2>2. \A q \in Records : doc[q] # Gone => doc'[q] # Gone
    BY <1>8, <1>9
  <2>3. QED
    BY <1>2, <2>1, <2>2, Purposeful DEF TidyOK, RowsOf
<1>16. TidyOK(job[j])'
  BY <1>1, <1>2, <1>5, <1>8, <1>9, IdleOK DEF TidyOK, Keeps, Ends
<1>17. QED
  BY <1>11, <1>13, <1>14, <1>15, <1>16

LEMMA RemoveRowTidy ==
    ASSUME TidyInv, RecordsInv, CardsInv, Types, NEW j \in Jobs, NEW f \in Files, RemoveRow(j, f)
    PROVE  TidyInv'
<1>1. /\ job[j].step = "remove" /\ f \in job[j].todo /\ job[j].kind \in {"file", "card", "purge"}
      /\ UNCHANGED <<doc, disk, tmp, archive, clash>> /\ mishaps \subseteq mishaps'
  BY RemoveRowShape DEF RemoveRow, At
<1>2. SUFFICES ASSUME Smooth'
               PROVE  DiskTidy' /\ RowsTidy' /\ ArchiveTidy' /\ \A i \in Jobs : TidyOK(job[i])'
  BY DEF TidyInv
<1>3. Smooth /\ DiskTidy /\ RowsTidy /\ ArchiveTidy /\ \A i \in Jobs : TidyOK(job[i])
  BY <1>1, <1>2, TidyBefore
<1>4. purpose[f] # None
  BY <1>1, <1>3 DEF TidyOK
<1>5. /\ purpose' = [purpose EXCEPT ![f] = None]
      /\ (\E i \in Jobs : At(i, "tar")) => "removed" \in mishaps'
      /\ Keeps(j) /\ Others(j) /\ job'[j].step = "unlink" /\ job'[j].file = f /\ job'[j].todo = job[j].todo \ {f}
  BY <1>4, RemoveRowShape DEF Keeps
<1>6. purpose \in RowTable /\ purpose[f] \in Purposes
  BY <1>4 DEF Types, Tables, RowTable
<1>7. \A g \in Files : purpose'[g] = IF g = f THEN None ELSE purpose[g]
  BY <1>5, <1>6 DEF RowTable
<1>8. DiskTidy'
  <2>1. \A g \in tmp : \E i \in Jobs : At(i, "rename")' /\ job'[i].file = g
    BY <1>1, <1>3, <1>5 DEF DiskTidy, Others, At
  <2>2. \A g \in disk : g # f /\ purpose[g] = None => \E i \in Jobs : job'[i].step \in {"row", "unlink"} /\ job'[i].file = g
    BY <1>1, <1>3, <1>5 DEF DiskTidy, Others
  <2>3. disk \subseteq Files
    BY DEF Types, Tables
  <2>4. QED
    BY <1>1, <1>5, <1>7, <2>1, <2>2, <2>3 DEF DiskTidy
<1>9. Removes(job[j], purpose[f])
  BY <1>1, <1>4 DEF CardsInv, RemovalOK
<1>10. RowsTidy'
  <2>1. \A r \in Records : \A g \in Files \ {f} : \A i \in Jobs : SeenTo(job[i], r, g) => SeenTo(job[i], r, g)'
    BY <1>1, <1>5 DEF SeenTo, Others, Keeps
  <2>2. \A i \in Jobs : job'[i].kind = job[i].kind /\ job'[i].of = job[i].of
    BY <1>5 DEF Others, Keeps
  <2>3. ASSUME NEW r \in Records, doc[r].file \in Files, NEW g \in Files, purpose'[g] = r
        PROVE  g = doc[r].file \/ \E i \in Jobs : SeenTo(job[i], r, g)'
    <3>1. g # f /\ g \in Rows(r)
      BY <1>7, <2>3, Purposeful DEF Rows
    <3>2. QED
      BY <1>3, <2>1, <2>3, <3>1 DEF RowsTidy
  <2>4. ASSUME NEW r \in Records, doc[r].file \in Files
        PROVE  purpose'[doc[r].file] = r \/ \E i \in Jobs : job'[i].of = r /\ job'[i].kind = "purge"
    <3>1. CASE purpose[doc[r].file] = r /\ doc[r].file = f
      <4>1. job[j].of = r
        BY <1>9, <3>1, Purposeful DEF Removes
      <4>2. job[j].kind # "file"
        BY <1>1, <1>3, <3>1, <4>1 DEF RecordsInv, RecordOK, Smooth
      <4>3. job[j].kind = "purge"
        BY <1>1, <4>1, <4>2, HandlerAt, Purposeful DEF InCourse
      <4>4. QED
        BY <2>2, <4>1, <4>3
    <3>2. QED
      BY <1>3, <1>7, <2>2, <2>4, <3>1 DEF RowsTidy
  <2>5. \A r \in Records : doc[r] = Gone => \A g \in Files : purpose'[g] # None => OwnerOf(purpose'[g]) # r
    BY <1>3, <1>7 DEF RowsTidy, RowsOf
  <2>6. QED
    BY <1>1, <2>3, <2>4, <2>5 DEF RowsTidy, Rows, RowsOf
<1>11. \A i \in Jobs : ~At(i, "tar")'
  BY <1>2, <1>5 DEF Smooth, At, Others
<1>12. ArchiveTidy'
  BY <1>1, <1>3, <1>11 DEF ArchiveTidy
<1>13. ASSUME NEW i \in Jobs \ {j}
       PROVE  TidyOK(job[i])'
  <2>1. job'[i] = job[i] /\ TidyOK(job[i]) /\ job[i].todo \subseteq Files
    BY <1>3, <1>5, HandlerAt DEF Others, Handler
  <2>2. job[i].step \in {"remove", "unlink"} => f \notin job[i].todo
    <3>1. SUFFICES ASSUME job[i].step \in {"remove", "unlink"}, f \in job[i].todo
                   PROVE  FALSE
      OBVIOUS
    <3>2. Removes(job[i], purpose[f])
      BY <1>4, <3>1 DEF CardsInv, RemovalOK
    <3>3. job[i].kind \in {"file", "card", "purge"}
      BY <3>1, HandlerAt, IdleOK DEF InCourse, Handler, Kinds
    <3>4. Meet(job[i], job[j])
      BY <1>1, <1>6, <1>9, <3>2, <3>3, RemovingMeets
    <3>5. QED
      BY <1>3, <3>4, NobodyMeets DEF RecordsInv
  <2>3. \A o : RowsOf(o)' \subseteq RowsOf(o)
    BY <1>7 DEF RowsOf
  <2>4. QED
    BY <1>1, <1>7, <2>1, <2>2, <2>3 DEF TidyOK
<1>14. TidyOK(job[j])'
  <2>1. TidyOK(job[j]) /\ job[j].todo \subseteq Files
    BY <1>3, HandlerAt DEF Handler
  <2>2. \A o : RowsOf(o)' \subseteq RowsOf(o) \ {f}
    BY <1>7 DEF RowsOf
  <2>3. QED
    BY <1>1, <1>5, <1>7, <2>1, <2>2 DEF TidyOK, Keeps
<1>15. QED
  BY <1>8, <1>10, <1>12, <1>13, <1>14

LEMMA DeleteTidy ==
    ASSUME TidyInv, RecordsInv, Types, NEW j \in Jobs, Delete(j)
    PROVE  TidyInv'
<1>1. PICK p : p = job[j].of
  OBVIOUS
<1>2. /\ Others(j) /\ job'[j] = Idle /\ job[j].step = "delete"
      /\ UNCHANGED <<disk, tmp, archive, clash, mishaps>>
      /\ \/ job[j].kind = "purge" /\ p \in {Profile, Editorial}
         \/ job[j].kind = "card" /\ p \in Cards
  BY <1>1, DeleteShape DEF Ends, Delete, At
<1>3. SUFFICES ASSUME Smooth'
               PROVE  DiskTidy' /\ RowsTidy' /\ ArchiveTidy' /\ \A i \in Jobs : TidyOK(job[i])'
  BY DEF TidyInv
<1>4. Smooth /\ DiskTidy /\ RowsTidy /\ ArchiveTidy /\ \A i \in Jobs : TidyOK(job[i])
  BY <1>2, <1>3, TidyBefore
<1>5. job[j].kind = "purge" => RowsOf(p) = {}
  BY <1>1, <1>2, <1>4 DEF TidyOK
<1>6. purpose' = purpose
  <2>1. purpose \in RowTable
    BY DEF Types, Tables
  <2>2. p = Editorial => \A f \in Files : purpose[f] # Editorial
    BY <1>2, <1>5, Purposeful DEF RowsOf
  <2>3. \A f \in Files : purpose'[f] = purpose[f]
    BY <1>1, <2>2 DEF Delete
  <2>4. QED
    BY <2>1, <2>3 DEF Delete, RowTable
<1>7. /\ \A q \in Records \ {p} : doc'[q] = doc[q]
      /\ p \in Records => doc'[p] = Gone
  BY <1>1 DEF Delete, Types, Tables
<1>8. \A i \in Jobs : job[i].step \in {"rename", "row", "unlink", "tar"} => job'[i] = job[i]
  BY <1>2 DEF Others
<1>9. DiskTidy'
  BY <1>2, <1>4, <1>6, <1>8 DEF DiskTidy, At
<1>10. RowsTidy'
  <2>1. \A r \in Records \ {p} : \A f \in Files : \A i \in Jobs : SeenTo(job[i], r, f) => SeenTo(job[i], r, f)'
    BY <1>1, <1>2 DEF SeenTo, Others
  <2>2. \A i \in Jobs : job[i].kind = "purge" /\ job[i].of # p => job'[i] = job[i]
    BY <1>1, <1>2 DEF Others
  <2>3. ASSUME NEW r \in Records
        PROVE  /\ doc'[r].file \in Files =>
                    /\ \A f \in Rows(r) : f = doc'[r].file \/ \E i \in Jobs : SeenTo(job[i], r, f)'
                    /\ \/ purpose[doc'[r].file] = r
                       \/ \E i \in Jobs : job'[i].of = r /\ job'[i].kind = "purge"
               /\ doc'[r] = Gone => RowsOf(r) = {}
    <3>1. CASE r = p
      BY <1>2, <1>5, <1>7, <3>1, GoneOK, Numbers, Purposeful
    <3>2. CASE r # p
      <4>1. \A f \in Rows(r) : f \in Files
        BY DEF Rows
      <4>2. QED
        BY <1>4, <1>7, <2>1, <2>2, <3>2, <4>1 DEF RowsTidy
    <3>3. QED
      BY <3>1, <3>2
  <2>4. QED
    BY <1>6, <2>3 DEF RowsTidy, Rows, RowsOf
<1>11. ArchiveTidy'
  <2>1. (\E i \in Jobs : At(i, "tar"))' => \E i \in Jobs : At(i, "tar")
    BY <1>2, IdleOK DEF At, Others
  <2>2. \A i \in Jobs : job'[i].step \in {"rename", "row", "unlink"} => job'[i] = job[i]
    BY <1>2, IdleOK DEF Others
  <2>3. QED
    BY <1>2, <1>4, <1>6, <2>1, <2>2 DEF ArchiveTidy
<1>12. ASSUME NEW i \in Jobs \ {j}
       PROVE  TidyOK(job[i])'
  <2>1. job'[i] = job[i] /\ TidyOK(job[i]) /\ (job[i].kind = "file" => job[i].of \in Records)
             /\ (job[i].kind = "issue" => job[i].of \in Cards)
    BY <1>2, <1>4, HandlerAt DEF Others, InCourse
  <2>2. ~Meet(job[i], job[j])
    BY <1>4, NobodyMeets DEF RecordsInv
  <2>3. job[i].kind = "file" => job[i].of # p
    BY <1>1, <1>2, <2>1, <2>2, Purposeful DEF Meet
  <2>4. job[i].kind = "issue" => p # Profile
    BY <1>1, <1>2, <2>1, <2>2, Purposeful DEF Meet
  <2>5. QED
    BY <1>6, <1>7, <2>1, <2>3, <2>4, Purposeful DEF TidyOK, RowsOf
<1>13. TidyOK(job[j])'
  BY <1>2, IdleOK DEF TidyOK
<1>14. QED
  BY <1>9, <1>10, <1>11, <1>12, <1>13

LEMMA RestoreTidy ==
    ASSUME TidyInv, Types, Restore
    PROVE  TidyInv'
<1>1. \A j \in Jobs : job'[j] = Idle
  BY RestoreShape
<1>2. /\ archive'.taken = "no" /\ archive.taken = "full" /\ doc' = archive.doc /\ purpose' = archive.purpose
      /\ disk' = archive.disk /\ tmp' = archive.tmp /\ mishaps' = mishaps /\ clash' = clash
  BY DEF Restore
<1>3. SUFFICES ASSUME Smooth'
               PROVE  DiskTidy' /\ RowsTidy' /\ ArchiveTidy' /\ \A i \in Jobs : TidyOK(job[i])'
  BY DEF TidyInv
<1>4. ArchiveTidy
  BY <1>2, <1>3, TidyBefore
<1>5. DiskTidy'
  BY <1>2, <1>4 DEF ArchiveTidy, DiskTidy
<1>6. RowsTidy'
  <2>1. \A r \in Records :
         /\ doc'[r].file \in Files => {f \in Files : purpose'[f] = r} = {doc'[r].file}
         /\ doc'[r] = Gone => \A f \in Files : purpose'[f] # None => OwnerOf(purpose'[f]) # r
    BY <1>2, <1>4 DEF ArchiveTidy
  <2>2. QED
    BY <2>1 DEF RowsTidy, Rows, RowsOf
<1>7. ArchiveTidy' /\ \A i \in Jobs : TidyOK(job[i])'
  BY <1>1, <1>2, IdleOK DEF ArchiveTidy, TidyOK
<1>8. QED
  BY <1>5, <1>6, <1>7

LEMMA RestartTidy ==
    ASSUME TidyInv, Types, Restart
    PROVE  TidyInv'
<1>1. SUFFICES ASSUME Smooth'
               PROVE  TidyInv'
  BY DEF TidyInv
<1>2. Quiet /\ mishaps' = mishaps
  BY <1>1 DEF Restart, Smooth
<1>3. \A j \in Jobs : job'[j] = job[j]
  BY <1>2, RestartShape, HandlerAt DEF Quiet, Busy, InCourse
<1>4. UNCHANGED <<doc, purpose, disk, tmp, archive, clash>>
  BY DEF Restart, files
<1>5. QED
  BY <1>1, <1>2, <1>3, <1>4 DEF TidyInv, Smooth, DiskTidy, RowsTidy, ArchiveTidy, TidyOK, Rows, RowsOf, SeenTo, At

LEMMA ThrowTidy ==
    ASSUME TidyInv, NEW j \in Jobs, Throw(j)
    PROVE  TidyInv'
  BY DEF Throw, TidyInv, Smooth

LEMMA InitTidy == Init => TidyInv
  BY IdleOK, GoneOK, Numbers DEF Init, TidyInv, DiskTidy, RowsTidy, ArchiveTidy, TidyOK, Rows, RowsOf

LEMMA NextTidy ==
    ASSUME TidyInv, SettingsInv, RecordsInv, CardsInv, FilesInv, Types, [Next]_vars
    PROVE  TidyInv'
<1>1. CASE UNCHANGED vars
  BY <1>1 DEF TidyInv, Smooth, DiskTidy, RowsTidy, ArchiveTidy, TidyOK, Rows, RowsOf, SeenTo, At,
              vars, files, memory, history, counters
<1>2. CASE Next
  BY <1>2, StartTidy, MoveTidy, ListTidy, RemovedTidy, DumpTidy, TarTidy, WriteTemporaryTidy, RenameTidy,
     UnlinkTidy, CreateRowTidy, WriteTidy, RemoveRowTidy, DeleteTidy, RestoreTidy, RestartTidy, ThrowTidy DEF Next
<1>3. QED
  BY <1>1, <1>2

LEMMA AllTidy == Spec => [](Types /\ FilesInv /\ CardsInv /\ RecordsInv /\ SettingsInv /\ TidyInv)
  BY AllSettings, InitTidy, NextTidy, PTL DEF Spec

(* When nothing failed and no two handlers met, requests leave nothing     *)
(* behind: a record owns the file it names and no other, what is gone owns *)
(* none, and every byte on disk has its row; a backup that ran into        *)
(* nothing brings back the same (NothingLeftBehind).                       *)
THEOREM LeavesNothingBehind == Spec => []NothingLeftBehind
<1>1. Types /\ FilesInv /\ TidyInv => NothingLeftBehind
  <2> SUFFICES ASSUME Types, FilesInv, TidyInv, Quiet, mishaps = {}, clash = {}
               PROVE  /\ \A r \in Records : doc[r].file \in Files => Rows(r) = {doc[r].file}
                      /\ \A r \in Records : doc[r] = Gone => RowsOf(r) = {}
                      /\ tmp = {} /\ disk = {f \in Files : purpose[f] # None}
    BY DEF NothingLeftBehind
  <2>1. \A j \in Jobs : job[j].step = "none" /\ job[j].kind = "idle"
    BY HandlerAt, IdleOK DEF Quiet, Busy, InCourse
  <2>2. DiskTidy /\ RowsTidy
    BY DEF TidyInv, Smooth
  <2>3. tmp = {} /\ \A f \in disk : purpose[f] # None
    BY <2>1, <2>2 DEF DiskTidy, At
  <2>4. disk = {f \in Files : purpose[f] # None}
    BY <2>3 DEF FilesInv, RowsOK, Types, Tables
  <2>5. \A r \in Records : doc[r].file \in Files => Rows(r) = {doc[r].file}
    BY <2>1, <2>2 DEF RowsTidy, SeenTo, Rows
  <2>6. QED
    BY <2>2, <2>3, <2>4, <2>5 DEF RowsTidy
<1>2. QED
  BY <1>1, AllTidy, PTL
=============================================================================
