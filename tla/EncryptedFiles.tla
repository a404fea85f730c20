--------------------------- MODULE EncryptedFiles ---------------------------
(***************************************************************************)
(* Encrypted records that point to encrypted files: a journalist's profile *)
(* and photo, an editorial and its logo, the settings and the NSZHU logo,  *)
(* and cards, each with its own copy of the editorial's logo.              *)
(*                                                                         *)
(* A record is read, decrypted, changed and written whole.  A file is a    *)
(* row (encrypted_files) and bytes on disk, which no transaction joins:    *)
(* stored as temporary file, rename, row; removed as row, bytes.  A file   *)
(* that was replaced is removed after the record points to the new one.    *)
(* The archive of a backup takes the two one after the other.              *)
(*                                                                         *)
(* A handler does one call to the database or the disk per step.           *)
(***************************************************************************)
EXTENDS Naturals

CONSTANTS Profile, Editorial, Settings, Cards, None, Jobs, MaxFile, MaxText, MaxRequests

Records == {Profile, Editorial, Settings}

ASSUME RecordAssumption == Profile # Editorial /\ Profile # Settings /\ Editorial # Settings
ASSUME CardAssumption == Records \cap Cards = {} /\ None \notin Records \cup Cards
ASSUME BoundAssumption == MaxFile \in Nat /\ MaxText \in Nat /\ MaxRequests \in Nat

Files == 1..MaxFile
Purposes == Records \cup Cards
\* ownerType and ownerId: copies for cards belong to the journalist.
OwnerOf(p) == IF p \in Cards THEN Profile ELSE p
Gone == [text |-> 0, file |-> MaxFile + 1]
NoCard == [state |-> "none", file |-> 0]

VARIABLES
  doc,       \* the record's encryptedData: its text and the file it names
  card,      \* "none", "bare" (no encryptedData), "full", and the logo it names
  purpose,   \* of the row of a file, None when there is no row
  disk,      \* files whose bytes are in place
  tmp,       \* files whose bytes are in the temporary file
  runtime,   \* the settings in memory: their text, or None
  shown,     \* the NSZHU logo stored in the clear
  archive,   \* database and files in the last backup
  said,      \* the record as the changes answered so far make it
  doomed,    \* purposes whose removal was begun
  clash,     \* records and cards two handlers were at together
  mishaps,   \* "throw", "crash", a dump "midway", files "stored", "removed" in a backup
  job, begun, lastFile, lastText

files == <<purpose, disk, tmp>>
memory == <<runtime, shown>>
history == <<said, doomed, clash, mishaps>>
counters == <<lastFile, lastText>>
vars == <<doc, card, files, memory, archive, history, job, begun, counters>>

Idle == [kind |-> "idle", of |-> None, step |-> "none", seen |-> Gone, file |-> 0, todo |-> {}]
Busy(j) == job[j].kind # "idle"
At(j, s) == job[j].step = s
Quiet == \A j \in Jobs : ~Busy(j)
Set(j, r) == job' = [job EXCEPT ![j] = r]
Go(j, s) == Set(j, [job[j] EXCEPT !.step = s])
End(j) == Set(j, Idle)
Rows(p) == {f \in Files : purpose[f] = p}
RowsOf(o) == {f \in Files : purpose[f] # None /\ OwnerOf(purpose[f]) = o}

\* An update of a row that is gone throws.
Present(r) == doc[r] # Gone

\* Variant: a failing save of the record removes the files as well.
StoringUntilSaved(j) == job[j].step \in {"temporary", "rename", "row", "write"}

\* In store, whose catch removes the temporary file and the bytes.
Storing(j) == job[j].step \in {"temporary", "rename", "row"}

Readable(f) == f \in {0} \cup {x \in disk : purpose[x] # None}

\* Handlers that meet at one record or card, or a purge at what it takes along.
Meets(k, p, i) ==
  /\ Busy(i) /\ None \notin {p, job[i].of}
  /\ p = job[i].of \/ ("purge" \in {k, job[i].kind} /\ OwnerOf(p) = OwnerOf(job[i].of))

Start(j, k, p, s, r) ==
  /\ ~Busy(j) /\ begun < MaxRequests /\ begun' = begun + 1
  /\ Set(j, [r EXCEPT !.kind = k, !.of = p, !.step = s])
  /\ clash' = clash \cup UNION {{p, job[i].of} : i \in {x \in Jobs : Meets(k, p, x)}}

Init ==
  /\ doc = [r \in Records |-> [text |-> 0, file |-> 0]]
  /\ card = [c \in Cards |-> NoCard]
  /\ purpose = [f \in Files |-> None] /\ disk = {} /\ tmp = {}
  /\ runtime = None /\ shown = 0
  /\ archive = [taken |-> "no"]
  /\ said = doc /\ doomed = {} /\ clash = {} /\ mishaps = {}
  /\ job = [j \in Jobs |-> Idle] /\ begun = 0 /\ lastFile = 0 /\ lastText = 0

-----------------------------------------------------------------------------
(* The handlers that change a record: the row is read first.                *)

\* updateProfile, journalists.update, editorials.update, settings.update.
Save(j, r) ==
  /\ Present(r) /\ Start(j, "text", r, "write", [Idle EXCEPT !.seen = doc[r]])
  /\ UNCHANGED <<doc, card, files, memory, archive, said, doomed, mishaps, counters>>

\* setOwnPhoto, setPhoto, setLogo, setNszhuLogo.
Upload(j, r) ==
  /\ Present(r) /\ Start(j, "file", r, "temporary", [Idle EXCEPT !.seen = doc[r]])
  /\ UNCHANGED <<doc, card, files, memory, archive, said, doomed, mishaps, counters>>

\* setNszhuLogo without a file; its old file stays until the next upload.
ClearLogo(j) ==
  /\ Start(j, "clear", Settings, "write", [Idle EXCEPT !.seen = doc[Settings]])
  /\ UNCHANGED <<doc, card, files, memory, archive, said, doomed, mishaps, counters>>

WriteTemporary(j) ==
  /\ At(j, "temporary") /\ lastFile < MaxFile
  /\ lastFile' = lastFile + 1 /\ tmp' = tmp \cup {lastFile + 1}
  /\ Set(j, [job[j] EXCEPT !.step = "rename", !.file = lastFile + 1])
  /\ mishaps' = IF \E i \in Jobs : At(i, "tar") THEN mishaps \cup {"stored"} ELSE mishaps
  /\ UNCHANGED <<doc, card, purpose, disk, memory, archive, said, doomed, clash, begun, lastText>>

Rename(j) ==
  /\ At(j, "rename")
  /\ tmp' = tmp \ {job[j].file} /\ disk' = disk \cup {job[j].file}
  /\ Go(j, "row")
  /\ UNCHANGED <<doc, card, purpose, memory, archive, history, begun, counters>>

CreateRow(j) ==
  /\ At(j, "row") /\ (job[j].of = Editorial => Present(Editorial))
  /\ purpose' = [purpose EXCEPT ![job[j].file] = job[j].of]
  /\ Go(j, IF job[j].kind = "issue" THEN "card" ELSE "write")
  /\ UNCHANGED <<doc, card, disk, tmp, memory, archive, history, begun, counters>>

\* Variant: the file is taken from the scrubbed plaintext column.
MergedBlank(j) ==
  CASE job[j].kind = "text" -> [text |-> lastText + 1, file |-> 0]
    [] job[j].kind = "file" -> [job[j].seen EXCEPT !.file = job[j].file]
    [] OTHER -> [job[j].seen EXCEPT !.file = 0]

\* What is written: what was read, with the change.
Merged(j) ==
  CASE job[j].kind = "text" -> [job[j].seen EXCEPT !.text = lastText + 1]
    [] job[j].kind = "file" -> [job[j].seen EXCEPT !.file = job[j].file]
    [] OTHER -> [job[j].seen EXCEPT !.file = 0]

Write(j) ==
  LET r == job[j].of
      text == job[j].kind = "text"
  IN /\ At(j, "write") /\ Present(r) /\ (text => lastText < MaxText)
     /\ doc' = [doc EXCEPT ![r] = Merged(j)]
     /\ said' = [said EXCEPT ![r] = IF text THEN [@ EXCEPT !.text = lastText + 1]
                                    ELSE [@ EXCEPT !.file = IF job[j].kind = "file" THEN job[j].file ELSE 0]]
     /\ lastText' = IF text THEN lastText + 1 ELSE lastText
     /\ CASE r = Settings -> Set(j, [job[j] EXCEPT !.step = "runtime", !.seen = Merged(j)])
          [] r # Settings /\ text -> End(j)
          [] OTHER -> Go(j, "list")
     /\ UNCHANGED <<card, files, memory, archive, doomed, clash, mishaps, begun, lastFile>>

\* Variant: clearing the logo leaves it in the clear.
ClearKeepsShown(j) ==
  /\ At(j, "runtime")
  /\ IF job[j].kind \in {"file", "load"} /\ ~Readable(job[j].seen.file)
     THEN End(j) /\ UNCHANGED runtime
     ELSE /\ runtime' = job[j].seen.text
          /\ IF job[j].kind = "file" THEN Go(j, "shown") ELSE End(j)
  /\ UNCHANGED <<doc, card, files, shown, archive, history, begun, counters>>

\* this.runtime = next; setNszhuLogo reads the file first, and can fail to.
SetRuntime(j) ==
  /\ At(j, "runtime")
  /\ IF job[j].kind \in {"file", "load"} /\ ~Readable(job[j].seen.file)
     THEN End(j) /\ UNCHANGED runtime
     ELSE /\ runtime' = job[j].seen.text
          /\ IF job[j].kind \in {"file", "clear"} THEN Go(j, "shown") ELSE End(j)
  /\ UNCHANGED <<doc, card, files, shown, archive, history, begun, counters>>

WriteShown(j) ==
  /\ At(j, "shown")
  /\ shown' = job[j].seen.file
  /\ IF job[j].kind = "file" THEN Go(j, "list") ELSE End(j)
  /\ UNCHANGED <<doc, card, files, runtime, archive, history, begun, counters>>

LoadSettings(j) ==
  /\ Start(j, "load", Settings, "runtime", [Idle EXCEPT !.seen = doc[Settings]])
  /\ UNCHANGED <<doc, card, files, memory, archive, said, doomed, mishaps, counters>>

-----------------------------------------------------------------------------
(* Removing files: those a record no longer names, those of a card, those   *)
(* of an account that is purged or an editorial that is removed.            *)

\* Variant: everything stored before this upload stays.
KeepsOld(j) == Files

Kept(j) == {job[j].file}

\* cleanupReplaced, removePurpose, removeOwner list rows ...
List(j) ==
  /\ At(j, "list")
  /\ Set(j, [job[j] EXCEPT !.step = "remove",
       !.todo = CASE job[j].kind = "file" -> Rows(job[j].of) \ Kept(j)
                  [] job[j].kind = "card" -> Rows(job[j].of)
                  [] job[j].kind = "purge" -> RowsOf(job[j].of)])
  /\ UNCHANGED <<doc, card, files, memory, archive, history, begun, counters>>

\* ... and remove each: its row, which throws when it is gone ...
RemoveRow(j, f) ==
  /\ At(j, "remove") /\ f \in job[j].todo
  /\ \/ /\ purpose[f] = None /\ UNCHANGED <<purpose, mishaps>>
        /\ IF job[j].kind = "purge" /\ job[j].of = Profile THEN Go(j, "delete") ELSE End(j)
     \/ /\ purpose[f] # None /\ purpose' = [purpose EXCEPT ![f] = None]
        /\ mishaps' = IF \E i \in Jobs : At(i, "tar") THEN mishaps \cup {"removed"} ELSE mishaps
        /\ Set(j, [job[j] EXCEPT !.step = "unlink", !.file = f, !.todo = @ \ {f}])
  /\ UNCHANGED <<doc, card, disk, tmp, memory, archive, said, doomed, clash, begun, counters>>

\* ... then its bytes.
Unlink(j) ==
  /\ At(j, "unlink")
  /\ disk' = disk \ {job[j].file}
  /\ Go(j, "remove")
  /\ UNCHANGED <<doc, card, purpose, tmp, memory, archive, history, begun, counters>>

Removed(j) ==
  /\ At(j, "remove") /\ job[j].todo = {}
  /\ IF job[j].kind = "file" THEN End(j) ELSE Go(j, "delete")
  /\ UNCHANGED <<doc, card, files, memory, archive, history, begun, counters>>

Purge(j, r) ==
  /\ r # Settings /\ doc[r] # Gone /\ Start(j, "purge", r, "list", Idle)
  /\ doomed' = doomed \cup {p \in Purposes : OwnerOf(p) = r}
  /\ UNCHANGED <<doc, card, files, memory, archive, said, mishaps, counters>>

RemoveCard(j, c) ==
  /\ card[c].state # "none" /\ Start(j, "card", c, "list", Idle)
  /\ doomed' = doomed \cup {c}
  /\ UNCHANGED <<doc, card, files, memory, archive, said, mishaps, counters>>

\* The account goes with its cards; an editorial with the rows of its files,
\* and its cards stay.
Delete(j) ==
  LET p == job[j].of IN
  /\ At(j, "delete")
  /\ doc' = IF p \in Records THEN [doc EXCEPT ![p] = Gone] ELSE doc
  /\ card' = [c \in Cards |-> IF p \in {c, Profile} THEN NoCard ELSE card[c]]
  /\ said' = IF p \in Records THEN [said EXCEPT ![p] = Gone] ELSE said
  /\ purpose' = [f \in Files |-> IF p = Editorial /\ purpose[f] = p THEN None ELSE purpose[f]]
  /\ End(j)
  /\ UNCHANGED <<disk, tmp, memory, archive, doomed, clash, mishaps, begun, counters>>

-----------------------------------------------------------------------------
(* A card is created, then gets a copy of the logo, then its data.          *)

Issue(j, c) ==
  /\ c \notin doomed /\ card[c].state = "none" /\ doc[Profile] # Gone /\ doc[Editorial] # Gone
  /\ Start(j, "issue", c, "create", [Idle EXCEPT !.seen = doc[Editorial]])
  /\ UNCHANGED <<doc, card, files, memory, archive, said, doomed, mishaps, counters>>

CreateCard(j) ==
  LET c == job[j].of IN
  /\ At(j, "create") /\ doc[Profile] # Gone /\ doc[Editorial] # Gone /\ card[c].state = "none"
  /\ card' = [card EXCEPT ![c] = [state |-> "bare", file |-> 0]]
  /\ Go(j, IF job[j].seen.file = 0 THEN "card" ELSE "copy")
  /\ UNCHANGED <<doc, files, memory, archive, history, begun, counters>>

\* Variant: the card names the editorial's own file.
ShareLogo(j) ==
  /\ At(j, "copy")
  /\ Set(j, [job[j] EXCEPT !.step = "card", !.file = job[j].seen.file])
  /\ UNCHANGED <<doc, card, files, memory, archive, history, begun, counters>>

\* files.read of the logo found earlier.
CopyLogo(j) ==
  LET f == job[j].seen.file IN
  /\ At(j, "copy")
  /\ IF Readable(f) THEN Go(j, "temporary") ELSE End(j)
  /\ UNCHANGED <<doc, card, files, memory, archive, history, begun, counters>>

WriteCard(j) ==
  LET c == job[j].of IN
  /\ At(j, "card") /\ card[c].state # "none"
  /\ card' = [card EXCEPT ![c] = [state |-> "full", file |-> job[j].file]]
  /\ End(j)
  /\ UNCHANGED <<doc, files, memory, archive, history, begun, counters>>

-----------------------------------------------------------------------------
(* Backup and restore, failures and restarts.                               *)

Dump(j) ==
  /\ Start(j, "backup", None, "tar", Idle)
  /\ archive' = [taken |-> "dump", doc |-> doc, card |-> card, purpose |-> purpose, shown |-> shown]
  /\ mishaps' = mishaps \cup {x \in {"stored", "removed", "midway"} : \E i \in Jobs :
                   job[i].step \in CASE x = "stored" -> {"rename", "row"}
                                     [] x = "removed" -> {"unlink"}
                                     [] OTHER -> {"write", "runtime", "shown", "list", "remove", "unlink", "delete", "card"}}
  /\ UNCHANGED <<doc, card, files, memory, said, doomed, counters>>

Tar(j) ==
  /\ At(j, "tar") /\ archive.taken = "dump"
  /\ archive' = [taken |-> "full", doc |-> archive.doc, card |-> archive.card,
                 purpose |-> archive.purpose, shown |-> archive.shown,
                 disk |-> disk, tmp |-> tmp]
  /\ End(j)
  /\ UNCHANGED <<doc, card, files, memory, history, begun, counters>>

\* restore.sh, with the server stopped.
Restore ==
  /\ Quiet /\ archive.taken = "full"
  /\ doc' = archive.doc /\ card' = archive.card /\ purpose' = archive.purpose
  /\ disk' = archive.disk /\ tmp' = archive.tmp
  /\ runtime' = None /\ shown' = archive.shown
  /\ said' = archive.doc
  /\ archive' = [taken |-> "no"]
  /\ UNCHANGED <<doomed, clash, mishaps, job, begun, counters>>

\* Any call may throw; store's catch removes both files.
Throw(j) ==
  LET f == job[j].file
  IN /\ Busy(j)
     /\ tmp' = IF Storing(j) THEN tmp \ {f} ELSE tmp
     /\ disk' = IF Storing(j) THEN disk \ {f} ELSE disk
     /\ IF job[j].kind = "purge" /\ job[j].of = Profile /\ job[j].step \in {"list", "remove", "unlink"}
        THEN Go(j, "delete") ELSE End(j)
     /\ mishaps' = mishaps \cup {"throw"}
     /\ UNCHANGED <<doc, card, purpose, memory, archive, said, doomed, clash, begun, counters>>

Restart ==
  /\ ~Quiet \/ runtime # None
  /\ job' = [j \in Jobs |-> Idle] /\ runtime' = None
  /\ mishaps' = IF Quiet THEN mishaps ELSE mishaps \cup {"crash"}
  /\ UNCHANGED <<doc, card, files, shown, archive, said, doomed, clash, begun, counters>>

Next ==
  \/ \E j \in Jobs :
       \/ \E r \in Records : Save(j, r) \/ Upload(j, r) \/ Purge(j, r)
       \/ \E c \in Cards : Issue(j, c) \/ RemoveCard(j, c)
       \/ ClearLogo(j) \/ LoadSettings(j) \/ Dump(j)
       \/ WriteTemporary(j) \/ Rename(j) \/ CreateRow(j)
       \/ Write(j) \/ SetRuntime(j) \/ WriteShown(j)
       \/ List(j) \/ Unlink(j) \/ Removed(j) \/ Delete(j)
       \/ \E f \in Files : RemoveRow(j, f)
       \/ CreateCard(j) \/ CopyLogo(j) \/ WriteCard(j)
       \/ Tar(j) \/ Throw(j)
  \/ Restore \/ Restart

Spec == Init /\ [][Next]_vars

-----------------------------------------------------------------------------
(* Properties.                                                              *)

\* A row always has its bytes, whatever overlaps, throws or is cut short: bytes
\* come before the row and go after it.  Only an archive whose files were taken
\* while a removal went on can bring back a row without them.
RowHasBytes == "removed" \notin mishaps => \A f \in Files : purpose[f] # None => f \in disk

\* A record keeps every change that was answered, and the file it names can be
\* read, unless two handlers were at that record together or it is being
\* removed; what overlaps elsewhere, throws or crashes does not disturb it.
RecordsStand ==
  \A r \in Records \ (clash \cup doomed) :
    /\ doc[r] = said[r]
    /\ doc[r].file # 0 => purpose[doc[r].file] = r

\* Nothing is left behind when nothing failed: between requests a record that
\* names a file owns no other, an owner that is gone owns none, and the disk
\* has no bytes without a row.
NothingLeftBehind ==
  Quiet /\ mishaps = {} /\ clash = {} =>
    /\ \A r \in Records : doc[r].file \in Files => Rows(r) = {doc[r].file}
    /\ \A r \in Records : doc[r] = Gone => RowsOf(r) = {}
    /\ tmp = {} /\ disk = {f \in Files : purpose[f] # None}

\* A card that has its data keeps the logo it was issued with: later uploads,
\* removal of the editorial and changes of the profile never touch the copy.
CardsKeepLogo ==
  "removed" \notin mishaps =>
    \A c \in Cards \ doomed :
      card[c].state = "full" /\ card[c].file # 0 =>
        purpose[card[c].file] = c /\ card[c].file \in disk

\* The settings in memory and the logo in the clear are those of the row.
SettingsInStep ==
  Quiet /\ mishaps = {} /\ Settings \notin clash =>
    runtime \in {None, doc[Settings].text} /\ shown = doc[Settings].file
=============================================================================
