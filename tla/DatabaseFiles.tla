---------------------------- MODULE DatabaseFiles ----------------------------
(*****************************************************************************)
(* The files of one database path -- main, write-ahead log (WAL) and         *)
(* shared-memory index -- and the three parts of the storage layer that      *)
(* handle them: the opener with its orphan-WAL guard, the password resolver  *)
(* and the quarantine.  A process may die between any two file operations.   *)
(*                                                                           *)
(* Which database a file belongs to is its number; a database is created by  *)
(* the connection that finds no main file.  SQLite itself is external: what  *)
(* opening, keying and closing a connection do to the files is modelled as   *)
(* the code relies on it.                                                    *)
(*****************************************************************************)
EXTENDS Naturals, Sequences

CONSTANTS
  Passwords,
  None,            \* no password; the key of a plaintext database
  Unkeyed,         \* the key of a main file of no bytes
  MaxDatabases,    \* bound on the databases ever created at the path
  MaxQuarantines,  \* bound on the quarantine directories
  Times            \* the readings of the clock (which may repeat)

ASSUME FilesConstants ==
  /\ None \notin Passwords /\ Unkeyed \notin Passwords \cup {None}
  /\ MaxDatabases \in Nat \ {0} /\ MaxQuarantines \in Nat

VARIABLES
  disk,        \* which database each file at the path belongs to, 0 if absent
  database,    \* the databases created so far
  quarantine,  \* the files in each quarantine directory
  moving,      \* the quarantine under way: its directory, the sources left
  process,     \* what the process is doing
  verified,    \* the password sealed by the resolver, not yet used
  report       \* the last outcome or prompt handed to the caller

vars == <<disk, database, quarantine, moving, process, verified, report>>

Absent == 0
NotMoving == [directory |-> <<>>, rest |-> <<>>]

(* The order in which quarantine_database_files_in_directory moves them. *)
Sources == <<"main", "wal", "shm">>

Parts == {"main", "wal", "shm"}

Files == [Parts -> 0..MaxDatabases]

Keys == Passwords \cup {None, Unkeyed}

Databases == [key : Keys, populated : BOOLEAN,
              damage : {"none", "pages", "header", "truncated"}]

TypeOK ==
  /\ disk \in Files
  /\ database \in Seq(Databases) /\ Len(database) <= MaxDatabases
  /\ DOMAIN quarantine \subseteq Times \X (0..MaxQuarantines)
  /\ \A d \in DOMAIN quarantine : quarantine[d] \in Files
  /\ process \in {"down", "idle", "resolving", "moving", "open"}
  /\ IF process = "moving"
     THEN moving \in [directory : DOMAIN quarantine, rest : Seq(Parts)]
     ELSE moving = NotMoving
  /\ verified \in Passwords \cup {None}
  /\ report \in {"none", "ManualRequired", "Invalid", "Cancelled", "OrphanWal",
                 "Io", "Open", "Unreadable", "TrueCorruption", "Migration",
                 "CreateDirectory", "Partial"}
  /\ process = "open" => disk["main"] # Absent

-----------------------------------------------------------------------------
Empty == [part \in Parts |-> Absent]
Blank == [key |-> Unkeyed, populated |-> FALSE, damage |-> "none"]
Left(key) == [key |-> key, populated |-> TRUE, damage |-> "none"]

(* No file yet, or a database of an earlier release, plaintext or encrypted,  *)
(* whose process closed it or died.                                          *)
Init ==
  /\ \/ disk = Empty /\ database = <<>>
     \/ /\ disk \in {[Empty EXCEPT !["main"] = 1], [part \in Parts |-> 1]}
        /\ \E key \in Passwords \cup {None} : database = <<Left(key)>>
  /\ quarantine = <<>> /\ moving = NotMoving
  /\ process = "down" /\ verified = None /\ report = "none"

Start ==
  /\ process = "down"
  /\ process' = "idle" /\ report' = "none"
  /\ UNCHANGED <<disk, database, quarantine, moving, verified>>

-----------------------------------------------------------------------------
(* Opening a connection                                                      *)

(* Seeded fault of OrphanWal: a missing main file is simply created. *)
OrphanWalIgnored == FALSE

(* has_orphan_wal_sidecar *)
OrphanWal == disk["main"] = Absent /\ disk["wal"] # Absent

(* The main file a connection works on: the one there, or a new one. *)
Target == IF disk["main"] = Absent THEN Len(database) + 1 ELSE disk["main"]

Creatable == disk["main"] = Absent => Len(database) < MaxDatabases

Found == IF disk["main"] = Absent THEN Blank ELSE database[disk["main"]]

(* WAL mode writes the first page, under the key given: who opens a blank    *)
(* main file decides the key of the database.                                *)
Keyed(password) ==
  IF Found.key = Unkeyed THEN [Found EXCEPT !.key = password] ELSE Found

(* What SQLite answers.  A wrong key and a ruined first page look the same;  *)
(* ruined later pages are noticed only when they are read.                   *)
Answers(password) ==
  LET db == Keyed(password) IN
  IF db.key # password \/ db.damage \in {"header", "truncated"}
  THEN {"NotADatabase"}
  ELSE IF db.damage = "pages" THEN {"ok", "DatabaseCorrupt"} ELSE {"ok"}

(* The database at Target becomes db. *)
Became(db) ==
  database' = IF disk["main"] = Absent THEN Append(database, db)
              ELSE [database EXCEPT ![Target] = db]

(* Closing the last connection deletes the sidecars, if it can checkpoint. *)
ClosedFiles == {[Empty EXCEPT !["main"] = Target],
                [disk EXCEPT !["main"] = Target]}

(* The file is there but the process dies before it is keyed. *)
CrashWhileOpening ==
  /\ process \in {"idle", "resolving"}
  /\ disk["main"] = Absent /\ ~OrphanWal /\ Creatable
  /\ Became(Blank)
  /\ disk' = [disk EXCEPT !["main"] = Target]
  /\ process' = "down" /\ verified' = None /\ report' = "none"
  /\ UNCHANGED <<quarantine, moving>>

-----------------------------------------------------------------------------
(* PasswordResolver::resolve                                                 *)

(* A caller that resolves again, or quarantines, drops the password it had:  *)
(* the seal does not say for which database file it was made.                *)
BeginResolve ==
  /\ process = "idle"
  /\ process' = "resolving" /\ report' = "ManualRequired"
  /\ verified' = None
  /\ UNCHANGED <<disk, database, quarantine, moving>>

Cancel ==
  /\ process = "resolving"
  /\ process' = "idle" /\ report' = "Cancelled"
  /\ UNCHANGED <<disk, database, quarantine, moving, verified>>

(* Seeded fault of Accepts: the probe's wrong-key answer is let through. *)
AcceptsAnyKey(answer) == answer # "ok" \/ Found.populated

(* validate_password: a row of sqlite_master proves the key, and so does a   *)
(* corruption met behind it.  A database without a table has no row.         *)
Accepts(answer) ==
  answer = "DatabaseCorrupt" \/ (answer = "ok" /\ Found.populated)

(* A candidate is tried on a connection of its own; anything but success     *)
(* and an orphan WAL asks again.                                             *)
Validate(password) ==
  /\ process = "resolving" /\ ~OrphanWal /\ Creatable
  /\ \E answer \in Answers(password) :
       /\ Became(Keyed(password))
       /\ disk' \in IF answer = "ok" THEN ClosedFiles
                    ELSE {[disk EXCEPT !["main"] = Target]}
       /\ IF Accepts(answer)
          THEN process' = "idle" /\ verified' = password /\ report' = "none"
          ELSE report' = "Invalid" /\ UNCHANGED <<process, verified>>
  /\ UNCHANGED <<quarantine, moving>>

(* The directory cannot be made or the file cannot be opened at all. *)
ValidateFails ==
  /\ process = "resolving"
  /\ report' = "Invalid"
  /\ UNCHANGED <<disk, database, quarantine, moving, process, verified>>

ValidateRefused ==
  /\ process = "resolving" /\ OrphanWal
  /\ process' = "idle" /\ report' = "OrphanWal"
  /\ UNCHANGED <<disk, database, quarantine, moving, verified>>

-----------------------------------------------------------------------------
(* Storage::open, which consumes the verified password                       *)

(* read_database_header: only plaintext databases show the magic string. *)
Header(db) ==
  IF db.damage = "truncated" THEN "short"
  ELSE IF db.key = None /\ db.damage # "header" THEN "magic" ELSE "other"

(* classify_open_failure over classify_database_startup_failure *)
Classified(db) ==
  IF Header(db) = "other" /\ verified = None THEN "Unreadable" ELSE "TrueCorruption"

OpenStorage ==
  /\ process = "idle" /\ ~OrphanWal /\ Creatable
  /\ "ok" \in Answers(verified)
  /\ Became([Keyed(verified) EXCEPT !.populated = TRUE])
  /\ disk' = [part \in DOMAIN disk |-> Target]
  /\ process' = "open" /\ verified' = None /\ report' = "none"
  /\ UNCHANGED <<quarantine, moving>>

OpenFails ==
  /\ process = "idle" /\ ~OrphanWal /\ Creatable
  /\ \E answer \in Answers(verified) \ {"ok"} :
       /\ Became(Keyed(verified))
       /\ disk' = [disk EXCEPT !["main"] = Target]
  /\ verified' = None /\ report' = Classified(Keyed(verified))
  /\ UNCHANGED <<quarantine, moving, process>>

(* The schema fails: destructively on ruined pages, or in a migration that   *)
(* may have made some tables first.                                          *)
MigrationFails ==
  /\ process = "idle" /\ ~OrphanWal /\ Creatable
  /\ "ok" \in Answers(verified)
  /\ \E populated \in {Found.populated, TRUE} :
       Became([Keyed(verified) EXCEPT !.populated = populated])
  /\ disk' \in ClosedFiles
  /\ report' \in {"Migration"} \cup
       (IF Found.damage # "pages" THEN {}
        ELSE {IF verified = None THEN "Unreadable" ELSE "TrueCorruption"})
  /\ verified' = None
  /\ UNCHANGED <<quarantine, moving, process>>

(* The directory cannot be made or the file cannot be opened at all. *)
OpenUnavailable ==
  /\ process = "idle"
  /\ verified' = None /\ report' \in {"Io", "Open"}
  /\ UNCHANGED <<disk, database, quarantine, moving, process>>

OpenRefused ==
  /\ process = "idle" /\ OrphanWal
  /\ verified' = None /\ report' = "OrphanWal"
  /\ UNCHANGED <<disk, database, quarantine, moving, process>>

Close ==
  /\ process = "open"
  /\ disk' \in ClosedFiles
  /\ process' = "idle" /\ report' = "none"
  /\ UNCHANGED <<database, quarantine, moving, verified>>

-----------------------------------------------------------------------------
(* quarantine_database_files                                                 *)

(* Seeded fault of Directory: an existing directory is as good as a new one. *)
DirectoryReused(time) == <<time, 0>>

(* The first name of the clock reading that create_directory accepts. *)
Directory(time) ==
  LET free == {n \in 0..MaxQuarantines : <<time, n>> \notin DOMAIN quarantine} IN
  <<time, CHOOSE n \in free : \A m \in free : n <= m>>

(* Seeded fault of MoveOrder: the sidecars are moved first. *)
SidecarsFirst == <<"wal", "shm", "main">>

MoveOrder == Sources

BeginQuarantine(time) ==
  /\ process = "idle"
  /\ \E n \in 0..(MaxQuarantines - 1) : <<time, n>> \notin DOMAIN quarantine
  /\ moving' = [directory |-> Directory(time), rest |-> MoveOrder]
  /\ quarantine' = [d \in DOMAIN quarantine \cup {Directory(time)} |->
                      IF d \in DOMAIN quarantine THEN quarantine[d] ELSE Empty]
  /\ process' = "moving" /\ report' = "none" /\ verified' = None
  /\ UNCHANGED <<disk, database>>

NoDirectory ==
  /\ process = "idle"
  /\ report' = "CreateDirectory"
  /\ UNCHANGED <<disk, database, quarantine, moving, process, verified>>

Skip ==
  /\ process = "moving" /\ moving.rest # <<>>
  /\ disk[Head(moving.rest)] = Absent
  /\ moving' = [moving EXCEPT !.rest = Tail(@)]
  /\ UNCHANGED <<disk, database, quarantine, process, verified, report>>

Rename ==
  /\ process = "moving" /\ moving.rest # <<>>
  /\ LET part == Head(moving.rest) IN
     /\ disk[part] # Absent
     /\ disk' = [disk EXCEPT ![part] = Absent]
     /\ quarantine' = [quarantine EXCEPT ![moving.directory][part] = disk[part]]
  /\ moving' = [moving EXCEPT !.rest = Tail(@)]
  /\ UNCHANGED <<database, process, verified, report>>

(* Seeded fault of RenameFails: the rest of the move is kept for later. *)
RenameFailsUnended ==
  /\ process = "moving" /\ moving.rest # <<>>
  /\ disk[Head(moving.rest)] # Absent
  /\ process' = "idle" /\ report' = "Partial"
  /\ UNCHANGED <<disk, database, quarantine, moving, verified>>

(* What was moved stays moved: nothing is undone. *)
RenameFails ==
  /\ process = "moving" /\ moving.rest # <<>>
  /\ disk[Head(moving.rest)] # Absent
  /\ moving' = NotMoving
  /\ process' = "idle" /\ report' = "Partial"
  /\ UNCHANGED <<disk, database, quarantine, verified>>

Quarantined ==
  /\ process = "moving" /\ moving.rest = <<>>
  /\ moving' = NotMoving
  /\ process' = "idle"
  /\ UNCHANGED <<disk, database, quarantine, verified, report>>

-----------------------------------------------------------------------------
(* The environment                                                           *)

Crash ==
  /\ process # "down"
  /\ process' = "down" /\ moving' = NotMoving
  /\ verified' = None /\ report' = "none"
  /\ UNCHANGED <<disk, database, quarantine>>

(* The user or the disk takes the main file, or a part of its contents. *)
RemoveMain ==
  /\ process = "down"
  /\ disk["main"] # Absent
  /\ disk' = [disk EXCEPT !["main"] = Absent]
  /\ UNCHANGED <<database, quarantine, moving, process, verified, report>>

Ruin ==
  /\ process = "down"
  /\ disk["main"] # Absent
  /\ database[disk["main"]].populated /\ database[disk["main"]].damage = "none"
  /\ \E damage \in {"pages", "header", "truncated"} :
       database' = [database EXCEPT ![disk["main"]].damage = damage]
  /\ UNCHANGED <<disk, quarantine, moving, process, verified, report>>

-----------------------------------------------------------------------------
Next ==
  \/ Start \/ CrashWhileOpening
  \/ BeginResolve \/ Cancel
  \/ \E password \in Passwords : Validate(password)
  \/ ValidateFails \/ ValidateRefused
  \/ OpenStorage \/ OpenFails \/ MigrationFails \/ OpenUnavailable \/ OpenRefused
  \/ Close
  \/ \E time \in Times : BeginQuarantine(time)
  \/ NoDirectory \/ Skip \/ Rename \/ RenameFails \/ Quarantined
  \/ Crash \/ RemoveMain \/ Ruin

Spec == Init /\ [][Next]_vars

-----------------------------------------------------------------------------
(* No WAL is ever attached to another database's main file, whatever         *)
(* crashes, removals and interrupted quarantines came before: SQLite would   *)
(* replay its frames.  The guard of open_database_classified is what stops   *)
(* it.                                                                       *)
NoForeignWal ==
  disk["main"] # Absent /\ disk["wal"] # Absent => disk["wal"] = disk["main"]

(* A quarantine, wherever it stopped, never leaves a database at the path    *)
(* whose WAL -- and the transactions only it holds -- has been taken away.   *)
MainKeepsItsWal ==
  \A d \in DOMAIN quarantine :
    quarantine[d]["wal"] # Absent => quarantine[d]["wal"] # disk["main"]

(* "Corrupt" is said only of a database that is: a password mistyped, or     *)
(* given for a database that is new or plaintext, never leads to it.         *)
CorruptionIsReal ==
  report = "TrueCorruption" =>
    disk["main"] # Absent /\ database[disk["main"]].damage # "none"

(* Preserved evidence is never overwritten: a file in a quarantine directory *)
(* stays what it is, though clock readings repeat and quarantines are        *)
(* retried after a partial failure or a crash.                               *)
EvidenceIsKept ==
  [][\A d \in DOMAIN quarantine : \A part \in DOMAIN quarantine[d] :
       quarantine[d][part] # Absent => quarantine'[d][part] = quarantine[d][part]]_vars
=============================================================================
