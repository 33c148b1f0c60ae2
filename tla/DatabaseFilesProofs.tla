------------------------ MODULE DatabaseFilesProofs ------------------------
(***************************************************************************)
(* Proofs about DatabaseFiles for any passwords, clock readings and numbers *)
(* of databases and quarantines.                                           *)
(***************************************************************************)
EXTENDS DatabaseFiles, SequenceTheorems, WellFoundedInduction, TLAPS

(* A file belongs to a database that was created. *)
FilesHaveDatabases ==
  /\ \A part \in Parts : disk[part] <= Len(database)
  /\ \A d \in DOMAIN quarantine : \A part \in Parts : quarantine[d][part] <= Len(database)

(* A quarantine moves the main file first, and its directory has no file yet *)
(* under a name that is still to be moved.                                   *)
MovesMainFirst ==
  process = "moving" =>
    /\ moving.rest \in {Sources, <<"wal", "shm">>, <<"shm">>, <<>>}
    /\ moving.rest # Sources => disk["main"] = Absent
    /\ \A i \in 1..Len(moving.rest) :
         quarantine[moving.directory][moving.rest[i]] = Absent

(* A sealed password is the key of the database at the path. *)
SealIsTrue ==
  verified # None =>
    process = "idle" /\ disk["main"] # Absent /\ database[disk["main"]].key = verified

CorruptionIsReportedIdle == report = "TrueCorruption" => process = "idle"

IInv ==
  /\ TypeOK
  /\ FilesHaveDatabases
  /\ NoForeignWal
  /\ MainKeepsItsWal
  /\ MovesMainFirst
  /\ SealIsTrue
  /\ CorruptionIsReportedIdle
  /\ CorruptionIsReal

-----------------------------------------------------------------------------
(* What the operators of the module return. *)

LEMMA LeastElement ==
  ASSUME NEW T, T \subseteq Nat, T # {}
  PROVE  \E n \in T : \A m \in T : n <= m
<1> DEFINE R == {ss \in Nat \X Nat : ss[1] < ss[2]}
<1>1. OpToRel(<, Nat) = R
  BY DEF OpToRel
<1>2. IsWellFoundedOn(R, Nat)
  BY <1>1, NatLessThanWellFounded
<1>3. \A m, n \in Nat : <<m, n>> \in R <=> m < n
  OBVIOUS
<1> HIDE DEF R
<1>4. PICK n \in T : \A m \in T : ~ (<<m, n>> \in R)
  BY <1>2, WFMin
<1>5. \A m \in T : ~ (m < n)
  BY <1>3, <1>4
<1>6. \A m \in T : n <= m
  BY <1>5
<1> QED
  BY <1>6

(* The directory a quarantine creates has a name that was not taken. *)
LEMMA DirectoryIsNew ==
  ASSUME NEW time \in Times,
         \E n \in 0..(MaxQuarantines - 1) : <<time, n>> \notin DOMAIN quarantine
  PROVE  /\ Directory(time) \in Times \X (0..MaxQuarantines)
         /\ Directory(time) \notin DOMAIN quarantine
<1> DEFINE free == {n \in 0..MaxQuarantines : <<time, n>> \notin DOMAIN quarantine}
           first == CHOOSE n \in free : \A m \in free : n <= m
<1>1. free \subseteq Nat /\ free # {}
  BY FilesConstants
<1>2. Directory(time) = <<time, first>>
  BY DEF Directory
<1>3. first \in free
  <2> HIDE DEF free
  <2>1. \E n \in free : \A m \in free : n <= m
    BY <1>1, LeastElement
  <2> QED
    BY <2>1
<1> HIDE DEF first
<1> QED
  BY <1>2, <1>3

LEMMA FoundType == ASSUME IInv PROVE Found \in Databases
<1>1. CASE disk["main"] = Absent
  BY <1>1 DEF Found, Blank, Databases, Keys
<1>2. CASE disk["main"] # Absent
  <2>1. disk["main"] \in 1..Len(database)
    BY <1>2 DEF IInv, TypeOK, Files, Parts, FilesHaveDatabases, Absent
  <2> QED
    BY <1>2, <2>1, ElementOfSeq DEF Found, IInv, TypeOK
<1> QED
  BY <1>1, <1>2

(* Giving a key changes nothing but an undecided key. *)
LEMMA KeyedType ==
  ASSUME IInv, NEW password \in Passwords \cup {None}
  PROVE  /\ Keyed(password) \in Databases
         /\ Keyed(password).damage = Found.damage
         /\ Found.key # Unkeyed => Keyed(password) = Found
         /\ Found.key = Unkeyed => Keyed(password).key = password
  BY FoundType DEF Keyed, Databases, Keys

(* The connection's database becomes db and all others stay. *)
LEMMA BecameProperties ==
  ASSUME IInv, Creatable, NEW db \in Databases, Became(db)
  PROVE  /\ database' \in Seq(Databases)
         /\ Len(database') <= MaxDatabases
         /\ Len(database) <= Len(database')
         /\ Target \in 1..Len(database')
         /\ disk["main"] = Absent => Target = Len(database) + 1
         /\ database'[Target] = db
<1>1. database \in Seq(Databases) /\ Len(database) \in Nat /\ Len(database) <= MaxDatabases
  BY DEF IInv, TypeOK
<1>2. CASE disk["main"] = Absent
  BY <1>1, <1>2, AppendProperties, FilesConstants DEF Became, Target, Creatable
<1>3. CASE disk["main"] # Absent
  <2>1. disk["main"] \in 1..Len(database)
    BY <1>3 DEF IInv, TypeOK, Files, Parts, FilesHaveDatabases, Absent
  <2> QED
    BY <1>1, <1>3, <2>1, ExceptSeq DEF Became, Target
<1> QED
  BY <1>2, <1>3

(* Whatever a connection does to the files, it works on the database at the  *)
(* path or on a new one, and no WAL changes its database.                    *)
LEMMA OpeningKeepsFiles ==
  ASSUME IInv, ~OrphanWal, Creatable, NEW db \in Databases, Became(db),
         disk' \in ClosedFiles \cup {[part \in DOMAIN disk |-> Target]},
         UNCHANGED quarantine
  PROVE  /\ disk' \in Files
         /\ disk'["main"] = Target
         /\ disk'["main"] # Absent
         /\ FilesHaveDatabases' /\ NoForeignWal' /\ MainKeepsItsWal'
<1>1. /\ Target \in 1..Len(database') /\ Len(database') \in Nat
      /\ Len(database') <= MaxDatabases
      /\ Len(database) <= Len(database') /\ Len(database) \in Nat
      /\ disk["main"] = Absent => Target = Len(database) + 1
  BY BecameProperties DEF IInv, TypeOK
<1>2. disk \in Files /\ Target \in 1..MaxDatabases
  BY <1>1, FilesConstants DEF IInv, TypeOK
<1>3. /\ disk' \in Files /\ disk'["main"] = Target
      /\ disk'["wal"] \in {Absent, disk["wal"], Target}
      /\ disk'["shm"] \in {Absent, disk["shm"], Target}
  <2> DEFINE target == Target
  <2>1. target \in 0..MaxDatabases /\ disk \in [Parts -> 0..MaxDatabases]
    BY <1>2 DEF Files
  <2> HIDE DEF target
  <2>2. CASE disk' = [Empty EXCEPT !["main"] = target]
    <3>1. /\ Empty \in [Parts -> 0..MaxDatabases]
          /\ \A part \in Parts : Empty[part] = Absent
      BY FilesConstants DEF Empty, Absent
    <3> QED
      BY <2>1, <2>2, <3>1 DEF Files, Parts, target
  <2>3. CASE disk' = [disk EXCEPT !["main"] = target]
    BY <2>1, <2>3 DEF Files, Parts, target
  <2>4. CASE disk' = [part \in DOMAIN disk |-> target]
    BY <2>1, <2>4 DEF Files, Parts, target
  <2> QED
    BY <2>2, <2>3, <2>4 DEF ClosedFiles, target
<1>4. Target # Absent
  BY <1>1 DEF Absent
<1>5. FilesHaveDatabases'
  BY <1>1, <1>2, <1>3, SMTT(30) DEF IInv, TypeOK, FilesHaveDatabases, Files, Parts, Absent
<1>6. NoForeignWal'
  BY <1>3 DEF IInv, NoForeignWal, OrphanWal, Target
<1>7. MainKeepsItsWal'
  <2> SUFFICES ASSUME NEW d \in DOMAIN quarantine, quarantine[d]["wal"] # Absent
               PROVE  quarantine[d]["wal"] # Target
    BY <1>3 DEF MainKeepsItsWal
  <2>1. quarantine[d]["wal"] <= Len(database) /\ quarantine[d]["wal"] \in Nat
    BY DEF IInv, TypeOK, FilesHaveDatabases, Files, Parts
  <2>2. quarantine[d]["wal"] # disk["main"]
    BY DEF IInv, MainKeepsItsWal
  <2> QED
    BY <1>1, <2>1, <2>2 DEF Target
<1> QED
  BY <1>3, <1>4, <1>5, <1>6, <1>7

-----------------------------------------------------------------------------
(* The invariant is inductive. *)

LEMMA InitIInv == Init => IInv
<1> SUFFICES ASSUME Init PROVE IInv
  OBVIOUS
<1>1. /\ quarantine = <<>> /\ moving = NotMoving /\ process = "down"
      /\ verified = None /\ report = "none"
  BY DEF Init
<1>2. disk \in Files /\ database \in Seq(Databases) /\ Len(database) <= MaxDatabases
  <2>1. CASE disk = Empty /\ database = <<>>
    BY <2>1, FilesConstants DEF Files, Empty, Parts, Absent
  <2>2. CASE disk # Empty \/ database # <<>>
    <3>1. PICK key \in Passwords \cup {None} : database = <<Left(key)>>
      BY <2>2 DEF Init
    <3>2. Left(key) \in Databases
      BY <3>1 DEF Left, Databases, Keys
    <3>3. disk \in Files
      BY <2>2, FilesConstants DEF Init, Files, Empty, Parts, Absent
    <3> QED
      BY <3>1, <3>2, <3>3, FilesConstants
  <2> QED
    BY <2>1, <2>2
<1>3. FilesHaveDatabases /\ NoForeignWal
  <2>1. CASE disk = Empty
    BY <1>1, <1>2, <2>1 DEF FilesHaveDatabases, NoForeignWal, Empty, Parts, Absent
  <2>2. CASE disk # Empty
    <3>1. Len(database) = 1
      BY <2>2 DEF Init
    <3>2. disk \in [Parts -> 0..1] /\ disk["main"] = 1
      BY <2>2 DEF Init, Empty, Parts, Absent
    <3> QED
      BY <1>1, <3>1, <3>2 DEF FilesHaveDatabases, NoForeignWal, Parts, Absent
  <2> QED
    BY <2>1, <2>2
<1>4. TypeOK
  BY <1>1, <1>2 DEF TypeOK
<1> QED
  BY <1>1, <1>3, <1>4
     DEF IInv, MainKeepsItsWal, MovesMainFirst, SealIsTrue, CorruptionIsReportedIdle,
         CorruptionIsReal

(* Steps that touch no file and no database. *)
LEMMA QuietSteps ==
  ASSUME IInv, UNCHANGED <<disk, database, quarantine>>,
         \/ Start \/ BeginResolve \/ Cancel \/ ValidateFails \/ ValidateRefused
         \/ OpenUnavailable \/ OpenRefused \/ NoDirectory
         \/ RenameFails \/ Quarantined \/ Crash
  PROVE  IInv'
<1> USE DEF IInv
<1>1. /\ UNCHANGED moving \/ moving' = NotMoving
      /\ process' \in {"down", "idle", "resolving"}
      /\ process' # "moving" => moving' = NotMoving
      /\ report' \in {"none", "ManualRequired", "Invalid", "Cancelled", "OrphanWal",
                      "Io", "Open", "CreateDirectory", "Partial", report}
      /\ verified' \in {None, verified}
  BY DEF Start, BeginResolve, Cancel, ValidateFails, ValidateRefused, OpenUnavailable,
         OpenRefused, NoDirectory, RenameFails, Quarantined, Crash, TypeOK
<1>2. TypeOK'
  BY <1>1 DEF TypeOK
<1>3. FilesHaveDatabases' /\ NoForeignWal' /\ MainKeepsItsWal' /\ MovesMainFirst'
  BY <1>1 DEF FilesHaveDatabases, NoForeignWal, MainKeepsItsWal, MovesMainFirst
<1>4. SealIsTrue'
  BY <1>1 DEF SealIsTrue, Start, BeginResolve, Cancel, ValidateFails, ValidateRefused,
              OpenUnavailable, OpenRefused, NoDirectory, RenameFails, Quarantined, Crash
<1>5. CorruptionIsReportedIdle' /\ CorruptionIsReal'
  BY <1>1 DEF CorruptionIsReportedIdle, CorruptionIsReal, Start, BeginResolve, Cancel,
              ValidateFails, ValidateRefused, OpenUnavailable, OpenRefused, NoDirectory,
              RenameFails, Quarantined, Crash
<1> QED
  BY <1>2, <1>3, <1>4, <1>5

(* Steps that work on a database through a connection. *)
LEMMA CrashWhileOpeningStep == ASSUME IInv, CrashWhileOpening PROVE IInv'
<1> USE DEF CrashWhileOpening
<1>1. Blank \in Databases
  BY DEF Blank, Databases, Keys
<1>2. disk' \in ClosedFiles
  BY DEF ClosedFiles
<1>3. /\ disk' \in Files /\ disk'["main"] # Absent
      /\ FilesHaveDatabases' /\ NoForeignWal' /\ MainKeepsItsWal'
  BY <1>1, <1>2, OpeningKeepsFiles
<1>4. TypeOK'
  BY <1>1, <1>3, BecameProperties DEF IInv, TypeOK
<1> QED
  BY <1>3, <1>4 DEF IInv, MovesMainFirst, SealIsTrue, CorruptionIsReportedIdle,
                    CorruptionIsReal

LEMMA ValidateStep ==
  ASSUME IInv, NEW password \in Passwords, Validate(password) PROVE IInv'
<1>1. PICK answer \in Answers(password) :
        /\ Became(Keyed(password))
        /\ disk' \in IF answer = "ok" THEN ClosedFiles
                     ELSE {[disk EXCEPT !["main"] = Target]}
        /\ IF Accepts(answer)
           THEN process' = "idle" /\ verified' = password /\ report' = "none"
           ELSE report' = "Invalid" /\ UNCHANGED <<process, verified>>
  BY DEF Validate
<1>2. process = "resolving" /\ ~OrphanWal /\ Creatable /\ UNCHANGED <<quarantine, moving>>
  BY DEF Validate
<1>3. Keyed(password) \in Databases
  BY KeyedType
<1>4. disk' \in ClosedFiles
  BY <1>1 DEF ClosedFiles
<1>5. /\ disk' \in Files /\ disk'["main"] # Absent /\ disk'["main"] = Target
      /\ FilesHaveDatabases' /\ NoForeignWal' /\ MainKeepsItsWal'
  BY <1>1, <1>2, <1>3, <1>4, OpeningKeepsFiles
<1>6. /\ database' \in Seq(Databases) /\ Len(database') <= MaxDatabases
      /\ database'[disk'["main"]] = Keyed(password)
  BY <1>1, <1>2, <1>3, <1>5, BecameProperties
<1>7. TypeOK'
  BY <1>1, <1>2, <1>5, <1>6 DEF IInv, TypeOK
<1>8. SealIsTrue'
  <2>1. verified = None
    BY <1>2 DEF IInv, SealIsTrue
  <2>2. Accepts(answer) => Keyed(password).key = password
    BY <1>1 DEF Accepts, Answers
  <2> QED
    BY <1>1, <1>5, <1>6, <2>1, <2>2 DEF SealIsTrue
<1> QED
  BY <1>1, <1>2, <1>5, <1>7, <1>8
     DEF IInv, MovesMainFirst, CorruptionIsReportedIdle, CorruptionIsReal

LEMMA OpenStorageStep == ASSUME IInv, OpenStorage PROVE IInv'
<1> USE DEF OpenStorage
<1> DEFINE db == [Keyed(verified) EXCEPT !.populated = TRUE]
<1>1. db \in Databases
  <2>1. Keyed(verified) \in Databases
    BY KeyedType DEF IInv, TypeOK
  <2> QED
    BY <2>1 DEF Databases
<1>2. /\ disk' \in Files /\ disk'["main"] # Absent
      /\ FilesHaveDatabases' /\ NoForeignWal' /\ MainKeepsItsWal'
  BY <1>1, OpeningKeepsFiles
<1>3. TypeOK'
  BY <1>1, <1>2, BecameProperties DEF IInv, TypeOK
<1> QED
  BY <1>2, <1>3 DEF IInv, MovesMainFirst, SealIsTrue, CorruptionIsReportedIdle,
                    CorruptionIsReal

(* A key that was sealed for the database is not refused by it. *)
LEMMA SealFits ==
  ASSUME IInv, verified # None PROVE Keyed(verified).key = verified
<1>1. disk["main"] # Absent /\ database[disk["main"]].key = verified
  BY DEF IInv, SealIsTrue
<1>2. Found.key = verified
  BY <1>1 DEF Found
<1> QED
  BY <1>2, KeyedType DEF IInv, TypeOK

LEMMA OpenFailsStep == ASSUME IInv, OpenFails PROVE IInv'
<1> DEFINE db == Keyed(verified)
<1>1. db \in Databases
  BY KeyedType DEF IInv, TypeOK
<1>2. PICK answer \in Answers(verified) \ {"ok"} :
        Became(db) /\ disk' = [disk EXCEPT !["main"] = Target]
  BY DEF OpenFails
<1>3. /\ process = "idle" /\ ~OrphanWal /\ Creatable
      /\ verified' = None /\ report' = Classified(db)
      /\ UNCHANGED <<quarantine, moving, process>>
  BY DEF OpenFails
<1>4. disk' \in ClosedFiles
  BY <1>2 DEF ClosedFiles
<1>5. /\ disk' \in Files /\ disk'["main"] # Absent /\ disk'["main"] = Target
      /\ FilesHaveDatabases' /\ NoForeignWal' /\ MainKeepsItsWal'
  BY <1>1, <1>2, <1>3, <1>4, OpeningKeepsFiles
<1>6. /\ database' \in Seq(Databases) /\ Len(database') <= MaxDatabases
      /\ database'[disk'["main"]] = db
  BY <1>1, <1>2, <1>3, <1>5, BecameProperties
<1>7. report' \in {"Unreadable", "TrueCorruption"}
  BY <1>3 DEF Classified
<1>8. TypeOK'
  BY <1>3, <1>5, <1>6, <1>7 DEF IInv, TypeOK
<1>9. CorruptionIsReal'
  <2>1. SUFFICES ASSUME report' = "TrueCorruption", db.damage = "none"
                 PROVE  FALSE
    BY <1>5, <1>6 DEF CorruptionIsReal
  <2>2. db.key # verified
    BY <1>2, <2>1 DEF Answers
  <2>3. verified = None
    BY <2>2, SealFits
  <2>4. Header(db) = "other"
    BY <2>1, <2>2, <2>3 DEF Header
  <2> QED
    BY <1>3, <2>1, <2>3, <2>4 DEF Classified
<1> QED
  BY <1>3, <1>5, <1>8, <1>9
     DEF IInv, MovesMainFirst, SealIsTrue, CorruptionIsReportedIdle

LEMMA MigrationFailsStep == ASSUME IInv, MigrationFails PROVE IInv'
<1>1. PICK populated \in {Found.populated, TRUE} :
        Became([Keyed(verified) EXCEPT !.populated = populated])
  BY DEF MigrationFails
<1> DEFINE db == [Keyed(verified) EXCEPT !.populated = populated]
<1>2. /\ process = "idle" /\ ~OrphanWal /\ Creatable
      /\ disk' \in ClosedFiles /\ verified' = None
      /\ UNCHANGED <<quarantine, moving, process>>
  BY DEF MigrationFails
<1>3. db \in Databases /\ db.damage = Found.damage
  BY KeyedType, FoundType DEF IInv, TypeOK, Databases
<1>4. /\ disk' \in Files /\ disk'["main"] # Absent /\ disk'["main"] = Target
      /\ FilesHaveDatabases' /\ NoForeignWal' /\ MainKeepsItsWal'
  BY <1>1, <1>2, <1>3, OpeningKeepsFiles
<1>5. /\ database' \in Seq(Databases) /\ Len(database') <= MaxDatabases
      /\ database'[disk'["main"]] = db
  BY <1>1, <1>2, <1>3, <1>4, BecameProperties
<1>6. /\ report' \in {"Migration", "Unreadable", "TrueCorruption"}
      /\ report' = "TrueCorruption" => Found.damage = "pages"
  BY DEF MigrationFails
<1>7. TypeOK'
  BY <1>2, <1>4, <1>5, <1>6 DEF IInv, TypeOK
<1> QED
  BY <1>2, <1>3, <1>4, <1>5, <1>6, <1>7
     DEF IInv, MovesMainFirst, SealIsTrue, CorruptionIsReportedIdle, CorruptionIsReal

LEMMA CloseStep == ASSUME IInv, Close PROVE IInv'
<1> USE DEF Close
<1>1. Target = disk["main"] /\ disk["main"] # Absent
  BY DEF IInv, TypeOK, Target
<1>2. /\ disk' \in Files /\ disk'["main"] = disk["main"]
      /\ disk'["wal"] \in {Absent, disk["wal"]}
      /\ disk'["shm"] \in {Absent, disk["shm"]}
  <2>1. CASE disk' = [Empty EXCEPT !["main"] = disk["main"]]
    <3>1. /\ Empty \in [Parts -> 0..MaxDatabases]
          /\ \A part \in Parts : Empty[part] = Absent
      BY FilesConstants DEF Empty, Absent
    <3> QED
      BY <2>1, <3>1 DEF IInv, TypeOK, Files, Parts
  <2>2. CASE disk' = [disk EXCEPT !["main"] = disk["main"]]
    BY <2>2 DEF IInv, TypeOK, Files, Parts
  <2> QED
    BY <1>1, <2>1, <2>2 DEF ClosedFiles
<1>3. FilesHaveDatabases'
  BY <1>2 DEF IInv, TypeOK, FilesHaveDatabases, Parts, Absent
<1>4. NoForeignWal' /\ MainKeepsItsWal'
  BY <1>2 DEF IInv, NoForeignWal, MainKeepsItsWal
<1>5. TypeOK'
  BY <1>2 DEF IInv, TypeOK
<1> QED
  BY <1>3, <1>4, <1>5 DEF IInv, MovesMainFirst, SealIsTrue, CorruptionIsReportedIdle,
                          CorruptionIsReal

(* The quarantine. *)
LEMMA BeginQuarantineStep ==
  ASSUME IInv, NEW time \in Times, BeginQuarantine(time) PROVE IInv'
<1> USE DEF BeginQuarantine
<1>1. /\ Directory(time) \in Times \X (0..MaxQuarantines)
      /\ Directory(time) \notin DOMAIN quarantine
  BY DirectoryIsNew
<1>2. /\ Empty \in Files
      /\ \A part \in Parts : Empty[part] = Absent
  BY FilesConstants DEF Empty, Files, Absent
<1>3. /\ DOMAIN quarantine' = DOMAIN quarantine \cup {Directory(time)}
      /\ \A d \in DOMAIN quarantine : quarantine'[d] = quarantine[d]
      /\ quarantine'[Directory(time)] = Empty
  BY <1>1
<1>4. /\ moving'.directory = Directory(time) /\ moving'.rest = Sources
      /\ Len(Sources) = 3
      /\ Sources[1] = "main" /\ Sources[2] = "wal" /\ Sources[3] = "shm"
  BY DEF MoveOrder, Sources
<1>5. TypeOK'
  <2>1. Sources \in Seq(Parts)
    BY DEF Sources, Parts
  <2>2. moving' \in [directory : DOMAIN quarantine', rest : Seq(Parts)]
    BY <1>3, <2>1 DEF MoveOrder
  <2>3. \A d \in DOMAIN quarantine' : quarantine'[d] \in Files
    BY <1>2, <1>3 DEF IInv, TypeOK
  <2>4. DOMAIN quarantine' \subseteq Times \X (0..MaxQuarantines)
    BY <1>1, <1>3 DEF IInv, TypeOK
  <2> QED
    BY <2>2, <2>3, <2>4 DEF IInv, TypeOK
<1>6. FilesHaveDatabases'
  <2>1. Len(database) \in Nat
    BY DEF IInv, TypeOK
  <2> QED
    BY <1>2, <1>3, <2>1 DEF IInv, FilesHaveDatabases, Absent
<1>7. NoForeignWal' /\ MainKeepsItsWal'
  BY <1>2, <1>3 DEF IInv, NoForeignWal, MainKeepsItsWal, Parts
<1>8. MovesMainFirst'
  <2>1. \A i \in 1..Len(Sources) : Sources[i] \in Parts
    BY DEF Sources, Parts
  <2>2. quarantine'[moving'.directory] = Empty
    BY <1>3, <1>4
  <2>3. \A i \in 1..Len(moving'.rest) :
          quarantine'[moving'.directory][moving'.rest[i]] = Absent
    <3> HIDE DEF BeginQuarantine
    <3> QED
      BY <1>2, <1>4, <2>1, <2>2
  <2> QED
    BY <1>4, <2>3 DEF MovesMainFirst
<1> QED
  BY <1>5, <1>6, <1>7, <1>8 DEF IInv, SealIsTrue, CorruptionIsReportedIdle,
                                CorruptionIsReal

(* The rest of a move after its first source. *)
LEMMA RestOfMove ==
  ASSUME IInv, process = "moving", moving.rest # <<>>
  PROVE  LET part == Head(moving.rest)
             rest == Tail(moving.rest) IN
         /\ part \in Parts
         /\ rest \in {<<"wal", "shm">>, <<"shm">>, <<>>}
         /\ rest \in Seq(Parts)
         /\ \A i \in 1..Len(rest) : /\ rest[i] \in Parts /\ rest[i] # part
                                    /\ quarantine[moving.directory][rest[i]] = Absent
         /\ quarantine[moving.directory][part] = Absent
         /\ part # "main" => disk["main"] = Absent
<1> DEFINE Free(part) == quarantine[moving.directory][part] = Absent
<1> HIDE DEF Free
<1>1. \A i \in 1..Len(moving.rest) : Free(moving.rest[i])
  BY DEF IInv, MovesMainFirst, Free
<1>2. CASE moving.rest = <<"main", "wal", "shm">>
  <2>1. Free("main") /\ Free("wal") /\ Free("shm")
    BY <1>1, <1>2
  <2> QED
    BY <1>2, <2>1 DEF Parts, Free
<1>3. CASE moving.rest = <<"wal", "shm">>
  <2>1. Free("wal") /\ Free("shm") /\ disk["main"] = Absent
    BY <1>1, <1>3 DEF IInv, MovesMainFirst, Sources
  <2> QED
    BY <1>3, <2>1 DEF Parts, Free
<1>4. CASE moving.rest = <<"shm">>
  <2>1. Free("shm") /\ disk["main"] = Absent
    BY <1>1, <1>4 DEF IInv, MovesMainFirst, Sources
  <2> QED
    BY <1>4, <2>1 DEF Parts, Free
<1> QED
  BY <1>2, <1>3, <1>4 DEF IInv, MovesMainFirst, Sources

LEMMA SkipStep == ASSUME IInv, Skip PROVE IInv'
<1> USE DEF Skip
<1> DEFINE rest == Tail(moving.rest)
<1>1. /\ rest \in {<<"wal", "shm">>, <<"shm">>, <<>>} /\ rest \in Seq(Parts)
      /\ \A i \in 1..Len(rest) : quarantine[moving.directory][rest[i]] = Absent
      /\ disk["main"] = Absent
  BY RestOfMove
<1>2. moving' = [directory |-> moving.directory, rest |-> rest]
  BY DEF IInv, TypeOK
<1>3. TypeOK'
  BY <1>1, <1>2 DEF IInv, TypeOK
<1>4. MovesMainFirst'
  BY <1>1, <1>2 DEF MovesMainFirst
<1> QED
  BY <1>3, <1>4 DEF IInv, FilesHaveDatabases, NoForeignWal, MainKeepsItsWal, SealIsTrue,
                    CorruptionIsReportedIdle, CorruptionIsReal

LEMMA RenameStep == ASSUME IInv, Rename PROVE IInv'
<1> USE DEF Rename
<1> DEFINE part == Head(moving.rest)
           rest == Tail(moving.rest)
           directory == moving.directory
<1>1. /\ part \in Parts
      /\ rest \in {<<"wal", "shm">>, <<"shm">>, <<>>} /\ rest \in Seq(Parts)
      /\ \A i \in 1..Len(rest) : /\ rest[i] \in Parts /\ rest[i] # part
                                 /\ quarantine[directory][rest[i]] = Absent
      /\ part # "main" => disk["main"] = Absent
  BY RestOfMove
<1>2. /\ directory \in DOMAIN quarantine /\ disk \in Files
      /\ \A d \in DOMAIN quarantine : quarantine[d] \in Files
      /\ moving' = [directory |-> directory, rest |-> rest]
      /\ UNCHANGED <<database, process, verified, report>>
  BY DEF IInv, TypeOK
<1>3. /\ disk' \in Files /\ disk'["main"] = Absent /\ disk'[part] = Absent
      /\ \A q \in Parts \ {part} : disk'[q] = disk[q]
  BY <1>1, <1>2, FilesConstants DEF Files, Parts, Absent
<1>4. /\ DOMAIN quarantine' = DOMAIN quarantine
      /\ \A d \in DOMAIN quarantine : quarantine'[d] \in Files
      /\ \A d \in DOMAIN quarantine, q \in Parts :
           quarantine'[d][q] = IF d = directory /\ q = part THEN disk[part]
                               ELSE quarantine[d][q]
  BY <1>1, <1>2 DEF Files
<1>5. TypeOK'
  BY <1>1, <1>2, <1>3, <1>4 DEF IInv, TypeOK
<1>6. FilesHaveDatabases'
  <2>1. Len(database) \in Nat
    BY DEF IInv, TypeOK
  <2> QED
    BY <1>1, <1>2, <1>3, <1>4, <2>1 DEF IInv, FilesHaveDatabases, Absent
<1>7. NoForeignWal'
  BY <1>3 DEF NoForeignWal
<1>8. MainKeepsItsWal'
  BY <1>3 DEF MainKeepsItsWal
<1>9. MovesMainFirst'
  <2>1. \A i \in 1..Len(rest) : quarantine'[directory][rest[i]] = Absent
    BY <1>1, <1>2, <1>4
  <2> QED
    BY <1>1, <1>2, <1>3, <2>1 DEF MovesMainFirst
<1> QED
  BY <1>2, <1>5, <1>6, <1>7, <1>8, <1>9
     DEF IInv, SealIsTrue, CorruptionIsReportedIdle, CorruptionIsReal

(* The environment, while no process runs. *)
LEMMA RemoveMainStep == ASSUME IInv, RemoveMain PROVE IInv'
<1> USE DEF RemoveMain
<1>1. /\ disk' \in Files /\ disk'["main"] = Absent
      /\ \A part \in Parts : disk'[part] \in {Absent, disk[part]}
  BY FilesConstants DEF IInv, TypeOK, Files, Parts, Absent
<1>2. TypeOK'
  BY <1>1 DEF IInv, TypeOK
<1>3. FilesHaveDatabases'
  BY <1>1 DEF IInv, TypeOK, FilesHaveDatabases, Absent
<1> QED
  BY <1>1, <1>2, <1>3 DEF IInv, NoForeignWal, MainKeepsItsWal, MovesMainFirst, SealIsTrue,
                          CorruptionIsReportedIdle, CorruptionIsReal

LEMMA RuinStep == ASSUME IInv, Ruin PROVE IInv'
<1> USE DEF Ruin
<1>1. disk["main"] \in 1..Len(database)
  BY DEF IInv, TypeOK, Files, Parts, FilesHaveDatabases, Absent
<1>2. database' \in Seq(Databases) /\ Len(database') = Len(database)
  <2>1. PICK damage \in {"pages", "header", "truncated"} :
          database' = [database EXCEPT ![disk["main"]].damage = damage]
    OBVIOUS
  <2>2. database[disk["main"]] \in Databases
    BY <1>1, ElementOfSeq DEF IInv, TypeOK
  <2>3. [database[disk["main"]] EXCEPT !.damage = damage] \in Databases
    BY <2>1, <2>2 DEF Databases
  <2> QED
    BY <1>1, <2>1, <2>3, ExceptSeq DEF IInv, TypeOK
<1> QED
  BY <1>2 DEF IInv, TypeOK, FilesHaveDatabases, NoForeignWal, MainKeepsItsWal,
              MovesMainFirst, SealIsTrue, CorruptionIsReportedIdle, CorruptionIsReal

LEMMA NextIInv == IInv /\ [Next]_vars => IInv'
<1> SUFFICES ASSUME IInv, [Next]_vars PROVE IInv'
  OBVIOUS
<1>1. CASE Start \/ BeginResolve \/ Cancel \/ ValidateFails \/ ValidateRefused
           \/ OpenUnavailable \/ OpenRefused \/ NoDirectory
           \/ RenameFails \/ Quarantined \/ Crash
  <2>1. UNCHANGED <<disk, database, quarantine>>
    BY <1>1 DEF Start, BeginResolve, Cancel, ValidateFails, ValidateRefused,
                OpenUnavailable, OpenRefused, NoDirectory, RenameFails, Quarantined, Crash
  <2> QED
    BY <1>1, <2>1, QuietSteps
<1>2. CASE CrashWhileOpening
  BY <1>2, CrashWhileOpeningStep
<1>3. ASSUME NEW password \in Passwords, Validate(password) PROVE IInv'
  BY <1>3, ValidateStep
<1>4. CASE OpenStorage
  BY <1>4, OpenStorageStep
<1>5. CASE OpenFails
  BY <1>5, OpenFailsStep
<1>6. CASE MigrationFails
  BY <1>6, MigrationFailsStep
<1>7. CASE Close
  BY <1>7, CloseStep
<1>8. ASSUME NEW time \in Times, BeginQuarantine(time) PROVE IInv'
  BY <1>8, BeginQuarantineStep
<1>9. CASE Skip
  BY <1>9, SkipStep
<1>10. CASE Rename
  BY <1>10, RenameStep
<1>11. CASE RemoveMain
  BY <1>11, RemoveMainStep
<1>12. CASE Ruin
  BY <1>12, RuinStep
<1>13. CASE UNCHANGED vars
  BY <1>13 DEF vars, IInv, TypeOK, FilesHaveDatabases, NoForeignWal, MainKeepsItsWal,
               MovesMainFirst, SealIsTrue, CorruptionIsReportedIdle, CorruptionIsReal
<1> QED
  BY <1>1, <1>2, <1>3, <1>4, <1>5, <1>6, <1>7, <1>8, <1>9, <1>10, <1>11, <1>12, <1>13
     DEF Next

(* The invariant holds in every reachable state, for any passwords, clock    *)
(* readings and numbers of databases and quarantines.                        *)
THEOREM Invariance == Spec => []IInv
  BY InitIInv, NextIInv, PTL DEF Spec

(* Every reachable state is well typed: in particular no quarantine is under *)
(* way that the process is not working on.                                   *)
THEOREM TypeCorrect == Spec => []TypeOK
<1>1. IInv => TypeOK
  BY DEF IInv
<1> QED
  BY <1>1, Invariance, PTL

(* open_database_classified: no WAL meets another database's main file.      *)
THEOREM WalsStayHome == Spec => []NoForeignWal
<1>1. IInv => NoForeignWal
  BY DEF IInv
<1> QED
  BY <1>1, Invariance, PTL

(* quarantine_database_files_in_directory: no main file is left at the path  *)
(* without the WAL it had.                                                   *)
THEOREM WalsFollowMain == Spec => []MainKeepsItsWal
<1>1. IInv => MainKeepsItsWal
  BY DEF IInv
<1> QED
  BY <1>1, Invariance, PTL

(* classify_open_failure: corruption is reported of damaged databases only.  *)
THEOREM CorruptionIsNeverGuessed == Spec => []CorruptionIsReal
<1>1. IInv => CorruptionIsReal
  BY DEF IInv
<1> QED
  BY <1>1, Invariance, PTL

-----------------------------------------------------------------------------
(* Evidence. *)

LEMMA StepKeepsEvidence ==
  ASSUME IInv, [Next]_vars,
         NEW d \in DOMAIN quarantine, NEW part \in DOMAIN quarantine[d],
         quarantine[d][part] # Absent
  PROVE  quarantine'[d][part] = quarantine[d][part]
<1>1. CASE Rename
  <2> DEFINE moved == Head(moving.rest)
  <2>1. quarantine[moving.directory][moved] = Absent
    BY <1>1, RestOfMove DEF Rename
  <2>2. quarantine' = [quarantine EXCEPT ![moving.directory][moved] = disk[moved]]
    BY <1>1 DEF Rename
  <2>3. ~(d = moving.directory /\ part = moved)
    BY <2>1
  <2> QED
    BY <2>2, <2>3
<1>2. ASSUME NEW time \in Times, BeginQuarantine(time)
      PROVE  quarantine'[d][part] = quarantine[d][part]
  BY <1>2 DEF BeginQuarantine
<1>3. CASE UNCHANGED quarantine
  BY <1>3
<1>4. \/ Rename \/ \E time \in Times : BeginQuarantine(time)
      \/ UNCHANGED quarantine
  BY DEF Next, vars, Start, CrashWhileOpening, BeginResolve, Cancel, Validate,
         ValidateFails, ValidateRefused, OpenStorage, OpenFails, MigrationFails,
         OpenUnavailable, OpenRefused, Close, NoDirectory, Skip, RenameFails,
         Quarantined, Crash, RemoveMain, Ruin
<1> QED
  BY <1>1, <1>2, <1>3, <1>4

(* quarantine_database_files_in_directory: what lies in a quarantine         *)
(* directory is never overwritten, by a retry or another quarantine.         *)
THEOREM EvidenceStays == Spec => EvidenceIsKept
<1> DEFINE Kept == \A d \in DOMAIN quarantine : \A part \in DOMAIN quarantine[d] :
                     quarantine[d][part] # Absent
                       => quarantine'[d][part] = quarantine[d][part]
<1>1. IInv /\ [Next]_vars => [Kept]_vars
  BY StepKeepsEvidence
<1> QED
  BY <1>1, Invariance, PTL DEF Spec, EvidenceIsKept

=============================================================================
