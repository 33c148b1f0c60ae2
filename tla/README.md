# DeepChat GPUI: a TLA+ model

DeepChat GPUI is a desktop chat client in Rust. Its services crate owns one
SQLite database file that survives crashes, upgrades, downgrades, wrong
passwords, damaged schemas and a second copy of the application, and derives
three projections from the tables of record. Its app crate is a window with a
text composer. This directory models the parts with state that is hard to keep
right, checks them with TLC, and proves with TLAPS, for every value of the
constants, the safety properties that the runs check.

```
tlc -workers 2 -config MCSchemaMigration.cfg MCSchemaMigration
tlapm SchemaMigrationProofs.tla     # and the other *Proofs modules
```

## 1. Inventory

Paths are relative to `src/crates/deepchat-services/src/` unless they say
otherwise.

| Component | State | Operations | What is hard | What makes it correct |
|---|---|---|---|---|
| Schema creation and migration: `schema.rs`, `production_schema.rs` | tables, columns, `schema_versions` | `create_static_schema`, `MigrationRunner::run`, finalizers, fresh marker | the mark is read outside the transactions; two instances; crash between creation and mark; failure inside a version; downgrade and upgrade | a mark is never ahead of the schema, no conversion twice, ready means current |
| Startup and repair: `startup.rs`, `schema_repair.rs`, `schema_diagnosis.rs` | loop flags, last diagnosis, backups | construct, diagnose, repair (checkpoint, backup, transaction), reopen, observe | second failures, stale diagnosis, backup of a file whose WAL is not yet in it | what is handed out is current or reported; nothing unbacked is changed; the loop ends |
| Database files: `connection.rs`, `password.rs`, `startup_recovery.rs` | main, `-wal`, `-shm`, quarantine directories, sealed password | open, validate, `Storage::open`, quarantine | crash between renames, partial quarantine, reused clock reading, passwords for new or plaintext files | a WAL meets only its own database, evidence stays, "corrupt" is said only of damage |
| Agent-memory mirror: `agent_memory_fts.rs` | FTS table, generations, ready flag, cooldown | `ensure_index`, upsert, bulk, delete, search, recover | savepoints in transactions, COMMIT failures, degraded bulk rows | a mirror in use is exact, a stale one says so, records are untouched, recovery |
| Tape search: `tape_search_projection.rs` | rows and full-text copy with one head each; `fts_ready` per owner | append, replace, delete, clear, search, search over several sources | several owners and connections, incremental append, COMMIT failures, drops that keep heads | the copy never runs ahead; level heads mean complete; failed writes leave nothing |
| Memory ingestion: `memory_ingestion_projection.rs` | Tape, one row per message, head | append, apply, replace, invalidate, delete | late or repeated entries, stale rebuilds, retractions | a current head has the right rows |
| Composer: `src/crates/deepchat-app/src/main.rs` | text, selection, marked range, snapshot, undo and redo, mouse button, submits; the clipboard | keys, mouse, clipboard, submit, input method's edits and queries, undo, redo | bytes, UTF-16 and graphemes; stale hits; compositions against undo and cut | nothing slices a character; history is walked, not changed; a cut can be pasted back |
| Transcript and native shell: `deepchat-app`, `deepchat-ui` | a scroll flag | painting | - | not modelled: view code |
| Secret store: keychain adapter | none | read, write, delete | - | not modelled: stateless mapping of an OS service |
| Catalog, SQL text, statement splitting | constant data | - | - | not modelled: text, covered by table-driven tests |
| Clock, error kinds | none | - | - | not modelled; readings are inputs of `DatabaseFiles` |
| Tools and CI | none | - | - | not modelled: build time |

How they interact. `Storage::open` resolves a password with `password.rs`, opens
a connection with `connection.rs` (orphan-WAL guard, key, pragmas) and runs the
startup loop; a construction is static creation followed by the migration
runner and the finalizer; a failed one is diagnosed, repaired through a second
connection, and constructed again. A failure of `Storage::open` is classified,
and the caller may then quarantine the three files. The three projections take
a connection of an open storage and share its write lock, its open transaction
and its tables, but not their in-memory flags. The composer does not talk to
the storage yet.

`PROJECT.json` lists, under `hazards`, every place in this code that is hard
to test, with the property that watches over it or the reason there is none.

## 2. Modules

| Module | Models | Composes / implements |
|---|---|---|
| `SchemaLedger` | abstract promise: objects are installed, or a version's objects, conversion and marker appear in one step | - |
| `DerivedIndex` | abstract promise: an index that calls itself up to date is right about its records; a stale one is brought back by upkeep, never by the next write | - |
| `SchemaMigration` | creation and migration by any number of instances | implements `SchemaLedger` |
| `StorageStartup` | the loop of `open_production`; a construction is one step | abstracts `SchemaMigration`'s run to its effect on issues |
| `DatabaseFiles` | opener, resolver, quarantine | - |
| `AgentMemoryFts`, `MemoryIngestion` | two of the projections | implement `DerivedIndex` |
| `TapeSearchProjection` | the third, whose copy does not keep that promise (`tape_search_dropped`) | - |
| `Composer` | the composer's editing state | - |
| `MC...` | one per module: constants for TLC | - |
| `...Proofs` | one per module that is not abstract: its theorems and their proofs | extends the module |

**SchemaMigration.** `exists`, `tables`, `shape`, `markers` are the file: is it
there, which owners have tables, which versions' objects it holds, which rows
`schema_versions` has. `shape` is what no query of the program returns and
every property is about. `pc`, `fresh`, `version` are the locals of one
instance, `writer` is SQLite's write lock. The actions follow
`open_production` in order: `Observe` (`existed_before`), `Open`,
`CreateStatic` (one transaction, `IF NOT EXISTS`; blocked when static SQL
indexes a column an older table lacks), `ReadHighWater` (`MAX(version)`, the
loop's range, the fresh shortcut), `MarkFresh`, and per version `BeginVersion`,
`CommitVersion` or `RollBackVersion`. `InstallBuild` changes `build` between
runs, up or down. `ValidatePassword` is the resolver's probe, which opens a
missing file and so creates it empty, before or between the instances'
observations: a file that "existed" may hold nothing at all. A version is the effect of its SQL and finalizer, not its
text. `ran` is a history variable.

**StorageStartup.** The database is the set of issues it has, split by who can
see and who can settle them, and whether migrations are recorded. `live` is
what a connection reads, `main` what the main file holds, so that a backup
(a copy of the main file) can miss what only the WAL holds. `Step` is the
disjunction of the stages of the loop, each with its failures; `Crash` may
follow each. A construction fails with a recognized schema error in static
creation, which is rolled back, or in the SQL of a pending version, after the
static schema and the versions before it were committed; it may do so again
after the repair, and the loop then judges by the new diagnosis. `Damage` is the environment: between two startups another release
or a tool takes something away from the file, so that a startup can meet a
backup older than the damage it repairs. `SharedFile` lets another connection block checkpoints: the pragma
says so in a row that `repair` does not read, and the backup then copies a main
file that misses what the WAL holds. `overlooked` remembers that this happened
to the repair in progress, and the statement about backups names the exception.

**DatabaseFiles.** Each of the three paths holds the number of the database it
belongs to; a database has a key and a damage. The path is empty at first, or
holds the database of an earlier release, plaintext or encrypted, closed or
left with its WAL. Opening creates a main file when
there is none and no WAL; the guard refuses an orphan WAL. Validation keeps a
password "sealed" until `Storage::open` consumes it and classifies the outcome.
`BeginResolve` and `BeginQuarantine` drop it: nothing in `src/` yet calls these
parts in sequence, the seal does not say for which file it was made, and a
password kept across a quarantine would promote the key mismatch of whatever
file is found next to `TrueCorruption`. That the caller drops it is an
assumption of the model.
`BeginQuarantine`, `Skip`, `Rename`, `RenameFails` move one file at a time, and
`CrashWhileOpening` and `Crash` stop the process in between. `RemoveMain` and
`Ruin` are the environment: a user deletes the file, a disk ruins it.

**AgentMemoryFts.** `disk` is committed, `seen` is the connection's view; they
differ while `leftOpen` names a transaction a failed call did not end.
`Mutate`, `MutateFails`, `CommitFails`, `MutateRefused` are the outcomes of
upsert, bulk upsert and delete, whole handlers with savepoint, dirty marks and
the generations; `Search` contains fallback, recovery and cooldown.
`RepairMemories` is schema repair changing `agent_memory` between sessions,
`Damage` a mirror table that becomes unreadable. What is on disk implements
`DerivedIndex`: `records` is `agent_memory`, `index` the mirror, `trusted` the
test of `ensure_index` on the generations. The promise is about the disk and
about connections without an open transaction. Inside the transaction that a
failed rebuild leaves open it does not hold: the table may have been dropped
by a session without trigram under generations that still agree, and a half-built one then counts as valid. No mutation
can succeed on such a connection (`agent_fts_refused`), and closing it undoes
the half-built table.

**TapeSearchProjection.** A store has the four tables: `rows` and `head` of the
projection, `table` and `ftsHead` of its full-text copy. `disk` is committed,
`seen` is what the connection `holder` sees whose transaction a failed COMMIT
left open. Two owners, on one connection or one each (`conn`), have a `ready`
flag each. `Write` is append, replace, delete and clear with their incremental
or full mirroring, in one transaction; `CommitFails`, `WriteFails` and
`WriteRefused` are its other ends. A search is a `call` with the stages of
`recover_session_fts`: the head is read (`BeginSearch`), then the rows
(`ReadRows`), then a transaction replaces the copy (`Rebuild`,
`RebuildUncommitted`, `RebuildFails`), or, when its unchecked BEGIN fails,
single statements do (`RebuildUnlocked`); another connection can write between
any two. `Answer` and `AnswerFails` are the query, the latter dropping the
table or failing to. `search_sources_read_only` changes nothing and is the
operators `UsesFts`, `FtsHits` and `LikeHits`. Two history variables name the
two ways in which a head comes to lie, so that everything else can be stated
without them: `unrecorded` (rows of the copy went away and the head stayed) and
`overtaken` (a rebuild mirrored rows that another connection had replaced
under the same head).

**MemoryIngestion.** Entry kinds are reduced to their effect on the projection.
`Append` projects in the Tape's transaction, `Insert` adds an entry without
projecting, `ApplyAppended` applies any entry at any time, `ReadTape` and
`Replace` are a rebuild from an earlier reading. It implements `DerivedIndex`
with the Tape as `records` and a head equal to the Tape's as `trusted`.
The tool flag of a row has three sources that do not agree: a message's first
version brings its own blocks, a later one appended keeps the flag that is
there (`Upserted`), and a rebuild counts tool calls only (`EffectiveRow`), while
`docs/plan/tasks/storage-002a-3.md:82` has a later version derive the flag from
its blocks. Two runs show the disagreements. The invariant on the flag,
`LaterToolCallsCount`, is what they have in common: a tool call after the
version that a row holds is in its flag, and no flag is without a cause. It
does not say that a flag is exact, and takes no side on a tool call that came
before a later version.

**Composer.** Characters are kinds that tell bytes, UTF-16 units and graphemes
apart. `MouseDown` and `MouseMove` take a hit from a layout painted for another
text (`Hits`); the input-method actions take arbitrary UTF-16 ranges, and what
it is told goes through `ToUtf16`. `Cut` is copy and replacement, which during a
composition are about different ranges. `Submit` counts an attempt and keeps
the draft, as the code does.

`PROJECT.json` maps every definition to its lines. Operators under a comment
"Seeded fault of X" are not used by the specification: each is X with a
plausible bug, and one of the properties fails when it takes the place of X
(`mutants`), so no property holds for want of anything to refute it.

## 3. Runs

| Run | States | Shows |
|---|---|---|
| `migration` | two instances, four versions, two owners | no mark without its schema, no version twice, ready means current, with probes that create the file; every step is a ledger step |
| `startup` | one file, six kinds of issue, all subsets, one damage between startups | unreported means current, the reported counts are the file's, nothing a repair settles outlives the one repair, repair only after a backup of exactly this state unless a checkpoint was blocked, the loop ends |
| `database_files` | no or an earlier database, then up to two; two passwords, two quarantines, one clock reading | foreign WALs, WALs taken away, overwritten evidence, false corruption: none |
| `agent_fts` | two memories, generation up to 3, two faults | the mirror in use is exact, valid generations are true on disk and agree again only through a rebuild, mutations are all or nothing, recovery |
| `agent_fts_refused` (violated) | one fault | an owner whose opening fails in the rebuild blocks the mutations of the next one on its connection |
| `tape_search` | two owners on one or two connections, two sessions of one entry, two texts, one fault | no copy without its row, level means complete, sources find only what is projected, failed writes leave nothing, searches rebuild first |
| `tape_search_dropped` (violated) | one owner | a dropped table leaves true-looking heads |
| `ingestion` | one message, all Tapes of four entries | current rows are right, tool calls after a version are in its flag, appends report the truth and make no stale session current |
| `ingestion_rebuild` (violated) | same | a rebuild loses the tool flag of a message's own blocks |
| `ingestion_versions` (violated) | same | a version with tool blocks, appended over one without, does not set the flag |
| `composer` | two characters, two history entries, one submit | no slice inside a character, history walked not changed, compositions recorded, the input method's offsets come back, cuts can be pasted |
| `composer_undo` (violated) | with combining marks | undo inside a composition loses the draft |

The violated runs state what a document or a test of the repository says;
`findings` quotes it and describes the counterexample.

### Bounds, and why they are enough

- *migration*: two instances give every race of two readers of one mark; a
  third only repeats them. Four versions and two owners give: an owner with
  several versions, one introduced late, and a version whose column static SQL
  indexes. The proofs drop all of these bounds.
- *startup*: one member per combination of "who sees it" and "who settles it"
  that the catalog contains; two members of a class are treated alike. One
  damage between startups (`MaxDamages`) is what it takes for a backup to be
  older than the damage; a second adds no new kind of state.
- *database_files*: an old and a new database, an old and a new quarantine, one
  reading of the clock so that names collide; passwords are symmetric. Every
  hazard needs two of each, none three.
- *agent_fts*: `MaxGeneration` = 3 is an initial generation, a mutation and one
  after it; two faults give a failure during the recovery from a failure.
  `DropMayFail` is `FALSE`: a `DROP` on the table's only connection fails only
  in ways that also fail the statements after it.
- *tape_search*: one fault is enough for the heads of the two tables to part
  and for a transaction to stay open. Two connections are one that rebuilds
  and one that writes meanwhile; whether the owners share one is chosen in the
  initial state. One entry between two heads is a session that is behind and a
  source that may not read all; two texts are an entry replaced by another.
  Owners, connections, sessions and texts are symmetric. The `VIEW` leaves out
  `outcome`, which no step reads: two states that differ in it alone have the
  same steps, and the action properties only read its next value.
- *ingestion*: sessions never read each other's rows and messages only meet in
  the head, so one message; four entries hold message, tool call, retraction
  and new version. The Tape is full after four entries and everything may be
  projected then: `CHECK_DEADLOCK FALSE`.
- *composer*: `emoji` is a surrogate pair of four bytes, the kind that
  separates all offsets. `MaxEdits` bounds both stacks; guards refuse an edit
  the history would not hold. `MaxSubmits` bounds a counter that only `Submit`
  reads; the `VIEW` leaves it out. `composer_undo` adds combining
  marks; in the main run they would multiply the states beyond reach, so that
  the other kinds of characters are covered by the proofs, which are for any
  kinds, and the main run shows surrogate pairs only.

### Fairness

- `StorageStartup` has `WF(Step)`: `open_production` is sequential code, a
  startup in progress takes its next step unless the process dies. Nothing is
  assumed about starting, and no branch is preferred, so a repair may fail or
  settle nothing again and again.
- `AgentMemoryFts` has `WF(Search)` and `WF(CooldownEnds)`: recovery is only
  tried by a search after the cooldown, so callers must search and time must
  pass. Mutations and faults are not fair; faults are bounded by `MaxFaults`.

The other properties are safety and need none.

## 4. Proofs

Every safety invariant, action property and refinement that a passing run
checks is a theorem of the specification. Each proof module states an inductive
invariant `IInv`, proves `Init => IInv` and that every step keeps it, one lemma
or step per action, and derives the rest from it. Each rests on one named
assumption about the constants, in the module that declares them, which TLC
evaluates on every run; and on the library's theorems on finite sets,
sequences and well-founded orders.

### SchemaMigrationProofs

Proved for any number of instances, versions and
owners and any assignment of versions to owners:

| Theorem | Statement |
|---|---|
| `TypeCorrect` | `Spec => []TypeOK` |
| `Invariance` | `Spec => []IInv` |
| `MarkIsBacked` | `Spec => []MarkedVersionsAreProvided` |
| `ConversionsRunOnce` | `Spec => []MigratesOnce` |
| `ReadyMeansCurrent` | `Spec => []ReadyIsCurrent` |
| `RefinesLedger` | `Spec => ImplementsLedger` |

The only assumption is `MigrationConstants`: `None` is no instance, there is at
least one version, each version has an owner, `Indexed` is a set of versions.

None of the three safety invariants is inductive alone. A mark is backed
because the loop that writes it stands on a complete prefix (`LoopOnPrefix`),
which it does because it started at a mark that was backed or, when there was
none, at 0 on top of whatever is there; the fresh shortcut writes the newest mark
without running anything, and is right because a file that did not exist can
only have been made by this build (`FreshFileIsFull`, with `AbsentFileIsEmpty`
and `OpenedFileExists` to start it, `StaticCreated` to know the tables are
there and `OnlyFreshMarks` to know who marks). `FreshFileIsFull` is where the
proof uses that builds change only while nothing runs. A version runs once
because what has run is marked (`RanIsMarked`) and the marker's primary key
refuses a second row in the same transaction; `LoopInRange` keeps the loop
inside the catalog. The refinement uses `IInv` for the commits and the fresh
mark; every other step, crashes included, leaves the ledger as it is or
installs objects. A probe that creates the file (`ValidatePassword`) keeps
everything: an instance that observed no file before it still finds an empty
one that only this build fills, and one that observes it later migrates from 0.

### DatabaseFilesProofs

Proved for any passwords and clock readings and any bounds on databases and
quarantines:

| Theorem | Statement |
|---|---|
| `TypeCorrect` | `Spec => []TypeOK` |
| `Invariance` | `Spec => []IInv` |
| `WalsStayHome` | `Spec => []NoForeignWal` |
| `WalsFollowMain` | `Spec => []MainKeepsItsWal` |
| `CorruptionIsNeverGuessed` | `Spec => []CorruptionIsReal` |
| `EvidenceStays` | `Spec => EvidenceIsKept` |

The only assumption is `FilesConstants`: passwords, the plaintext key `None`
and the undecided key `Unkeyed` are told apart, at least one database may exist.

The invariant adds to the properties what each rests on. `FilesHaveDatabases`
says that the number on a file, at the path or in quarantine, is that of a
database created; the number of a new database is therefore on no file, and a
new main file beside no WAL (the guard) meets none. `MovesMainFirst` says that
once the first file is passed the main file is gone from the path, which is
where the order of `Sources` enters, and that the names still to be filled in
the quarantine directory are free, which is why a rename covers nothing.
`SealIsTrue` says that a sealed password is the key of the database at the
path: it is why a key mismatch under a verified password means damage, and
every step keeps it because whatever may replace the database drops the seal.
`CorruptionIsReportedIdle` ties the report to the state it was made in.
`EvidenceStays` also needs the directory of a quarantine to be new
(`DirectoryIsNew`, from the least unused number of a clock reading).

### StorageStartupProofs

Proved for any sets of issues, however they divide into those a diagnosis
sees, a construction settles, a repair settles and maintenance touches, and for
any number of damages between startups:

| Theorem | Statement |
|---|---|
| `TypeCorrect` | `Spec => []TypeOK` |
| `Invariance` | `Spec => []IInv` |
| `OpenIsCurrent` | `Spec => []UnreportedMeansCurrent` |
| `ReportsAreOfThisFile` | `Spec => []ObservationMatchesFile` |
| `RepairsSettleWhatTheyCan` | `Spec => []OnlyManualIssuesOutliveARepair` |
| `RepairsAreBackedUp` | `Spec => RepairsOnlyBackedUpState` |

`StartupConstants` says that the classes of issues are disjoint where the
catalog's are. The invariant adds what the loop knows at each stage: an
initialization that ends as done recorded the migrations (`DoneIsMigrated`);
the diagnosis the loop judges by is that of the file it hands out and not of
the one before the repair (`JudgedByThisFile`); between checkpoint and repair
nothing moves the main file away from what the connection reads, unless the
checkpoint was blocked, and the backup is a copy of that main file
(`BackupPrecedesRepair`); once the one repair has been applied nothing repairable is left,
which no later construction or maintenance can undo (`RepairIsComplete`).

### AgentMemoryFtsProofs

Proved for any memories, texts, generations and number of faults:

| Theorem | Statement | Hypothesis |
|---|---|---|
| `TypeCorrect` | `Spec => []TypeOK` | - |
| `MutationsHold` | `Spec => MutationsAreAllOrNothing` | - |
| `Invariance` | `Spec => []IInv` | `~DropMayFail` |
| `ReadyIsExact` | `Spec => []ReadyMirrorIsExact` | `~DropMayFail` |
| `ValidIsExact` | `Spec => []ValidOnDiskIsExact` | `~DropMayFail` |
| `RefinesDerivedIndex` | `Spec => MirrorIsADerivedIndex` | `~DropMayFail` |

The hypothesis is about the environment: a session without trigram ignores the
result of the `DROP` of the mirror and then writes memories without touching
the generations. With one connection to the table the drop fails only in ways
that fail the statements after it too; were it to fail alone, a later session
with trigram would trust a mirror that missed those writes, and the three
theorems would be false. `FtsConstants` says that the marks for no meta row, no
table and a hidden row are told from values, and that there are finitely many
memories.

A mirror in use is exact because an owner that trusts it does so on valid
generations (`ReadyIsValid`), and it was built by a session with trigram
(`ReadyIsTrigram`); generations that agree on disk tell the truth because
nothing changes memories behind them: a session that does not mirror has no
mirror on disk (`UnmirroredIsAbsent`). `SeenIsCommitted` confines the transaction
that a failed call left open to the connection that has it.

### MemoryIngestionProofs

Proved for any messages and any length and contents of the Tape:

| Theorem | Statement |
|---|---|
| `TypeCorrect` | `Spec => []TypeOK` |
| `Invariance` | `Spec => []IInv` |
| `CurrentIsExact` | `Spec => []CurrentRowsAreTheLastVersions` |
| `LaterToolCallsAreRecorded` | `Spec => []LaterToolCallsCount` |
| `AppendsAreReported` | `Spec => AppendsReportTruthfully` |
| `RefinesDerivedIndex` | `Spec => RowsAreADerivedIndex` |

`IngestionConstants` says that there is an entry at all and that the marks for
no row, no head and an older projection are no values.

The properties speak of a head that is the Tape's, which is not inductive: a
head lags behind, entries are applied twice, late or ahead of it, and a delete
leaves rows under no head. `RowsKeepUp` says what a row is worth at whatever
head it has: it names a final version (`FromTape`), which is the last one up to
the head or one from beyond it (`IsLast`); a row is missing only when no
version up to the head calls for one, or when the next entry to be applied is a
retraction that was applied ahead (`IsMissing`); its tool flag knows every call
up to the head that follows its version (`FlagIsSet`) and has a cause that
still counts (`FlagIsTrue`). `SnapshotIsPrefix` is what makes a rebuild
from an earlier reading right: the Tape only grows, so an old reading is the
Tape up to some entry, and the head is set to that entry.

### TapeSearchProjectionProofs

Proved for any owners, connections, sessions, entries, texts and faults:

| Theorem | Statement |
|---|---|
| `TypeCorrect` | `Spec => []TypeOK` |
| `Invariance` | `Spec => []IInv` |
| `CopiedRowsAreProjected` | `Spec => []FtsRowsAreProjected` |
| `LevelIsMirrored` | `Spec => []LevelMeansMirrored` |
| `SourceHitsAreRight` | `Spec => []SourceHitsAreProjected` |
| `FailedWritesAreUndone` | `Spec => FailedWritesLeaveNoTrace` |
| `SearchesMirrorFirst` | `Spec => SearchRebuildsWhatIsBehind` |

`SearchConstants` says that entries and heads are numbers and that the marks
are no values.

The invariant is about both stores, what is committed and what an open
transaction sees, and about every session of each. `GoodSession` holds at all
times, also of what earlier releases left and before a projection is there to
prune it: under valid level heads the copy holds only projected rows unless a
rebuild was overtaken, and all of them unless rows vanished without their head;
what pruning will keep is worth keeping; and no head waits for a table that is
made in the place of a dropped one. `PrunedSession` holds once someone serves.
`CallsHaveOwners` ties a search under way to its owner's connection, and
`NobodyOvertakes` says why one connection is enough: nobody writes between a
search's reading and its rebuilding. `FtsRowsAreProjected` and
`SearchRebuildsWhatIsBehind` are about one connection for that reason.

### ComposerProofs

Proved for any kinds of characters, texts of any length and any length of the
history:

| Theorem | Statement |
|---|---|
| `TypeCorrect` | `Spec => []TypeOK` |
| `Invariance` | `Spec => []IInv` |
| `SelectionsCanBeSliced` | `Spec => []SelectionsAreSliceable` |
| `MarkedIsComposed` | `Spec => []MarkedTextIsComposed` |
| `RangesRoundTrip` | `Spec => []InputMethodNamesTheSameText` |
| `TimelineIsKept` | `Spec => HistoryIsWalked` |
| `CompositionsAreRecorded` | `Spec => CompositionsEndInHistory` |
| `CutsCanBeUndoneByPasting` | `Spec => CutsCanBePastedBack` |

`ComposerConstants` says that the kinds of characters are among the three, and
that `None` is no text and no snapshot. The bounds are any numbers: an edit
that would pass one is refused in the model, so what is proved holds of all
shorter texts and histories.

The core is about texts. Every character takes at least a byte and a unit, so
the offset before a character grows with its place (`AtGrows`), a boundary
belongs to one character (`BoundaryFacts`), and the last boundary at or before
the unit of a boundary is that boundary (`FromUtf16Facts`). Bytes add up when
texts are joined (`JoinedBytes`), so offsets before a replacement stay and
those inside count from its start (`SpliceOffsets`, `SplicedFacts`): that is
why the cursor after an edit, the marked range and the selection inside a
composed text are boundaries of the new text, for any range that hits, keys or
the input method name. The invariant says that all ranges are sound for the
text they are kept with, snapshots included (`DraftIsSound`,
`CompositionIsSound`, `HistoryIsSound`), that marked text is composed, and that
a composition leaves nothing to redo, without which a redo in a composition
would end it with another draft on top of the history. The timeline is kept
because undo and redo are one step in opposite directions (`StepBack`), and a
cut comes back because taking the selection out and putting it in at the
caret are inverse (`SplicedBack`).

### Only model-checked

Liveness: `StartupEnds` and `MirrorRecovers` rest on fairness, which is outside
the prover's reach. The violated runs are counterexamples, found by TLC. The
abstract modules are specifications only: what they promise is what the
refinements prove of the detailed ones.

## 5. Not modelled

- Rendering, layout, key bindings. Scrolling: the transcript's one flag is
  only read and set from the list's own state. Keychain, clock, catalog text,
  statement splitting, tools.
- `StorageStartup`: duration and failure category of the observation; another
  connection that writes during a repair; the repair service called by itself
  with the full catalog.
- `SchemaMigration`: version 42 raises the policy version of a memory mirror
  built before it when both lifecycle columns were missing. A startup does not
  get there: the static indexes name these columns, so the file is repaired
  first, which adds them and deletes the mirror's meta row (`RepairMemories`).
- `AgentMemoryFts`: ranking, scopes, match modes; a second owner, whose
  unmirrored writes the first would count as mirrored; a mirror that resists
  being dropped (`DropMayFail`).
- `TapeSearchProjection`: filters, ranking, merging, which change no state; the
  row ids the copy takes over from the projection.
- The projections on one connection share its open transaction; each module
  has its own. A transaction that a failed memory mutation left open would be
  ended by the next Tape search that rebuilds its copy.
- `MemoryIngestion`: JSON parsing. Ids of the Tape grow: the code would accept
  an id behind the head, project it and report so while the session is stale.
  A COMMIT that fails in `finish` and is not rolled back
  (`memory_ingestion_projection.rs:553`) is left out here; the other two
  projections have the like, and their modules model it.
- SQLite itself is external: atomic transactions, one writer, WAL replay, and
  an unfinished transaction undone at a crash are taken from it.

## 6. Plan

Done, in the order of what a user can lose: `SchemaLedger`, `SchemaMigration`;
`StorageStartup`; `DatabaseFiles`; the three projections; `DerivedIndex`;
`Composer`; the proofs of the safety properties of all of them.

Next:

1. Model: compose `StorageStartup` with `DatabaseFiles` (construction over the
   file actually opened, a leftover shared-memory index); the projections on
   one connection, with the transactions they leave to each other.
2. Prove: the part of the promise of `DerivedIndex` that `TapeSearchProjection`
   keeps (between a drop and the next rebuild its heads lie, so it is not a
   refinement as it stands); the composition of 1.
