--------------------------- MODULE StorageStartup ---------------------------
(***************************************************************************)
(* The startup loop of Storage::open_production: initialize, diagnose,     *)
(* repair at most once through a second connection, reopen, and decide     *)
(* whether the caller gets a storage.  Creation and migration are one step *)
(* here; module SchemaMigration opens them up.                             *)
(*                                                                         *)
(* What the file contains is the set of schema issues it has and whether   *)
(* its migrations are recorded.  In WAL mode a commit changes "live" only; *)
(* "main", the database file that the backup copies, follows at a          *)
(* checkpoint.                                                             *)
(***************************************************************************)
EXTENDS FiniteSets, Naturals

CONSTANTS
  Repairable,   \* missing tables, indexes and columns with an add_column_sql
  Manual,       \* type mismatches and columns that cannot be added
  Unseen,       \* damage only assert_current_schema looks for
  Static,       \* issues the CREATE ... IF NOT EXISTS blocks settle
  Added,        \* issues the pending migrations settle
  Blocking,     \* missing columns that static index SQL already names
  Maintained,   \* issues maintain_agent_memory_indexes settles
  SharedFile,   \* another connection may block checkpoints
  MaxDamages    \* bound on the damage done between startups

Seen == Repairable \cup Manual
Issues == Seen \cup Unseen

ASSUME StartupConstants ==
  /\ Repairable \cap Manual = {} /\ Seen \cap Unseen = {}
  /\ Static \subseteq Repairable
  /\ Added \subseteq Issues /\ Blocking \subseteq Seen \ Static
  /\ Maintained \subseteq Issues
  /\ SharedFile \in BOOLEAN
  /\ MaxDamages \in Nat

VARIABLES
  live,        \* what a connection sees
  main,        \* what the main file holds without its WAL
  backups,     \* contents of the .repair.bak files
  pc,          \* where the loop is
  attempted,   \* repair_attempted
  init,        \* outcome of the last initialization
  diagnosis,   \* schema_outcome
  counted,     \* issues behind repairable and manual
  before,      \* the diagnosis the repair works from
  observed,    \* the last DatabaseInitializationObservation
  damages,     \* how often the file was damaged between startups
  overlooked   \* history: the last repair's checkpoint was blocked, unnoticed

file == <<live, main, backups>>
progress == <<attempted, init, diagnosis, counted>>
past == <<damages, overlooked>>
vars == <<file, pc, progress, before, observed, past>>

Contents == [damage : SUBSET Issues, migrated : BOOLEAN]

Steps == {"closed", "opening", "initializing", "diagnosing", "judging",
          "repairing", "inspecting", "checkpointing", "copying", "applying",
          "rechecking", "reopening", "open", "refused"}

NotObserved == [outcome |-> "none", attempted |-> FALSE,
                diagnosis |-> "notCompleted", issues |-> {}]

TypeOK ==
  /\ live \in Contents /\ main \in Contents
  /\ backups \subseteq Contents
  /\ pc \in Steps
  /\ attempted \in BOOLEAN
  /\ init \in {"none", "done", "schema", "other"}
  /\ diagnosis \in {"notCompleted", "completed", "unavailable"}
  /\ counted \subseteq Seen /\ before \subseteq Seen
  /\ observed \in [outcome : {"none", "completed", "failed"}, attempted : BOOLEAN,
                   diagnosis : {"notCompleted", "completed", "unavailable"},
                   issues : SUBSET Seen]
  /\ damages \in 0..MaxDamages
  /\ overlooked \in BOOLEAN

-----------------------------------------------------------------------------
Without(content, settled) == [content EXCEPT !.damage = @ \ settled]

(* Seeded fault of Diagnosed: everything is compared, not the startup catalog. *)
DiagnosedAll(content) == content.damage

(* SchemaInspector::diagnose over the startup catalog. *)
Diagnosed(content) == content.damage \cap Seen

Init ==
  /\ live \in Contents
  /\ main = live
  /\ backups = {}
  /\ pc = "closed"
  /\ attempted = FALSE /\ init = "none"
  /\ diagnosis = "notCompleted" /\ counted = {}
  /\ before = {}
  /\ observed = NotObserved
  /\ damages = 0 /\ overlooked = FALSE

(* The observation is built once, whatever way the loop was left. *)
Finish(outcome) ==
  /\ pc' = (IF outcome = "completed" THEN "open" ELSE "refused")
  /\ observed' = [outcome |-> outcome, attempted |-> attempted',
                  diagnosis |-> diagnosis', issues |-> counted']
  /\ UNCHANGED past

Proceed(step) == pc' = step /\ UNCHANGED <<observed, past>>

(* Closing the last connection checkpoints, as far as it can, and reports no *)
(* error when it cannot.                                                     *)
CloseConnection == main' \in {main, live'}

(* The locals of a call, as it begins and when they are gone. *)
Fresh ==
  /\ attempted' = FALSE /\ init' = "none"
  /\ diagnosis' = "notCompleted" /\ counted' = {}
  /\ before' = {} /\ observed' = NotObserved
  /\ UNCHANGED past

Start ==
  /\ pc = "closed" /\ pc' = "opening"
  /\ Fresh
  /\ UNCHANGED file

(* Orphan WAL, I/O failure, unreadable or corrupt file, or an injected fault *)
(* at the reopen; an opened file goes on to initialize.                      *)
OpenDatabase ==
  /\ pc = "opening"
  /\ UNCHANGED <<file, progress, before>>
  /\ Proceed("initializing") \/ Finish("failed")

(* What the migrations still to run settle. *)
Pending == IF live.migrated THEN {} ELSE Added

(* initialize_before_assert succeeds. *)
Initialize ==
  /\ pc = "initializing"
  /\ live.damage \cap Blocking = {}
  /\ live' = [damage |-> live.damage \ (Static \cup Pending), migrated |-> TRUE]
  /\ init' = "done"
  /\ Proceed("diagnosing")
  /\ UNCHANGED <<main, backups, attempted, diagnosis, counted, before>>

(* A recognized schema error.  Static index SQL names a column the old table *)
(* lacks, and the creation transaction is rolled back; or the SQL of a       *)
(* pending version names something the file lacks, after the static schema   *)
(* and any of the versions before it were committed.                         *)
FailOnSchema ==
  /\ pc = "initializing"
  /\ \/ live.damage \cap Blocking # {} /\ UNCHANGED live
     \/ /\ live.damage \cap Blocking = {} /\ ~live.migrated
        /\ \E settled \in SUBSET Pending : live' = Without(live, Static \cup settled)
  /\ init' = "schema"
  /\ Proceed("diagnosing")
  /\ UNCHANGED <<main, backups, attempted, diagnosis, counted, before>>

(* A busy or full disk, a refused marker, a finalizer: not recognized.  What *)
(* was committed before the failure stays.                                   *)
FailUnrecognized ==
  /\ pc = "initializing"
  /\ \E settled \in SUBSET (IF live.damage \cap Blocking # {} THEN {} ELSE Static \cup Pending) :
       live' = Without(live, settled)
  /\ init' = "other"
  /\ Proceed("diagnosing")
  /\ UNCHANGED <<main, backups, attempted, diagnosis, counted, before>>

(* Corruption shows up: the connection is closed and nothing is diagnosed.   *)
FailDestructively ==
  /\ pc = "initializing"
  /\ UNCHANGED <<live, backups, progress, before>>
  /\ CloseConnection
  /\ Finish("failed")

(* Seeded fault of NeedsRepair: the one-shot flag is not consulted. *)
NeedsRepairAgain(issues) ==
  init = "schema" \/ (init = "done" /\ issues \cap Repairable # {})

(* One repair per startup: for a recognized schema error whatever the        *)
(* diagnosis says, after a successful initialization for repairable issues.  *)
NeedsRepair(issues) ==
  /\ ~attempted
  /\ init = "schema" \/ (init = "done" /\ issues \cap Repairable # {})

(* Seeded fault of Diagnose: the counts of the first diagnosis are kept. *)
DiagnoseFirst ==
  /\ pc = "diagnosing"
  /\ diagnosis' = "completed"
  /\ counted' = (IF attempted THEN counted ELSE Diagnosed(live))
  /\ Proceed(IF NeedsRepair(Diagnosed(live)) THEN "repairing" ELSE "judging")
  /\ UNCHANGED <<file, attempted, init, before>>

(* The diagnosis of the loop; when it cannot be read the counts of an        *)
(* earlier one stay behind.                                                  *)
Diagnose ==
  /\ pc = "diagnosing"
  /\ \/ /\ diagnosis' = "completed"
        /\ counted' = Diagnosed(live)
        /\ Proceed(IF NeedsRepair(counted') THEN "repairing" ELSE "judging")
     \/ /\ diagnosis' = "unavailable"
        /\ UNCHANGED counted
        /\ Proceed(IF NeedsRepair({}) THEN "repairing" ELSE "judging")
  /\ UNCHANGED <<file, attempted, init, before>>

IssuesRemain == diagnosis = "completed" /\ counted # {}

(* A failed construction is accepted when a repair was tried and the         *)
(* diagnosis still lists something.                                          *)
JudgeFailure ==
  /\ pc = "judging"
  /\ init # "done"
  /\ UNCHANGED <<live, backups, progress, before>>
  /\ \/ attempted /\ IssuesRemain /\ Finish("completed") /\ UNCHANGED main
     \/ ~(attempted /\ IssuesRemain) /\ CloseConnection /\ Finish("failed")

(* Seeded fault of JudgeSuccess: assert_current_schema is never asked. *)
JudgeUnasserted ==
  /\ pc = "judging"
  /\ init = "done"
  /\ UNCHANGED <<file, progress, before>>
  /\ Finish("completed")

(* assert_current_schema runs unless the diagnosis listed something; what it *)
(* maintains on the way stays even when it then finds something missing.     *)
JudgeSuccess ==
  /\ pc = "judging"
  /\ init = "done"
  /\ UNCHANGED <<backups, progress, before>>
  /\ \/ IssuesRemain /\ UNCHANGED <<live, main>> /\ Finish("completed")
     \/ /\ ~IssuesRemain
        /\ live.damage \cap Unseen \subseteq Maintained
        /\ live' = Without(live, Maintained)
        /\ UNCHANGED main
        /\ Finish("completed")
     \/ /\ ~IssuesRemain
        /\ live' \in {live, Without(live, Maintained)}
        /\ CloseConnection
        /\ Finish("failed")

(* Close, and open the connection the repair works on. *)
OpenRepair ==
  /\ pc = "repairing"
  /\ attempted' = TRUE
  /\ UNCHANGED <<live, backups, init, diagnosis, counted, before>>
  /\ CloseConnection
  /\ Proceed("inspecting") \/ Finish("failed")

(* Seeded fault of Inspect: the repair works from the diagnosis of the loop. *)
InspectCounted ==
  /\ pc = "inspecting"
  /\ before' = counted
  /\ Proceed(IF before' \cap Repairable = {} THEN "reopening" ELSE "checkpointing")
  /\ UNCHANGED <<file, progress>>

(* DatabaseRepairService::repair diagnoses again; without a repairable issue *)
(* it does nothing.                                                          *)
Inspect ==
  /\ pc = "inspecting"
  /\ UNCHANGED <<file, progress>>
  /\ \/ /\ before' = Diagnosed(live)
        /\ Proceed(IF before' \cap Repairable = {} THEN "reopening" ELSE "checkpointing")
     \/ UNCHANGED before /\ Finish("failed")

(* PRAGMA wal_checkpoint(TRUNCATE) reports a checkpoint that another          *)
(* connection blocks in its result row, which nobody reads, not as an error.  *)
Checkpoint ==
  /\ pc = "checkpointing"
  /\ UNCHANGED <<live, backups, progress, before>>
  /\ \/ /\ main' \in {live} \cup (IF SharedFile THEN {main} ELSE {})
        /\ overlooked' = (main' # live)
        /\ pc' = "copying" /\ UNCHANGED <<observed, damages>>
     \/ UNCHANGED main /\ Finish("failed")

(* Seeded fault of CopyBackup: a failed copy does not stop the repair. *)
CopyBackupIfPossible ==
  /\ pc = "copying"
  /\ UNCHANGED <<live, main, progress, before>>
  /\ backups' \in {backups, backups \cup {main}}
  /\ Proceed("applying")

CopyBackup ==
  /\ pc = "copying"
  /\ UNCHANGED <<live, main, progress, before>>
  /\ \/ backups' = backups \cup {main} /\ Proceed("applying")
     \/ UNCHANGED backups /\ Finish("failed")

(* One transaction with every repair and hook; a hook also re-installs       *)
(* artifacts the diagnosis does not know.  Any error rolls all of it back.   *)
ApplyRepairs ==
  /\ pc = "applying"
  /\ UNCHANGED <<main, backups, progress, before>>
  /\ \/ /\ \E installed \in SUBSET Unseen :
             live' = Without(live, (before \cap Repairable) \cup installed)
        /\ Proceed("rechecking")
     \/ UNCHANGED live /\ Finish("failed")

(* A second diagnosis for the report; when it fails the startup does, with   *)
(* the repair already committed.                                             *)
Recheck ==
  /\ pc = "rechecking"
  /\ UNCHANGED <<file, progress, before>>
  /\ Proceed("reopening") \/ Finish("failed")

CloseRepair ==
  /\ pc = "reopening"
  /\ UNCHANGED <<live, backups, progress, before>>
  /\ CloseConnection
  /\ Proceed("opening") \/ Finish("failed")

(* Storage::close, or the caller gives up on the error. *)
Close ==
  /\ pc \in {"open", "refused"} /\ pc' = "closed"
  /\ Fresh
  /\ UNCHANGED <<live, backups>>
  /\ CloseConnection

(* The WAL survives the process. *)
Crash ==
  /\ pc \notin {"closed", "refused"} /\ pc' = "closed"
  /\ Fresh
  /\ UNCHANGED file

(* Between two startups another release or a tool takes something away.      *)
Damage ==
  /\ pc = "closed" /\ damages < MaxDamages
  /\ \E issue \in Issues \ live.damage :
       live' = [live EXCEPT !.damage = @ \cup {issue}]
  /\ main' = live'
  /\ damages' = damages + 1
  /\ UNCHANGED <<backups, pc, progress, before, observed, overlooked>>

Construct == Initialize \/ FailOnSchema \/ FailUnrecognized \/ FailDestructively

Repair == Inspect \/ Checkpoint \/ CopyBackup \/ ApplyRepairs \/ Recheck

Step ==
  \/ OpenDatabase
  \/ Construct
  \/ Diagnose
  \/ JudgeFailure
  \/ JudgeSuccess
  \/ OpenRepair
  \/ Repair
  \/ CloseRepair

Next ==
  \/ Start
  \/ Step
  \/ Close
  \/ Crash
  \/ Damage

Spec == Init /\ [][Next]_vars

(* A startup that is running goes on; nothing makes anybody start one. *)
FairSpec == Spec /\ WF_vars(Step)

-----------------------------------------------------------------------------
(* Correctness. *)

(* The repair transaction never changes a database of which no backup with   *)
(* exactly these contents exists: not after a checkpoint or copy that failed, *)
(* a close that left the WAL behind, or an earlier backup of an older state. *)
(* The exception is a checkpoint that another connection blocks: its result  *)
(* is not read, and the backup is of the main file as it was.                *)
RepairsOnlyBackedUpState ==
  [][pc = "applying" /\ live' # live => (IF overlooked THEN main ELSE live) \in backups]_vars

(* A storage is handed out either with an issue the observation reports, or  *)
(* with nothing wrong at all: every migration recorded and no damage the     *)
(* diagnosis or the finalizer looks for, whatever failed on the way.         *)
UnreportedMeansCurrent ==
  pc = "open" /\ observed.issues = {} /\ observed.diagnosis = "completed"
    => live.migrated /\ live.damage \cap Issues = {}

(* The counts of a completed startup with a completed diagnosis are those of *)
(* the file that was handed out, not those from before the repair.           *)
ObservationMatchesFile ==
  pc = "open" /\ observed.diagnosis = "completed" => observed.issues = Diagnosed(live)

(* The loop ends although a repair may settle nothing and leave the same     *)
(* construction error or the same manual issues behind.                      *)
StartupEnds == pc = "opening" ~> pc \in {"open", "refused", "closed"}

(* After its one repair a startup hands out a file only with issues that no  *)
(* repair settles, and with a construction that failed again only when they  *)
(* are all reported: not when the loop could not read its diagnosis before   *)
(* the repair, and whatever the second construction failed on.               *)
OnlyManualIssuesOutliveARepair ==
  pc = "open" /\ observed.attempted =>
    /\ live.damage \cap Repairable = {}
    /\ init # "done" => observed.issues = live.damage \cap Manual /\ observed.issues # {}
=============================================================================
