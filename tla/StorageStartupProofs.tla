------------------------ MODULE StorageStartupProofs ------------------------
(***************************************************************************)
(* Proofs about StorageStartup for any sets of issues, however they divide *)
(* into those that are seen, settled, repaired and maintained.             *)
(***************************************************************************)
EXTENDS StorageStartup, TLAPS

(* Only an initialization that recorded the migrations ends as done.         *)
DoneIsMigrated == init = "done" => live.migrated

(* The diagnosis the loop judges by is that of the file it hands out.        *)
JudgedByThisFile ==
  pc = "judging" /\ diagnosis = "completed" => counted = Diagnosed(live)

(* Between checkpoint and repair the main file is what the connection sees,  *)
(* unless the checkpoint was blocked, and the backup is of the main file.    *)
BackupPrecedesRepair ==
  /\ pc \in {"copying", "applying"} /\ ~overlooked => main = live
  /\ pc = "applying" => main \in backups

(* The repair works on what it diagnosed itself, and after it nothing that a *)
(* repair settles comes back in the same startup.                            *)
RepairIsComplete ==
  /\ pc \in {"checkpointing", "copying", "applying"} => before = Diagnosed(live)
  /\ attempted /\ pc \in {"rechecking", "reopening", "opening", "initializing",
                          "diagnosing", "judging"}
       => live.damage \cap Repairable = {}

Safe ==
  /\ DoneIsMigrated
  /\ JudgedByThisFile
  /\ BackupPrecedesRepair
  /\ RepairIsComplete
  /\ UnreportedMeansCurrent
  /\ ObservationMatchesFile
  /\ OnlyManualIssuesOutliveARepair

IInv == TypeOK /\ Safe

-----------------------------------------------------------------------------
(* What the operators of the module return. *)

LEMMA WithoutType ==
  ASSUME NEW content \in Contents, NEW settled
  PROVE  /\ Without(content, settled) \in Contents
         /\ Without(content, settled).migrated = content.migrated
         /\ Without(content, settled).damage = content.damage \ settled
  BY DEF Without, Contents

LEMMA RepairedContents ==
  ASSUME TypeOK, ApplyRepairs
  PROVE  live' \in Contents /\ (live.migrated => live'.migrated)
<1>1. CASE UNCHANGED live
  BY <1>1 DEF TypeOK
<1>2. ASSUME NEW settled, live' = Without(live, settled)
      PROVE  live' \in Contents /\ (live.migrated => live'.migrated)
  BY <1>2, WithoutType DEF TypeOK
<1> QED
  BY <1>1, <1>2 DEF ApplyRepairs

LEMMA SchemaFailureContents ==
  ASSUME TypeOK, FailOnSchema
  PROVE  live' \in Contents /\ live'.damage \subseteq live.damage
<1>1. CASE UNCHANGED live
  BY <1>1 DEF TypeOK
<1>2. ASSUME NEW settled, live' = Without(live, settled)
      PROVE  live' \in Contents /\ live'.damage \subseteq live.damage
  BY <1>2, WithoutType DEF TypeOK
<1> QED
  BY <1>1, <1>2 DEF FailOnSchema

LEMMA DiagnosedType == ASSUME NEW content \in Contents PROVE Diagnosed(content) \subseteq Seen
  BY DEF Diagnosed

(* However the loop was left, the observation is well typed. *)
LEMMA FinishType ==
  ASSUME TypeOK, NEW outcome \in {"completed", "failed"}, Finish(outcome),
         attempted' \in BOOLEAN,
         diagnosis' \in {"notCompleted", "completed", "unavailable"}, counted' \subseteq Seen
  PROVE  /\ pc' \in Steps /\ observed' \in [outcome : {"none", "completed", "failed"},
                   attempted : BOOLEAN, diagnosis : {"notCompleted", "completed", "unavailable"},
                   issues : SUBSET Seen]
         /\ damages' \in 0..MaxDamages /\ overlooked' \in BOOLEAN
  BY DEF Finish, TypeOK, Steps, past

LEMMA ProceedType ==
  ASSUME TypeOK, NEW step \in Steps, Proceed(step)
  PROVE  /\ pc' \in Steps /\ observed' \in [outcome : {"none", "completed", "failed"},
                   attempted : BOOLEAN, diagnosis : {"notCompleted", "completed", "unavailable"},
                   issues : SUBSET Seen]
         /\ damages' \in 0..MaxDamages /\ overlooked' \in BOOLEAN
  BY DEF Proceed, TypeOK, past

LEMMA FreshType ==
  ASSUME TypeOK, Fresh
  PROVE  /\ attempted' \in BOOLEAN /\ init' = "none"
         /\ diagnosis' \in {"notCompleted", "completed", "unavailable"}
         /\ counted' \subseteq Seen /\ before' \subseteq Seen
         /\ observed' \in [outcome : {"none", "completed", "failed"},
                   attempted : BOOLEAN, diagnosis : {"notCompleted", "completed", "unavailable"},
                   issues : SUBSET Seen]
         /\ damages' \in 0..MaxDamages /\ overlooked' \in BOOLEAN
  BY DEF Fresh, TypeOK, past, NotObserved

-----------------------------------------------------------------------------
(* Type correctness. *)

LEMMA TypeInit == Init => TypeOK
<1> SUFFICES ASSUME Init PROVE TypeOK
  OBVIOUS
<1>1. observed \in [outcome : {"none", "completed", "failed"}, attempted : BOOLEAN,
                   diagnosis : {"notCompleted", "completed", "unavailable"},
                   issues : SUBSET Seen]
  BY DEF Init, NotObserved
<1>2. 0 \in 0..MaxDamages
  BY StartupConstants
<1> QED
  BY <1>1, <1>2 DEF Init, TypeOK, Steps

LEMMA TypeStep == TypeOK /\ [Next]_vars => TypeOK'
<1> SUFFICES ASSUME TypeOK, [Next]_vars PROVE TypeOK'
  OBVIOUS
<1> USE DEF file, progress, past, CloseConnection
<1>1. CASE Start
  BY <1>1, FreshType DEF Start, TypeOK, Steps
<1>2. CASE OpenDatabase
  BY <1>2, FinishType, ProceedType DEF OpenDatabase, TypeOK, Steps
<1>3. CASE Initialize
  <2>1. live' \in Contents
    BY <1>3 DEF Initialize, TypeOK, Contents
  <2> QED
    BY <1>3, <2>1, ProceedType DEF Initialize, TypeOK, Steps
<1>4. CASE FailOnSchema
  <2>1. live' \in Contents
    BY <1>4, SchemaFailureContents
  <2> QED
    BY <1>4, <2>1, ProceedType DEF FailOnSchema, TypeOK, Steps
<1>5. CASE FailUnrecognized
  <2>1. live' \in Contents
    BY <1>5, WithoutType DEF FailUnrecognized, TypeOK
  <2> QED
    BY <1>5, <2>1, ProceedType DEF FailUnrecognized, TypeOK, Steps
<1>6. CASE FailDestructively
  BY <1>6, FinishType DEF FailDestructively, TypeOK
<1>7. CASE Diagnose
  BY <1>7, ProceedType, DiagnosedType DEF Diagnose, TypeOK, Steps
<1>8. CASE JudgeFailure
  BY <1>8, FinishType DEF JudgeFailure, TypeOK
<1>9. CASE JudgeSuccess
  <2>1. live' \in Contents
    BY <1>9, WithoutType DEF JudgeSuccess, TypeOK
  <2> QED
    BY <1>9, <2>1, FinishType DEF JudgeSuccess, TypeOK
<1>10. CASE OpenRepair
  BY <1>10, FinishType, ProceedType DEF OpenRepair, TypeOK, Steps
<1>11. CASE Inspect
  BY <1>11, FinishType, ProceedType, DiagnosedType DEF Inspect, TypeOK, Steps
<1>12. CASE Checkpoint
  <2>1. CASE Finish("failed")
    BY <1>12, <2>1, FinishType DEF Checkpoint, TypeOK
  <2>2. CASE pc' = "copying" /\ overlooked' = (main' # live) /\ UNCHANGED <<observed, damages>>
    <3>1. overlooked' \in BOOLEAN
      BY <2>2, Zenon
    <3>2. pc' = "copying" /\ UNCHANGED <<observed, damages>> /\ main' \in {live, main}
      BY <1>12, <2>2 DEF Checkpoint, Finish
    <3> QED
      BY <1>12, <3>1, <3>2 DEF Checkpoint, TypeOK, Steps
  <2> QED
    BY <1>12, <2>1, <2>2 DEF Checkpoint
<1>13. CASE CopyBackup
  BY <1>13, FinishType, ProceedType DEF CopyBackup, TypeOK, Steps
<1>14. CASE ApplyRepairs
  <2>1. live' \in Contents
    BY <1>14, RepairedContents
  <2> QED
    BY <1>14, <2>1, FinishType, ProceedType DEF ApplyRepairs, TypeOK, Steps
<1>15. CASE Recheck
  BY <1>15, FinishType, ProceedType DEF Recheck, TypeOK, Steps
<1>16. CASE CloseRepair
  BY <1>16, FinishType, ProceedType DEF CloseRepair, TypeOK, Steps
<1>17. CASE Close
  BY <1>17, FreshType DEF Close, TypeOK, Steps
<1>18. CASE Crash
  BY <1>18, FreshType DEF Crash, TypeOK, Steps
<1>19. CASE Damage
  <2>1. live' \in Contents
    BY <1>19 DEF Damage, TypeOK, Contents
  <2>2. damages' \in 0..MaxDamages
    BY <1>19, StartupConstants DEF Damage, TypeOK
  <2> QED
    BY <1>19, <2>1, <2>2 DEF Damage, TypeOK
<1>20. CASE UNCHANGED vars
  BY <1>20 DEF vars, TypeOK
<1> QED
  BY <1>1, <1>2, <1>3, <1>4, <1>5, <1>6, <1>7, <1>8, <1>9, <1>10, <1>11, <1>12, <1>13, <1>14,
     <1>15, <1>16, <1>17, <1>18, <1>19, <1>20 DEF Next, Step, Construct, Repair

(* Every reachable state is well typed, whatever the catalog. *)
THEOREM TypeCorrect == Spec => []TypeOK
  BY TypeInit, TypeStep, PTL DEF Spec

-----------------------------------------------------------------------------
(* The safety invariants. *)

LEMMA SafeInit == Init => Safe
  BY DEF Init, Safe, DoneIsMigrated, JudgedByThisFile, BackupPrecedesRepair, RepairIsComplete,
         UnreportedMeansCurrent, ObservationMatchesFile, OnlyManualIssuesOutliveARepair

(* What a construction leaves behind when it fails or succeeds. *)
LEMMA ConstructionShrinks ==
  ASSUME TypeOK, Construct
  PROVE  live'.damage \subseteq live.damage
<1>1. CASE Initialize
  BY <1>1 DEF Initialize
<1>2. CASE FailOnSchema
  BY <1>2, SchemaFailureContents
<1>3. CASE FailUnrecognized
  BY <1>3, WithoutType DEF FailUnrecognized, TypeOK
<1>4. CASE FailDestructively
  BY <1>4 DEF FailDestructively
<1> QED
  BY <1>1, <1>2, <1>3, <1>4 DEF Construct

(* Only ApplyRepairs passes the repair's stages with something to settle, and *)
(* no later step of the startup brings it back.                               *)
LEMMA RepairKept == IInv /\ [Next]_vars => RepairIsComplete'
<1> SUFFICES ASSUME IInv, [Next]_vars PROVE RepairIsComplete'
  OBVIOUS
<1> USE DEF file, progress
<1>1. CASE Start \/ Close \/ Crash
  BY <1>1 DEF Start, Close, Crash, Fresh, RepairIsComplete
<1>2. CASE OpenDatabase \/ JudgeFailure \/ OpenRepair
  BY <1>2 DEF OpenDatabase, JudgeFailure, OpenRepair, Finish, Proceed, IInv, Safe,
              RepairIsComplete
<1>3. CASE Construct
  <2>1. live'.damage \subseteq live.damage
    BY <1>3, ConstructionShrinks DEF IInv
  <2>2. pc = "initializing" /\ UNCHANGED attempted /\ pc' \in {"diagnosing", "refused"}
    BY <1>3 DEF Construct, Initialize, FailOnSchema, FailUnrecognized, FailDestructively,
                Finish, Proceed
  <2> QED
    BY <2>1, <2>2 DEF IInv, Safe, RepairIsComplete
<1>4. CASE Diagnose
  BY <1>4 DEF Diagnose, NeedsRepair, Proceed, IInv, Safe, RepairIsComplete
<1>5. CASE JudgeSuccess
  BY <1>5 DEF JudgeSuccess, Finish, RepairIsComplete
<1>6. CASE Inspect
  <2>1. CASE Finish("failed")
    BY <2>1 DEF Finish, RepairIsComplete
  <2>2. CASE /\ before' = Diagnosed(live) /\ UNCHANGED live
             /\ pc' = (IF before' \cap Repairable = {} THEN "reopening" ELSE "checkpointing")
    BY <2>2 DEF RepairIsComplete, Diagnosed, Seen
  <2> QED
    BY <1>6, <2>1, <2>2 DEF Inspect, Proceed
<1>7. CASE Checkpoint \/ CopyBackup
  BY <1>7 DEF Checkpoint, CopyBackup, Finish, Proceed, IInv, Safe, RepairIsComplete
<1>8. CASE ApplyRepairs
  <2>1. before = live.damage \cap Seen
    BY <1>8 DEF ApplyRepairs, IInv, Safe, RepairIsComplete, Diagnosed
  <2>2. ASSUME NEW installed, live' = Without(live, (before \cap Repairable) \cup installed)
        PROVE  live'.damage \cap Repairable = {}
    BY <2>1, <2>2, WithoutType DEF IInv, TypeOK, Seen
  <2>3. CASE Finish("failed")
    BY <2>3 DEF Finish, RepairIsComplete
  <2> QED
    BY <1>8, <2>2, <2>3 DEF ApplyRepairs, Proceed, RepairIsComplete
<1>9. CASE Recheck \/ CloseRepair
  BY <1>9 DEF Recheck, CloseRepair, Finish, Proceed, IInv, Safe, RepairIsComplete
<1>10. CASE Damage
  BY <1>10 DEF Damage, RepairIsComplete
<1>11. CASE UNCHANGED vars
  BY <1>11 DEF vars, IInv, Safe, RepairIsComplete, Diagnosed
<1> QED
  BY <1>1, <1>2, <1>3, <1>4, <1>5, <1>6, <1>7, <1>8, <1>9, <1>10, <1>11 DEF Next, Step, Repair

(* What is handed out, and how it was observed, when the loop is left. *)
LEMMA FinishSafe ==
  ASSUME IInv, NEW outcome \in {"completed", "failed"}, Finish(outcome), DoneIsMigrated',
         RepairIsComplete',
         outcome = "completed" /\ diagnosis' = "completed" =>
           /\ counted' = Diagnosed(live')
           /\ counted' = {} => live'.migrated /\ live'.damage \cap Issues = {},
         outcome = "completed" /\ attempted' =>
           /\ live'.damage \cap Repairable = {}
           /\ init' # "done" => diagnosis' = "completed" /\ counted' # {}
  PROVE  Safe'
<1>1. /\ pc' = (IF outcome = "completed" THEN "open" ELSE "refused")
      /\ observed'.diagnosis = diagnosis' /\ observed'.issues = counted'
      /\ observed'.attempted = attempted'
  BY DEF Finish
<1>2. OnlyManualIssuesOutliveARepair'
  BY <1>1 DEF OnlyManualIssuesOutliveARepair, Diagnosed, Seen
<1> QED
  BY <1>1, <1>2 DEF Safe, JudgedByThisFile, BackupPrecedesRepair, UnreportedMeansCurrent,
              ObservationMatchesFile

LEMMA ProceedSafe ==
  ASSUME IInv, NEW step \in Steps \ {"open", "judging", "copying", "applying"}, Proceed(step),
         DoneIsMigrated', RepairIsComplete'
  PROVE  Safe'
  BY DEF Proceed, Safe, JudgedByThisFile, BackupPrecedesRepair, UnreportedMeansCurrent,
         ObservationMatchesFile, OnlyManualIssuesOutliveARepair

LEMMA SafeStep == IInv /\ [Next]_vars => Safe'
<1> SUFFICES ASSUME IInv, [Next]_vars PROVE Safe'
  OBVIOUS
<1> USE DEF file, progress
<1>0. RepairIsComplete'
  BY RepairKept
<1>1. ASSUME pc' \in {"closed", "opening"}, init' = "none" PROVE Safe'
  BY <1>0, <1>1 DEF Safe, DoneIsMigrated, JudgedByThisFile, BackupPrecedesRepair,
              UnreportedMeansCurrent, ObservationMatchesFile, OnlyManualIssuesOutliveARepair
<1>2. CASE Start \/ Close \/ Crash
  BY <1>1, <1>2 DEF Start, Close, Crash, Fresh
<1>3. CASE OpenDatabase
  BY <1>3, <1>0, FinishSafe, ProceedSafe DEF OpenDatabase, IInv, Safe, DoneIsMigrated, Steps
<1>4. CASE Initialize
  BY <1>4, <1>0, ProceedSafe DEF Initialize, DoneIsMigrated, Steps
<1>5. CASE FailOnSchema \/ FailUnrecognized
  BY <1>5, <1>0, ProceedSafe DEF FailOnSchema, FailUnrecognized, DoneIsMigrated, Steps
<1>6. CASE FailDestructively
  BY <1>6, <1>0, FinishSafe DEF FailDestructively, IInv, Safe, DoneIsMigrated
<1>7. CASE Diagnose
  <2>1. DoneIsMigrated'
    BY <1>7 DEF Diagnose, IInv, Safe, DoneIsMigrated
  <2>2. CASE Proceed("repairing")
    BY <2>1, <2>2, <1>0, ProceedSafe DEF Steps
  <2>3. CASE Proceed("judging")
    BY <1>0, <1>7, <2>1, <2>3 DEF Diagnose, Proceed, Safe, JudgedByThisFile, BackupPrecedesRepair,
                            UnreportedMeansCurrent, ObservationMatchesFile, OnlyManualIssuesOutliveARepair
  <2> QED
    BY <1>7, <2>2, <2>3 DEF Diagnose
<1>8. CASE JudgeFailure
  <2>1. DoneIsMigrated'
    BY <1>8 DEF JudgeFailure, IInv, Safe, DoneIsMigrated
  <2>2. CASE IssuesRemain /\ Finish("completed")
    BY <1>8, <2>1, <2>2, <1>0, FinishSafe
       DEF JudgeFailure, IssuesRemain, IInv, Safe, JudgedByThisFile, RepairIsComplete
  <2> QED
    BY <1>8, <2>1, <2>2, <1>0, FinishSafe DEF JudgeFailure
<1>9. CASE JudgeSuccess
  <2>1. DoneIsMigrated'
    BY <1>9, WithoutType DEF JudgeSuccess, IInv, Safe, TypeOK, DoneIsMigrated
  <2>2. CASE IssuesRemain
    BY <1>9, <2>1, <2>2, <1>0, FinishSafe
       DEF JudgeSuccess, IssuesRemain, IInv, Safe, JudgedByThisFile, RepairIsComplete
  <2>3. CASE /\ ~IssuesRemain /\ live.damage \cap Unseen \subseteq Maintained
             /\ live' = Without(live, Maintained) /\ Finish("completed")
    <3>1. UNCHANGED <<counted, diagnosis, init>> /\ pc = "judging" /\ init = "done"
      BY <1>9 DEF JudgeSuccess
    <3>2. diagnosis = "completed" => counted = {} /\ live.damage \cap Seen = {}
      BY <2>3, <3>1 DEF IssuesRemain, IInv, Safe, JudgedByThisFile, Diagnosed
    <3>3. live'.damage = live.damage \ Maintained /\ live'.migrated
      BY <2>3, <3>1, WithoutType DEF IInv, Safe, TypeOK, DoneIsMigrated
    <3>4. diagnosis' = "completed" => live'.damage \cap Issues = {} /\ counted' = Diagnosed(live')
      BY <2>3, <3>1, <3>2, <3>3 DEF Issues, Diagnosed
    <3>5. attempted' => live'.damage \cap Repairable = {}
      BY <1>9, <3>3 DEF JudgeSuccess, IInv, Safe, RepairIsComplete
    <3> QED
      BY <2>1, <2>3, <3>1, <3>3, <3>4, <3>5, <1>0, FinishSafe
  <2>4. CASE Finish("failed")
    BY <2>1, <2>4, <1>0, FinishSafe
  <2> QED
    BY <1>9, <2>2, <2>3, <2>4 DEF JudgeSuccess
<1>10. CASE OpenRepair \/ Inspect \/ Recheck \/ CloseRepair
  <2>1. DoneIsMigrated'
    BY <1>10 DEF OpenRepair, Inspect, Recheck, CloseRepair, IInv, Safe, DoneIsMigrated
  <2> QED
    BY <1>10, <2>1, <1>0, FinishSafe, ProceedSafe DEF OpenRepair, Inspect, Recheck, CloseRepair, Steps
<1>11. CASE Checkpoint
  <2>1. DoneIsMigrated'
    BY <1>11 DEF Checkpoint, IInv, Safe, DoneIsMigrated
  <2>2. CASE pc' = "copying" /\ overlooked' = (main' # live)
    BY <1>0, <1>11, <2>1, <2>2 DEF Checkpoint, Safe, JudgedByThisFile, BackupPrecedesRepair,
                             UnreportedMeansCurrent, ObservationMatchesFile, OnlyManualIssuesOutliveARepair
  <2> QED
    BY <1>11, <2>1, <2>2, <1>0, FinishSafe DEF Checkpoint
<1>12. CASE CopyBackup
  <2>1. DoneIsMigrated'
    BY <1>12 DEF CopyBackup, IInv, Safe, DoneIsMigrated
  <2>2. CASE backups' = backups \cup {main} /\ Proceed("applying")
    BY <1>0, <1>12, <2>1, <2>2 DEF CopyBackup, Proceed, past, IInv, Safe, JudgedByThisFile,
         BackupPrecedesRepair, UnreportedMeansCurrent, ObservationMatchesFile, OnlyManualIssuesOutliveARepair
  <2> QED
    BY <1>12, <2>1, <2>2, <1>0, FinishSafe DEF CopyBackup
<1>13. CASE ApplyRepairs
  <2>1. DoneIsMigrated'
    BY <1>13, RepairedContents DEF ApplyRepairs, IInv, Safe, DoneIsMigrated
  <2> QED
    BY <1>13, <2>1, <1>0, FinishSafe, ProceedSafe DEF ApplyRepairs, Steps
<1>14. CASE Damage
  <2>1. DoneIsMigrated'
    BY <1>14 DEF Damage, IInv, Safe, TypeOK, Contents, DoneIsMigrated
  <2> QED
    BY <1>0, <1>14, <2>1 DEF Damage, Safe, JudgedByThisFile, BackupPrecedesRepair,
                       UnreportedMeansCurrent, ObservationMatchesFile, OnlyManualIssuesOutliveARepair
<1>15. CASE UNCHANGED vars
  BY <1>0, <1>15 DEF vars, past, IInv, Safe, DoneIsMigrated, JudgedByThisFile, BackupPrecedesRepair,
               UnreportedMeansCurrent, ObservationMatchesFile, OnlyManualIssuesOutliveARepair
<1> QED
  BY <1>2, <1>3, <1>4, <1>5, <1>6, <1>7, <1>8, <1>9, <1>10, <1>11, <1>12, <1>13, <1>14, <1>15
     DEF Next, Step, Construct, Repair

(* The inductive invariant: what each stage of the loop knows of the file.   *)
THEOREM Invariance == Spec => []IInv
<1>1. Init => IInv
  BY TypeInit, SafeInit DEF IInv
<1>2. IInv /\ [Next]_vars => IInv'
  BY TypeStep, SafeStep DEF IInv
<1> QED
  BY <1>1, <1>2, PTL DEF Spec

(* Whatever fails during a startup: a storage handed out without a reported  *)
(* issue has its migrations recorded and no damage anybody looks for.        *)
THEOREM OpenIsCurrent == Spec => []UnreportedMeansCurrent
<1>1. IInv => UnreportedMeansCurrent
  BY DEF IInv, Safe
<1> QED
  BY <1>1, Invariance, PTL

(* The issues a startup reports are those of the file it hands out.          *)
THEOREM ReportsAreOfThisFile == Spec => []ObservationMatchesFile
<1>1. IInv => ObservationMatchesFile
  BY DEF IInv, Safe
<1> QED
  BY <1>1, Invariance, PTL

(* A startup hands out what its repair left only with issues that no repair  *)
(* settles, all of them reported when the construction failed again.         *)
THEOREM RepairsSettleWhatTheyCan == Spec => []OnlyManualIssuesOutliveARepair
<1>1. IInv => OnlyManualIssuesOutliveARepair
  BY DEF IInv, Safe
<1> QED
  BY <1>1, Invariance, PTL

(* A repair changes only what a backup holds, but for the blocked checkpoint. *)
THEOREM RepairsAreBackedUp == Spec => RepairsOnlyBackedUpState
<1>1. IInv => (pc = "applying" /\ live' # live
                 => (IF overlooked THEN main ELSE live) \in backups)
  BY DEF IInv, Safe, BackupPrecedesRepair
<1> QED
  BY <1>1, Invariance, PTL DEF RepairsOnlyBackedUpState

=============================================================================
