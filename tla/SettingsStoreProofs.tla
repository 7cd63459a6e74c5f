--------------------------- MODULE SettingsStoreProofs ---------------------------
(****************************************************************************)
(* Theorems about SettingsStore, for every set of forms and values, every   *)
(* seed configuration and every number of saves, crashes and failures.      *)
(****************************************************************************)
EXTENDS SettingsStore, TLAPS

Saving == pc \in {"write", "filling", "rename", "bump"}
Editing == op \in {"update", "import"}

\* what _persist has done so far of the save in progress
SaveInProgress ==
  /\ Saving => tried = mem
  /\ pc = "rename" => tmp = mem
  /\ pc = "bump" => file = mem
  /\ pc = "seed" => file = mem

\* outside the rename-to-report window the file is the last reported save
ReportedIsOnDisk ==
  /\ acked # None => file # None
  /\ pc \notin {"bump", "down"} /\ acked # None => file = acked
  /\ pc = "down" /\ acked # None => file \in {acked, tried}

\* start-up changes nothing but the login part of what it loaded
StartUpKeepsData ==
  /\ pc # "down" /\ file # None /\ ~Editing => mem.data = file.data
  /\ pc # "down" /\ file # None /\ file.password => mem.password
  /\ pc # "down" /\ op = "boot" /\ acked # None => mem = acked
  /\ pc = "idle" => Editing \/ file = mem

\* an edit starts from a seeded store and keeps it seeded
EditsKeepLogin ==
  /\ pc = "idle" \/ (pc # "down" /\ Editing) =>
       /\ file # None /\ file.secret /\ mem.secret
       /\ env.password => file.password /\ mem.password
  /\ pc \in {"backup", "copying"} =>
       /\ Editing
       /\ cand \in Config /\ cand.secret /\ cand.password = mem.password

\* the backup is complete once the import goes past it
BackupOrder ==
  pre # None =>
    IF pc \in {"backup", "copying"} THEN file = pre ELSE bak = pre

IInv == /\ SaveInProgress
        /\ ReportedIsOnDisk
        /\ StartUpKeepsData
        /\ EditsKeepLogin
        /\ BackupOrder

--------------------------------------------------------------------------------
(* Types                                                                        *)

LEMMA InitType == Init => TypeOK
  <1> SUFFICES ASSUME Init PROVE TypeOK
    OBVIOUS
  <1>1. file \in Config \cup {None}
    BY SettingsAssumption DEF Init, Config
  <1> QED BY <1>1, SettingsAssumption DEF Init, TypeOK, Ops

\* a configuration is neither of the two marks, and an assignment of one is typed
LEMMA AssignType ==
  ASSUME TypeOK, NEW c \in Config, NEW o \in Ops, Assign(c, o)
  PROVE  /\ op' \in Ops /\ pc' = "write" /\ mem' \in Config /\ mem' # None
         /\ tried' \in Config
  BY SettingsAssumption DEF Assign

LEMMA StepType == TypeOK /\ IInv /\ Next => TypeOK'
  <1> SUFFICES ASSUME TypeOK, IInv, Next PROVE TypeOK'
    OBVIOUS
  <1> USE SettingsAssumption DEF TypeOK, Config, Data, Ops, disk, history, Assign, Environment
  <1>1. CASE BootFromFile
    BY <1>1 DEF BootFromFile
  <1>2. CASE BootWithoutFile
    <2> DEFINE c == [data |-> IF env.restore = "good" THEN RestoredData
                              ELSE IF env.yaml THEN YamlData ELSE EmptyData,
                     password |-> FALSE, secret |-> FALSE]
    <2>1. c \in Config
      OBVIOUS
    <2>2. Assign(c, "boot")
      BY <1>2 DEF BootWithoutFile
    <2> HIDE DEF c
    <2> QED BY <1>2, <2>1, <2>2, AssignType DEF BootWithoutFile
  <1>3. CASE SeedPassword
    <2>1. [mem EXCEPT !.password = TRUE] \in Config
      BY <1>3 DEF SeedPassword
    <2> QED BY <1>3, <2>1, AssignType DEF SeedPassword
  <1>4. CASE SeedSecret
    <2>1. [mem EXCEPT !.secret = TRUE] \in Config
      BY <1>4 DEF SeedSecret
    <2> QED BY <1>4, <2>1, AssignType DEF SeedSecret
  <1>5. CASE StartServing
    BY <1>5 DEF StartServing
  <1>6. ASSUME NEW f \in Fields, NEW v \in Vals, UpdateField(f, v) PROVE TypeOK'
    BY <1>6 DEF UpdateField
  <1>7. ASSUME NEW d \in Data, ReplaceWithBackup(d) PROVE TypeOK'
    BY <1>7 DEF ReplaceWithBackup
  <1>8. CASE SetUpPassword
    <2>1. [mem EXCEPT !.password = TRUE] \in Config
      BY <1>8 DEF SetUpPassword
    <2> QED BY <1>8, <2>1, AssignType DEF SetUpPassword
  <1>9. CASE OpenBackup
    BY <1>9 DEF OpenBackup
  <1>10. CASE CopyBackup
    <2>1. cand \in Config
      BY <1>10 DEF CopyBackup, IInv, EditsKeepLogin
    <2> QED BY <1>10, <2>1, AssignType DEF CopyBackup
  <1>11. CASE OpenTmp
    BY <1>11 DEF OpenTmp
  <1>12. CASE FillTmp
    BY <1>12 DEF FillTmp
  <1>13. CASE RenameTmp
    <2>1. tmp \in Config
      BY <1>13 DEF RenameTmp, IInv, SaveInProgress
    <2> QED BY <1>13, <2>1 DEF RenameTmp
  <1>14. CASE BumpGeneration
    BY <1>14 DEF BumpGeneration
  <1>15. CASE SystemCallFails
    BY <1>15 DEF SystemCallFails
  <1>16. CASE Crash
    BY <1>16 DEF Crash
  <1>17. CASE OperatorDeletes
    BY <1>17 DEF OperatorDeletes
  <1>18. CASE BeginSetUp \/ RefuseSetUp
    BY <1>18 DEF BeginSetUp, RefuseSetUp
  <1> QED BY <1>1, <1>2, <1>3, <1>4, <1>5, <1>6, <1>7, <1>8, <1>9, <1>10,
             <1>11, <1>12, <1>13, <1>14, <1>15, <1>16, <1>17, <1>18 DEF Next

--------------------------------------------------------------------------------
(* The inductive invariant                                                      *)

LEMMA InitIInv == Init => IInv
  BY SettingsAssumption DEF Init, IInv, SaveInProgress, ReportedIsOnDisk, StartUpKeepsData,
     EditsKeepLogin, BackupOrder, Saving, Editing

LEMMA StepIInv == TypeOK /\ IInv /\ Next => IInv'
  <1> SUFFICES ASSUME TypeOK, IInv, Next PROVE IInv'
    OBVIOUS
  <1> USE SettingsAssumption DEF TypeOK, IInv, SaveInProgress, ReportedIsOnDisk,
          StartUpKeepsData, EditsKeepLogin, BackupOrder, Saving, Editing, Config, Data,
          Ops, disk, history, Assign
  <1>1. CASE BootFromFile
    BY <1>1 DEF BootFromFile
  <1>2. CASE BootWithoutFile
    BY <1>2 DEF BootWithoutFile
  <1>3. CASE SeedPassword
    BY <1>3 DEF SeedPassword, NeedsPassword
  <1>4. CASE SeedSecret
    BY <1>4 DEF SeedSecret, NeedsPassword
  <1>5. CASE StartServing
    BY <1>5 DEF StartServing, NeedsPassword
  <1>6. ASSUME NEW f \in Fields, NEW v \in Vals, UpdateField(f, v) PROVE IInv'
    BY <1>6 DEF UpdateField
  <1>7. ASSUME NEW d \in Data, ReplaceWithBackup(d) PROVE IInv'
    BY <1>7 DEF ReplaceWithBackup
  <1>8. CASE SetUpPassword
    BY <1>8 DEF SetUpPassword
  <1>9. CASE OpenBackup
    BY <1>9 DEF OpenBackup
  <1>10. CASE CopyBackup
    BY <1>10 DEF CopyBackup
  <1>11. CASE OpenTmp
    BY <1>11 DEF OpenTmp
  <1>12. CASE FillTmp
    BY <1>12 DEF FillTmp
  <1>13. CASE RenameTmp
    BY <1>13 DEF RenameTmp
  <1>14. CASE BumpGeneration
    BY <1>14 DEF BumpGeneration
  <1>15. CASE SystemCallFails
    BY <1>15 DEF SystemCallFails
  <1>16. CASE Crash
    BY <1>16 DEF Crash
  <1>17. CASE OperatorDeletes
    BY <1>17 DEF OperatorDeletes
  <1>18. CASE BeginSetUp \/ RefuseSetUp
    BY <1>18 DEF BeginSetUp, RefuseSetUp
  <1> QED BY <1>1, <1>2, <1>3, <1>4, <1>5, <1>6, <1>7, <1>8, <1>9, <1>10,
             <1>11, <1>12, <1>13, <1>14, <1>15, <1>16, <1>17, <1>18 DEF Next

LEMMA Inductive == Spec => [](TypeOK /\ IInv)
  <1>1. Init => TypeOK /\ IInv
    BY InitType, InitIInv
  <1>2. TypeOK /\ IInv /\ [Next]_vars => (TypeOK /\ IInv)'
    <2> SUFFICES ASSUME TypeOK, IInv, UNCHANGED vars PROVE (TypeOK /\ IInv)'
      BY StepType, StepIInv
    <2> QED BY DEF TypeOK, vars, IInv, SaveInProgress, ReportedIsOnDisk, StartUpKeepsData,
                   EditsKeepLogin, BackupOrder, Saving, Editing
  <1> QED BY <1>1, <1>2, PTL DEF Spec

--------------------------------------------------------------------------------
(* The theorems                                                                 *)

\* The type invariant; it holds only together with the invariant, because the file
\* is a whole configuration only if the renamed temporary file is one.
THEOREM TypeCorrect == Spec => []TypeOK
  BY Inductive, PTL

\* A save that was reported survives every crash and every failing later save.
THEOREM SavesAreDurable == Spec => []DurableSave
  <1>1. TypeOK /\ IInv => DurableSave
    BY DEF TypeOK, IInv, ReportedIsOnDisk, SaveInProgress, Saving, DurableSave
  <1> QED BY <1>1, Inductive, PTL

\* The configuration an import replaces can always be recovered.
THEOREM ImportsAreRecoverable == Spec => []ImportRecoverable
  <1>1. IInv => ImportRecoverable
    BY DEF IInv, BackupOrder, ImportRecoverable
  <1> QED BY <1>1, Inductive, PTL

\* The web UI serves only from a store whose secret and password are on disk.
THEOREM ServesOnlySeeded == Spec => []ServesSeeded
  <1>1. IInv => ServesSeeded
    BY DEF IInv, EditsKeepLogin, ServesSeeded
  <1> QED BY <1>1, Inductive, PTL

\* Nothing but a save in the web UI changes what an existing settings.json holds.
THEOREM StartUpNeverClobbers == Spec => LiveConfigKept
  <1>1. TypeOK /\ IInv /\ [Next]_vars =>
          [file # None /\ file' # None =>
             /\ file'.data = file.data \/ op \in {"update", "import"}
             /\ file.password => file'.password]_file
    <2> SUFFICES ASSUME TypeOK, IInv, Next, file' # file, file # None, file' # None
                 PROVE  /\ file'.data = file.data \/ op \in {"update", "import"}
                        /\ file.password => file'.password
      BY DEF vars
    <2>1. RenameTmp
      BY DEF Next, BootFromFile, BootWithoutFile, SeedPassword, SeedSecret, StartServing,
             UpdateField, BeginSetUp, RefuseSetUp, SetUpPassword, ReplaceWithBackup, OpenBackup, CopyBackup, OpenTmp,
             FillTmp, BumpGeneration, SystemCallFails, Crash, OperatorDeletes, disk
    <2> QED BY <2>1 DEF RenameTmp, IInv, SaveInProgress, StartUpKeepsData, Editing
  <1> QED BY <1>1, Inductive, PTL DEF Spec, LiveConfigKept
================================================================================
