-------------------------- MODULE SelfChangeProofs --------------------------
(***************************************************************************)
(* Proofs about how Ruth is changed: the processes of the daemon and its   *)
(* update with the migration of its state (Operations, PrivateState), for  *)
(* any number of files, builds, processes, writes and kills; and how she   *)
(* proposes changes to herself (Evolution), for any records, candidates,   *)
(* commands and faults.  The two components share no state; each has its   *)
(* own inductive invariant, OperationsInv's parts first.                   *)
(***************************************************************************)
EXTENDS Operations, Evolution, FiniteSetTheorems, TLAPS

FileRecord == [version : Nat, content : Nat]

MigrationRecord ==
  [pc : {"off", "planned", "stopped", "backup", "write", "validate", "rollback"},
   build : Nat, todo : SUBSET Files, left : SUBSET Files, read : SUBSET Files, copy : Nat,
   backup : [Files -> FileRecord], old : Nat]

ProcessRecord ==
  [pc : {"new", "launched", "resolved", "recorded", "running", "handling", "stopping", "ended"},
   build : Nat, raced : BOOLEAN, told : BOOLEAN, owed : BOOLEAN, warning : BOOLEAN]

UpdateRecord ==
  [pc : {"off", "inspected", "restored", "activated", "failed"}, from : Nat, to : Nat,
   among : BOOLEAN]

(* Ranges of the variables. *)
StateType ==
  /\ file \in [Files -> FileRecord]
  /\ manifest \in Nat
  /\ migration \in MigrationRecord

ProcessType ==
  /\ daemon \in [Processes -> ProcessRecord]
  /\ epoch \in Processes \union {NoProcess}
  /\ lifecycle \in {"none", "running", "told", "untold"}
  /\ last \in Processes \union {NoProcess}
  /\ overlapped \in BOOLEAN

UpdateType ==
  /\ checkout \in Nat
  /\ update \in [Users -> UpdateRecord]

TypeInv == StateType /\ ProcessType /\ UpdateType

(* The owner of the epoch has begun it, and a migration that is past its   *)
(* look at the daemon runs beside none, unless one began after the look.   *)
Exclusive ==
  /\ epoch # NoProcess => ~In(epoch, "new") /\ ~In(epoch, "launched")
  /\ Committed /\ OwnerAlive => daemon[epoch].raced

(* What a migration may still write or put back is what the files contain  *)
(* now, but for those that were written beside it.                         *)
Copied == IF Now("backup") THEN migration.todo \ migration.left ELSE migration.todo

MigrationStages == {"backup", "write", "validate", "rollback"}

CopiesCurrent ==
  migration.pc \in MigrationStages =>
    /\ migration.left \subseteq migration.todo
    /\ \A f \in Copied \ beside : migration.backup[f].content = file[f].content
    /\ Now("write") => \A f \in migration.read \ beside : migration.copy = file[f].content

BackupCurrent ==
  /\ migration.pc \notin {"write", "rollback"} => migration.read = {}
  /\ CopiesCurrent

(* The record of the last run says at least that it runs until its end,    *)
(* and that it was untold after an end the user was not told of.           *)
LifecycleKept ==
  ~overlapped /\ last # NoProcess =>
    /\ ~In(last, "new")
    /\ ~In(last, "ended") => lifecycle = "running"
    /\ In(last, "ended") /\ ~daemon[last].told => Warning(lifecycle)

(* A build without a verdict is that of an update on its way, and so is    *)
(* one that an update may go back to.                                      *)
VettedInv ==
  /\ checkout \in vetted \union abandoned \/ \E user \in Users : UnderWay(user)
  /\ \A user \in Users : ~Updating(user, "off") =>
       update[user].among \/ update[user].from \in vetted \union abandoned

OperationsInv ==
  TypeInv /\ Exclusive /\ BackupCurrent /\ LifecycleKept /\ VettedInv
    /\ NeverAhead /\ StopReported

LEMMA IdleTyped == NoMigration \in MigrationRecord /\ NoMigration.pc = "off"
  BY DEF NoMigration, MigrationRecord, FileRecord, Fresh

LEMMA InitInv == OperationsInit => OperationsInv
<1>1. SUFFICES ASSUME OperationsInit PROVE OperationsInv
  OBVIOUS
<1>2. StateType
  BY <1>1, IdleTyped, PrivateStateAssumption
     DEF OperationsInit, PrivateStateInit, StateType, FileRecord, Fresh
<1>3. ProcessType
  BY <1>1 DEF OperationsInit, ProcessType, ProcessRecord, NewProcess, NoProcess
<1>4. UpdateType
  BY <1>1 DEF OperationsInit, UpdateType, UpdateRecord, NoUpdate
<1>5. Exclusive /\ BackupCurrent /\ LifecycleKept
  BY <1>1, IdleTyped DEF OperationsInit, PrivateStateInit, NoMigration, Exclusive, BackupCurrent,
       CopiesCurrent, MigrationStages, LifecycleKept, Committed
<1>6. VettedInv
  BY <1>1 DEF OperationsInit, NoUpdate, VettedInv, Updating
<1>7. NeverAhead /\ StopReported
  BY <1>1 DEF OperationsInit, NewProcess, NeverAhead, StopReported, Working
<1>8. QED
  BY <1>2, <1>3, <1>4, <1>5, <1>6, <1>7 DEF OperationsInv, TypeInv

-----------------------------------------------------------------------------
(* Types *)

LEMMA MigrationTyped ==
  ASSUME StateType, NEW b \in Nat,
         \/ Migrate(b)
         \/ \E alive \in BOOLEAN : MigrationStep(alive)
         \/ Killed
  PROVE  StateType'
<1>1. migration \in MigrationRecord /\ file \in [Files -> FileRecord] /\ manifest \in Nat
  BY DEF StateType
<1>2. CASE Migrate(b)
  BY IdleTyped, <1>2 DEF StateType, MigrationRecord, Migrate
<1>3. CASE Killed
  BY IdleTyped, <1>3 DEF StateType, MigrationRecord, Killed
<1>4. ASSUME NEW alive \in BOOLEAN, MigrationStep(alive) PROVE StateType'
  <2>1. CASE RequireStopped(alive)
    BY IdleTyped, <2>1 DEF StateType, MigrationRecord, RequireStopped, Enter
  <2>2. CASE Replan
    <3>1. Outdated(migration.build) \in SUBSET Files
      BY DEF Outdated
    <3>2. QED
      BY IdleTyped, <2>2, <3>1 DEF StateType, MigrationRecord, Replan
  <2>3. CASE BackedUp
    BY IdleTyped, <2>3 DEF StateType, MigrationRecord, BackedUp, Left
  <2>4. CASE WriteManifest
    BY <2>4 DEF StateType, MigrationRecord, WriteManifest, Enter
  <2>5. CASE Validate
    BY IdleTyped, <2>5 DEF StateType, MigrationRecord, Validate, Left
  <2>6. CASE Fails
    BY <2>6 DEF StateType, MigrationRecord, Fails, Left
  <2>7. CASE RestoreManifest
    BY IdleTyped, <2>7 DEF StateType, MigrationRecord, RestoreManifest
  <2>8. ASSUME NEW f \in Files, WriteFile(f) PROVE StateType'
    BY <2>8 DEF StateType, MigrationRecord, WriteFile, FileRecord
  <2>9. ASSUME NEW f \in Files, RestoreFile(f) PROVE StateType'
    <3>1. migration.backup[f] \in FileRecord /\ migration.left \ {f} \in SUBSET Files
      BY <1>1 DEF MigrationRecord
    <3>2. file' \in [Files -> FileRecord]
      BY <1>1, <2>9, <3>1 DEF RestoreFile
    <3>3. migration' \in MigrationRecord
      BY <1>1, <2>9, <3>1, IdleTyped DEF MigrationRecord, RestoreFile, Left
    <3>4. QED
      BY <1>1, <2>9, <3>2, <3>3 DEF StateType, RestoreFile
  <2>10. ASSUME NEW f \in Files, ReadFile(f) PROVE StateType'
    BY <2>10 DEF StateType, MigrationRecord, ReadFile, FileRecord
  <2>11. ASSUME NEW f \in Files, BackUpFile(f) PROVE StateType'
    <3>1. \A S \in SUBSET Files, g \in [Files -> FileRecord] :
            [migration EXCEPT !.left = S, !.backup = g] \in MigrationRecord
      BY <1>1 DEF MigrationRecord
    <3>2. [migration.backup EXCEPT ![f] = file[f]] \in [Files -> FileRecord]
      BY <1>1 DEF MigrationRecord
    <3>3. migration' = [migration EXCEPT !.left = migration.left \ {f},
                          !.backup = [migration.backup EXCEPT ![f] = file[f]]]
      BY <1>1, <2>11 DEF BackUpFile, MigrationRecord
    <3>4. migration.left \ {f} \in SUBSET Files
      BY <1>1 DEF MigrationRecord
    <3>5. migration' \in MigrationRecord
      BY <3>1, <3>2, <3>3, <3>4
    <3>6. QED
      BY <1>1, <2>11, <3>5 DEF StateType, BackUpFile
  <2>12. QED
    BY <1>4, <2>1, <2>2, <2>3, <2>4, <2>5, <2>6, <2>7, <2>8, <2>9, <2>10, <2>11 DEF MigrationStep
<1>5. QED
  BY <1>2, <1>3, <1>4

LEMMA SaveTyped ==
  ASSUME StateType, NEW f \in Files, NEW b \in Nat, Save(f, b)
  PROVE  StateType'
BY DEF StateType, FileRecord, Save

(* What the steps of the processes do to their records. *)
LEMMA EndTyped == ASSUME ProcessType, NEW d \in Processes, End(d) PROVE
    daemon' \in [Processes -> ProcessRecord]
BY DEF ProcessType, ProcessRecord, End, NewProcess

LEMMA EndRecord == ASSUME ProcessType, NEW d \in Processes, End(d) PROVE
    /\ \A p \in Processes \ {d} : daemon'[p] = daemon[p]
    /\ daemon'[d].pc = "ended" /\ ~daemon'[d].owed
    /\ daemon'[d].told <=> daemon[d].told /\ last = d
BY DEF ProcessType, End, NewProcess

LEMMA InterruptTyped == ASSUME UpdateType, NEW user \in Users, Interrupt(user) PROVE UpdateType'
BY DEF UpdateType, UpdateRecord, Interrupt, NoUpdate

LEMMA UsersKnown == Processes \subseteq Users /\ Shells \subseteq Users
  BY DEF Users

LEMMA StepTyped == OperationsInv /\ OperationsNext => TypeInv'
<1>1. SUFFICES ASSUME OperationsInv, OperationsNext PROVE TypeInv'
  OBVIOUS
<1>2. StateType /\ ProcessType /\ UpdateType
  BY <1>1 DEF OperationsInv, TypeInv
<1>3. ASSUME NEW d \in Processes, Launch(d) PROVE TypeInv'
  BY <1>2, <1>3 DEF TypeInv, StateType, ProcessType, UpdateType, ProcessRecord, Launch, stateVars, updateVars
<1>4. ASSUME NEW d \in Processes, BeginEpoch(d) PROVE TypeInv'
  <2>1. Committed \in BOOLEAN
    BY DEF Committed
  <2>2. daemon' \in [Processes -> ProcessRecord]
    BY <1>2, <1>4, <2>1 DEF ProcessType, ProcessRecord, BeginEpoch
  <2>3. QED
    BY <1>2, <1>4, <2>2 DEF TypeInv, StateType, ProcessType, UpdateType, BeginEpoch, stateVars, updateVars
<1>5. ASSUME NEW d \in Processes, BeginLifecycle(d) PROVE TypeInv'
  <2>1. ASSUME NEW w \in BOOLEAN, NEW o \in BOOLEAN
        PROVE  [daemon EXCEPT ![d].pc = "recorded", ![d].warning = w, ![d].owed = o]
                 \in [Processes -> ProcessRecord]
    <3>1. daemon \in [Processes -> ProcessRecord]
      BY <1>2 DEF ProcessType
    <3>2. [daemon[d] EXCEPT !.pc = "recorded", !.warning = w, !.owed = o] \in ProcessRecord
      BY <3>1 DEF ProcessRecord
    <3>3. QED
      BY <3>1, <3>2
  <2>2. daemon' \in [Processes -> ProcessRecord]
    <3>1. Warning(lifecycle) \in BOOLEAN
      BY DEF Warning
    <3>2. (last # NoProcess /\ In(last, "ended") /\ ~daemon[last].told /\ ~overlapped) \in BOOLEAN
      OBVIOUS
    <3>3. QED
      BY <1>5, <2>1, <3>1, <3>2, Zenon DEF BeginLifecycle
  <2>3. QED
    BY <1>2, <1>5, <2>2 DEF TypeInv, StateType, ProcessType, UpdateType, BeginLifecycle, stateVars, updateVars
<1>6. ASSUME NEW d \in Processes, Construct(d) PROVE TypeInv'
  <2>1. daemon' \in [Processes -> ProcessRecord]
    <3>1. CASE End(d)
      BY <1>2, <3>1, EndTyped
    <3>2. CASE ~End(d)
      <4> DEFINE r == [NewProcess EXCEPT !.pc = "running", !.build = daemon[d].build,
                         !.raced = daemon[d].raced /\ Committed]
      <4>1. daemon \in [Processes -> ProcessRecord]
        BY <1>2 DEF ProcessType
      <4>2. (daemon[d].raced /\ Committed) \in BOOLEAN /\ daemon[d].build \in Nat
        BY <4>1 DEF ProcessRecord
      <4>3. r \in ProcessRecord
        BY <4>2 DEF ProcessRecord, NewProcess
      <4>4. daemon' = [daemon EXCEPT ![d] = r]
        BY <1>6, <3>2 DEF Construct
      <4> HIDE DEF r
      <4>5. QED
        BY <4>1, <4>3, <4>4
    <3>3. QED
      BY <3>1, <3>2
  <2>2. QED
    BY <1>2, <1>6, <2>1 DEF TypeInv, StateType, ProcessType, UpdateType, Construct, stateVars, updateVars
<1>7. ASSUME NEW d \in Processes, Stale(d) PROVE TypeInv'
  <2>1. daemon' \in [Processes -> ProcessRecord]
    BY <1>2, <1>7, EndTyped DEF Stale
  <2>2. QED
    BY <1>2, <1>7, <2>1 DEF TypeInv, StateType, ProcessType, UpdateType, Stale, stateVars, updateVars
<1>8. ASSUME NEW d \in Processes, BeginTurn(d) PROVE TypeInv'
  BY <1>2, <1>8 DEF TypeInv, StateType, ProcessType, UpdateType, ProcessRecord, BeginTurn, Move, stateVars, updateVars
<1>9. ASSUME NEW d \in Processes, Shutdown(d) PROVE TypeInv'
  <2>1. UpdateType'
    BY <1>2, <1>9, InterruptTyped, UsersKnown DEF Shutdown
  <2>2. daemon' \in [Processes -> ProcessRecord]
    BY <1>2, <1>9, EndTyped DEF ProcessType, ProcessRecord, Shutdown
  <2>3. QED
    BY <1>2, <1>9, <2>1, <2>2 DEF TypeInv, StateType, ProcessType, Shutdown, stateVars
<1>10. ASSUME NEW d \in Processes, RecordShutdown(d) PROVE TypeInv'
  BY <1>2, <1>10, EndTyped DEF TypeInv, StateType, ProcessType, UpdateType, RecordShutdown, stateVars, updateVars
<1>11. ASSUME NEW d \in Processes, Crash(d) PROVE TypeInv'
  <2>1. UpdateType'
    BY <1>2, <1>11, InterruptTyped, UsersKnown DEF Crash
  <2>2. QED
    BY <1>2, <1>11, <2>1, EndTyped DEF TypeInv, StateType, ProcessType, Crash, stateVars
<1>12. ASSUME NEW d \in Processes, NEW f \in Files, Write(d, f) PROVE TypeInv'
  <2>1. daemon[d].build \in Nat
    BY <1>2 DEF ProcessType, ProcessRecord
  <2>2. StateType'
    BY <1>2, <1>12, <2>1, SaveTyped DEF Write
  <2>3. QED
    BY <1>2, <1>12, <2>2 DEF TypeInv, ProcessType, UpdateType, Write, processVars, updateVars
<1>13. ASSUME NEW user \in Users,
              \/ Inspect(user) \/ Refuse(user) \/ Restore(user) \/ Activate(user)
              \/ RunUpdateDoctor(user) \/ RollBack(user) \/ KillUpdate(user)
       PROVE  TypeInv'
  <2>1. StateType' /\ ProcessType'
    BY <1>2, <1>13 DEF StateType, ProcessType, Inspect, Refuse, Restore, Activate, RunUpdateDoctor,
         RollBack, KillUpdate, stateVars, processVars
  <2>2. NoUpdate \in UpdateRecord /\ update[user] \in UpdateRecord
    BY <1>2 DEF UpdateType, UpdateRecord, NoUpdate
  <2>3. update[user].from \in Nat /\ update[user].to \in Nat
    BY <2>2 DEF UpdateRecord
  <2>4. \A pc \in {"restored", "activated", "failed"} : [update EXCEPT ![user].pc = pc] \in [Users -> UpdateRecord]
    BY <1>2, <2>2 DEF UpdateType, UpdateRecord
  <2>5. CASE Inspect(user)
    <3>1. PICK to \in (checkout + 1)..MaxBuild :
            update' = [update EXCEPT ![user] = [pc |-> "inspected", from |-> checkout, to |-> to,
                         among |-> checkout \notin vetted \union abandoned]]
      BY <2>5 DEF Inspect
    <3>2. [pc |-> "inspected", from |-> checkout, to |-> to,
           among |-> checkout \notin vetted \union abandoned] \in UpdateRecord
      BY <1>2, PrivateStateAssumption DEF UpdateType, UpdateRecord
    <3>3. QED
      BY <1>2, <2>1, <2>5, <3>1, <3>2 DEF TypeInv, UpdateType, Inspect
  <2>6. CASE ~Inspect(user)
    <3>1. update' \in [Users -> UpdateRecord]
      BY <1>2, <1>13, <2>2, <2>4, <2>6 DEF UpdateType, Refuse, Restore, Activate, RunUpdateDoctor,
           RollBack, KillUpdate, Interrupt
    <3>2. checkout' \in Nat
      BY <1>2, <1>13, <2>3, <2>6 DEF UpdateType, Refuse, Restore, Activate, RunUpdateDoctor,
           RollBack, KillUpdate, Interrupt
    <3>3. QED
      BY <2>1, <3>1, <3>2 DEF TypeInv, UpdateType
  <2>7. QED
    BY <2>5, <2>6
<1>14. CASE StartMigration \/ RunMigration \/ KillMigration
  <2>1. OwnerAlive \in BOOLEAN
    BY DEF OwnerAlive
  <2>2. checkout \in Nat
    BY <1>2 DEF UpdateType
  <2>3. StateType'
    BY <1>2, <1>14, <2>1, <2>2, MigrationTyped DEF StartMigration, RunMigration, KillMigration
  <2>4. QED
    BY <1>2, <1>14, <2>3 DEF TypeInv, ProcessType, UpdateType, StartMigration, RunMigration,
         KillMigration, MigrationOnly, processVars, updateVars
<1>15. QED
  BY <1>1, <1>3, <1>4, <1>5, <1>6, <1>7, <1>8, <1>9, <1>10, <1>11, <1>12, <1>13, <1>14 DEF OperationsNext

-----------------------------------------------------------------------------
(* A migration and an owner that runs *)

LEMMA ExclusiveStep == OperationsInv /\ OperationsNext => Exclusive'
<1>1. SUFFICES ASSUME OperationsInv, OperationsNext PROVE Exclusive'
  OBVIOUS
<1>2. ProcessType /\ Exclusive
  BY <1>1 DEF OperationsInv, TypeInv
<1>3. ASSUME NEW d \in Processes,
             \/ Launch(d) \/ BeginLifecycle(d) \/ Construct(d) \/ BeginTurn(d) \/ Stale(d)
             \/ Shutdown(d) \/ RecordShutdown(d) \/ Crash(d)
      PROVE  Exclusive'
  <2>1. migration' = migration /\ epoch' = epoch
    BY <1>3 DEF Launch, BeginLifecycle, Construct, BeginTurn, Stale, Shutdown, RecordShutdown, Crash,
         stateVars
  <2>2. /\ daemon'[d].pc \notin {"new", "launched"} \/ (In(d, "new") /\ daemon'[d].pc = "launched")
        /\ daemon'[d].pc = "ended" \/ In(d, "new") \/ (daemon[d].raced /\ Committed => daemon'[d].raced)
    <3>1. CASE End(d)
      BY <1>2, <3>1, EndRecord
    <3>2. CASE Launch(d)
      BY <1>2, <3>2 DEF ProcessType, ProcessRecord, Launch
    <3>3. CASE BeginLifecycle(d)
      BY <1>2, <3>3 DEF ProcessType, ProcessRecord, BeginLifecycle
    <3>4. CASE Construct(d) /\ ~End(d)
      BY <1>2, <3>4 DEF ProcessType, Construct, NewProcess
    <3>5. CASE Shutdown(d) /\ ~End(d)
      BY <1>2, <3>5 DEF ProcessType, ProcessRecord, Shutdown
    <3>6. CASE BeginTurn(d)
      BY <1>2, <3>6 DEF ProcessType, ProcessRecord, BeginTurn, Move
    <3>7. QED
      BY <1>3, <3>1, <3>2, <3>3, <3>4, <3>5, <3>6 DEF Stale, RecordShutdown, Crash
  <2>3. Alive(d) \/ In(d, "new")
    BY <1>3 DEF Launch, BeginLifecycle, Construct, BeginTurn, Stale, Shutdown, RecordShutdown, Crash,
         In, Alive, Working
  <2>4. \A p \in Processes : p # d => daemon'[p] = daemon[p]
    BY <1>2, <1>3 DEF ProcessType, Launch, BeginLifecycle, Construct, BeginTurn, Move, Stale,
         Shutdown, RecordShutdown, Crash, End
  <2>5. CASE epoch = d
    BY <1>2, <2>1, <2>2, <2>3, <2>5 DEF Exclusive, OwnerAlive, Alive, In, Committed
  <2>6. CASE epoch # d
    BY <1>2, <2>1, <2>4, <2>6 DEF Exclusive, ProcessType, OwnerAlive, Alive, In, Committed
  <2>7. QED
    BY <2>5, <2>6
<1>4. ASSUME NEW d \in Processes, BeginEpoch(d) PROVE Exclusive'
  <2>1. epoch' = d /\ migration' = migration
    BY <1>4 DEF BeginEpoch, stateVars
  <2>2. daemon'[d].pc = "resolved" /\ daemon'[d].raced = Committed
    BY <1>2, <1>4 DEF ProcessType, ProcessRecord, BeginEpoch
  <2>3. QED
    BY <2>1, <2>2 DEF Exclusive, In, Committed
<1>5. ASSUME NEW d \in Processes, NEW f \in Files, Write(d, f) PROVE Exclusive'
  BY <1>2, <1>5 DEF Exclusive, Write, Save, OwnerAlive, Alive, In, Committed, processVars
<1>6. ASSUME NEW user \in Users,
             \/ Inspect(user) \/ Refuse(user) \/ Restore(user) \/ Activate(user)
             \/ RunUpdateDoctor(user) \/ RollBack(user) \/ KillUpdate(user)
      PROVE  Exclusive'
  BY <1>2, <1>6 DEF Exclusive, Inspect, Refuse, Restore, Activate, RunUpdateDoctor, RollBack,
       KillUpdate, OwnerAlive, Alive, In, Committed, processVars, stateVars
<1>7. CASE StartMigration \/ RunMigration \/ KillMigration
  <2>1. UNCHANGED <<daemon, epoch>>
    BY <1>7 DEF StartMigration, RunMigration, KillMigration, MigrationOnly, processVars
  <2>2. Committed' => Committed \/ ~OwnerAlive
    <3>1. Killed \/ Migrate(checkout) => ~Committed'
      BY IdleTyped DEF MigrationRecord, Killed, Migrate, Committed
    <3>2. MigrationStep(OwnerAlive) => Committed \/ ~OwnerAlive \/ ~Committed'
      BY IdleTyped DEF MigrationStep, RequireStopped, Replan, BackUpFile, BackedUp, WriteManifest,
           Validate, Fails, RestoreManifest, ReadFile, WriteFile, RestoreFile, Now, Committed
    <3>3. QED
      BY <1>7, <3>1, <3>2 DEF StartMigration, RunMigration, KillMigration
  <2>3. QED
    BY <1>2, <2>1, <2>2 DEF Exclusive, OwnerAlive, Alive, In
<1>8. QED
  BY <1>1, <1>3, <1>4, <1>5, <1>6, <1>7 DEF OperationsNext

(* A step of a migration changes the files, if at all, when it is past its *)
(* look at the daemon and stays so, and what they contain only where they  *)
(* were written beside it.                                                 *)
LEMMA MigrationKeeps ==
  ASSUME StateType, BackupCurrent, NEW b \in Nat,
         \/ Migrate(b)
         \/ \E alive \in BOOLEAN : MigrationStep(alive)
         \/ Killed
  PROVE  /\ \A f \in Files \ beside : file'[f].content = file[f].content
         /\ UNCHANGED file \/ (Committed /\ Committed')
         /\ Committed \/ UNCHANGED <<file, manifest>>
<1>1. CASE UNCHANGED <<file, manifest>>
  BY <1>1
<1>2. ASSUME NEW f \in Files, WriteFile(f)
      PROVE  /\ \A g \in Files \ beside : file'[g].content = file[g].content
             /\ Committed /\ Committed'
  <2>1. f \notin beside => migration.copy = file[f].content
    BY <1>2 DEF WriteFile, BackupCurrent, CopiesCurrent, MigrationStages, Now
  <2>2. Committed /\ Committed'
    BY <1>2 DEF StateType, MigrationRecord, WriteFile, Now, Committed
  <2>3. QED
    BY <1>2, <2>1, <2>2 DEF StateType, WriteFile
<1>3. ASSUME NEW f \in Files, RestoreFile(f)
      PROVE  /\ \A g \in Files \ beside : file'[g].content = file[g].content
             /\ UNCHANGED file \/ Committed'
             /\ Committed
  <2>1. f \notin beside => migration.backup[f].content = file[f].content
    BY <1>3 DEF RestoreFile, BackupCurrent, CopiesCurrent, MigrationStages, Copied, Now
  <2>2. Committed /\ (UNCHANGED file \/ Committed')
    BY <1>3 DEF StateType, MigrationRecord, RestoreFile, Now, Left, Committed
  <2>3. QED
    BY <1>3, <2>1, <2>2 DEF StateType, RestoreFile
<1>4. CASE UNCHANGED file /\ Committed
  BY <1>4
<1>5. QED
  BY <1>1, <1>2, <1>3, <1>4 DEF Migrate, Killed, MigrationStep, RequireStopped, Replan, BackUpFile,
       BackedUp, ReadFile, WriteManifest, Validate, Fails, RestoreManifest, Now, Committed

LEMMA BackupMigrates ==
  ASSUME StateType, BackupCurrent, NEW b \in Nat, beside' = {f \in beside : Committed'},
         \/ Migrate(b)
         \/ \E alive \in BOOLEAN : MigrationStep(alive)
         \/ Killed
  PROVE  BackupCurrent'
<1>1. ASSUME migration'.pc \notin MigrationStages PROVE CopiesCurrent'
  BY <1>1 DEF CopiesCurrent, MigrationStages
<1>2. ASSUME migration'.pc \in MigrationStages
      PROVE  beside' = beside
  BY <1>2 DEF Committed, MigrationStages
<1>3. ASSUME Replan, migration'.pc \in MigrationStages PROVE CopiesCurrent'
  <2>1. migration'.pc = "backup" /\ migration'.left = migration'.todo
    BY <1>3, IdleTyped DEF StateType, MigrationRecord, Replan, MigrationStages
  <2>2. QED
    BY <2>1 DEF BackupCurrent, CopiesCurrent, MigrationStages, Copied, Now
<1>4. ASSUME NEW f \in Files, BackUpFile(f) PROVE CopiesCurrent'
  <2>1. /\ migration.pc = "backup" /\ migration'.pc = "backup"
        /\ migration'.left = migration.left \ {f} /\ migration'.todo = migration.todo
        /\ migration'.backup = [migration.backup EXCEPT ![f] = file[f]]
        /\ file' = file
    BY <1>4 DEF StateType, MigrationRecord, BackUpFile, Now
  <2>2. migration.backup \in [Files -> FileRecord] /\ migration.todo \in SUBSET Files
    BY DEF StateType, MigrationRecord
  <2>3. \A g \in Files : migration'.backup[g] = IF g = f THEN file[f] ELSE migration.backup[g]
    BY <2>1, <2>2
  <2>4. QED
    BY <1>2, <2>1, <2>2, <2>3 DEF BackupCurrent, CopiesCurrent, MigrationStages, Copied, Now
<1>5. ASSUME NEW f \in Files, ReadFile(f) PROVE CopiesCurrent'
  <2>1. /\ migration.pc = "write" /\ migration'.pc = "write"
        /\ migration'.left = migration.left \ {f} /\ migration'.todo = migration.todo
        /\ migration'.backup = migration.backup
        /\ migration'.read = {f} /\ migration'.copy = file[f].content /\ file' = file
    BY <1>5 DEF StateType, MigrationRecord, ReadFile, Now
  <2>2. QED
    BY <1>2, <2>1 DEF BackupCurrent, CopiesCurrent, MigrationStages, Copied, Now
<1>6. ASSUME migration.pc \in MigrationStages, migration'.pc \in MigrationStages, migration'.pc # "backup",
             migration'.todo = migration.todo, migration'.backup = migration.backup,
             migration'.left \subseteq migration.todo,
             migration.pc = "backup" => migration.left = {},
             migration'.pc = "write" => migration'.read = {}
      PROVE  CopiesCurrent'
  <2>1. \A f \in Files \ beside : file'[f].content = file[f].content
    BY MigrationKeeps
  <2>2. migration.todo \in SUBSET Files
    BY DEF StateType, MigrationRecord
  <2>3. \A f \in migration.todo \ beside : migration.backup[f].content = file[f].content
    BY <1>6 DEF BackupCurrent, CopiesCurrent, MigrationStages, Copied, Now
  <2>4. QED
    BY <1>2, <1>6, <2>1, <2>2, <2>3 DEF BackupCurrent, CopiesCurrent, MigrationStages, Copied, Now
<1>7. ASSUME BackedUp, migration'.pc \in MigrationStages
      PROVE  CopiesCurrent'
  <2>1. migration.pc = "backup" /\ migration.left = {} /\ Left("write", migration.todo)
    BY <1>7, IdleTyped DEF BackedUp, Now, MigrationStages
  <2>2. /\ migration'.pc = "write" /\ migration'.todo = migration.todo
        /\ migration'.backup = migration.backup /\ migration'.left = migration.todo
        /\ migration'.read = migration.read
    BY <2>1 DEF StateType, MigrationRecord, Left
  <2>3. migration.read = {}
    BY <2>1 DEF BackupCurrent
  <2>4. QED
    BY <1>6, <1>7, <2>1, <2>2, <2>3 DEF MigrationStages
<1>8. ASSUME migration.pc \in {"write", "validate", "rollback"},
             \/ \E pc \in {"validate", "rollback"} : Enter(pc)
             \/ \E left \in SUBSET migration.todo : Left("rollback", left)
      PROVE  CopiesCurrent'
  <2>1. /\ migration'.pc \in {"validate", "rollback"} /\ migration'.todo = migration.todo
        /\ migration'.backup = migration.backup /\ migration'.left \subseteq migration.todo
    BY <1>8 DEF StateType, MigrationRecord, Enter, Left, BackupCurrent, CopiesCurrent, MigrationStages
  <2>2. QED
    BY <1>6, <1>8, <2>1 DEF MigrationStages
<1>9. ASSUME NEW f \in Files, WriteFile(f) PROVE CopiesCurrent'
  <2>1. /\ migration.pc = "write" /\ migration'.pc = "write" /\ migration'.todo = migration.todo
        /\ migration'.backup = migration.backup /\ migration'.left = migration.left
        /\ migration'.read = {}
    BY <1>9 DEF StateType, MigrationRecord, WriteFile, Now
  <2>2. migration.left \subseteq migration.todo
    BY <2>1 DEF BackupCurrent, CopiesCurrent, MigrationStages
  <2>3. QED
    BY <1>6, <2>1, <2>2 DEF MigrationStages
<1>10. ASSUME NEW f \in Files, RestoreFile(f), migration'.pc \in MigrationStages PROVE CopiesCurrent'
  <2>1. Left("rollback", migration.left \ {f}) /\ migration.pc = "rollback"
    BY <1>10, IdleTyped DEF RestoreFile, Now, MigrationStages
  <2>2. migration.left \ {f} \in SUBSET migration.todo
    BY <2>1 DEF BackupCurrent, CopiesCurrent, MigrationStages
  <2>3. QED
    BY <1>8, <2>1, <2>2
<1>11. ASSUME WriteManifest \/ Validate \/ Fails PROVE CopiesCurrent'
  <2>1. migration.pc \in {"write", "validate"}
    BY <1>11 DEF WriteManifest, Validate, Fails, Now
  <2>2. \/ migration' = NoMigration
        \/ Enter("validate")
        \/ Left("rollback", migration.todo)
    BY <1>11 DEF WriteManifest, Validate, Fails
  <2>3. CASE migration' = NoMigration
    BY <1>1, <2>3, IdleTyped DEF MigrationStages
  <2>4. migration.todo \in SUBSET migration.todo
    OBVIOUS
  <2>5. QED
    BY <1>8, <2>1, <2>2, <2>3, <2>4
<1>12. ASSUME Migrate(b) \/ Killed \/ RestoreManifest \/ \E alive \in BOOLEAN : RequireStopped(alive)
       PROVE  CopiesCurrent'
  <2>1. migration'.pc \notin MigrationStages
    BY <1>12, IdleTyped DEF StateType, MigrationRecord, Migrate, Killed, RestoreManifest,
         RequireStopped, Enter, MigrationStages
  <2>2. QED
    BY <1>1, <2>1
<1>13. CopiesCurrent'
  <2>1. ASSUME migration'.pc \in MigrationStages, NEW alive \in BOOLEAN, MigrationStep(alive)
        PROVE  CopiesCurrent'
    BY <1>3, <1>4, <1>5, <1>7, <1>9, <1>10, <1>11, <1>12, <2>1 DEF MigrationStep
  <2>2. QED
    BY <1>1, <1>12, <2>1
<1>14. migration'.pc \notin {"write", "rollback"} => migration'.read = {}
  <2>1. NoMigration.read = {}
    BY DEF NoMigration
  <2>2. migration.pc \notin {"write", "rollback"} => migration.read = {}
    BY DEF BackupCurrent
  <2>3. CASE migration' = NoMigration
    BY <2>1, <2>3
  <2>4. CASE Migrate(b) \/ \E alive \in BOOLEAN : RequireStopped(alive)
    BY <2>1, <2>2, <2>4 DEF StateType, MigrationRecord, Migrate, RequireStopped, Enter, Now, NoMigration
  <2>5. CASE Replan \/ BackedUp
    BY <2>1, <2>2, <2>5 DEF StateType, MigrationRecord, Replan, BackedUp, Left, Now
  <2>6. CASE Validate \/ Fails \/ WriteManifest
    BY <2>1, <2>2, <2>6 DEF StateType, MigrationRecord, Validate, Fails, WriteManifest, Left, Enter, Now
  <2>7. ASSUME NEW f \in Files, BackUpFile(f) \/ ReadFile(f) \/ WriteFile(f) \/ RestoreFile(f)
        PROVE  migration'.pc \notin {"write", "rollback"} => migration'.read = {}
    BY <2>1, <2>2, <2>7 DEF StateType, MigrationRecord, BackUpFile, ReadFile, WriteFile, RestoreFile,
         Left, Now
  <2>8. QED
    BY <2>3, <2>4, <2>5, <2>6, <2>7 DEF MigrationStep, Killed, RestoreManifest
<1>15. QED
  BY <1>13, <1>14 DEF BackupCurrent

LEMMA BackupStep == OperationsInv /\ OperationsNext => BackupCurrent'
<1>1. SUFFICES ASSUME OperationsInv, OperationsNext PROVE BackupCurrent'
  OBVIOUS
<1>2. StateType /\ ProcessType /\ UpdateType /\ BackupCurrent /\ Exclusive
  BY <1>1 DEF OperationsInv, TypeInv
<1>3. CASE StartMigration \/ RunMigration \/ KillMigration
  <2>1. checkout \in Nat /\ OwnerAlive \in BOOLEAN
    BY <1>2 DEF UpdateType, OwnerAlive
  <2>2. beside' = {f \in beside : Committed'}
    BY <1>3 DEF StartMigration, RunMigration, KillMigration, MigrationOnly
  <2>3. QED
    BY <1>2, <1>3, <2>1, <2>2, BackupMigrates DEF StartMigration, RunMigration, KillMigration
(* Whoever writes beside a migration is one it could not see.              *)
<1>4. ASSUME NEW d \in Processes, NEW f \in Files, Write(d, f) PROVE BackupCurrent'
  <2>1. migration' = migration /\ \A g \in Files \ {f} : file'[g] = file[g]
    BY <1>2, <1>4 DEF StateType, Write, Save
  <2>2. Committed => epoch # d \/ daemon[d].raced
    BY <1>2, <1>4 DEF Exclusive, OwnerAlive, Alive, In, Working, Write, Processes, NoProcess
  <2>3. Committed => beside' = beside \union {f}
    BY <1>4, <2>2 DEF Write
  <2>4. migration.pc \in MigrationStages => Committed
    BY DEF MigrationStages, Committed
  <2>5. Copied \in SUBSET Files /\ migration.read \in SUBSET Files
    BY <1>2 DEF StateType, MigrationRecord, Copied
  <2>6. Copied' = Copied
    BY <2>1 DEF Copied, Now
  <2>7. QED
    BY <1>2, <2>1, <2>3, <2>4, <2>5, <2>6 DEF BackupCurrent, CopiesCurrent, Now
<1>5. CASE UNCHANGED <<stateVars, beside>>
  BY <1>2, <1>5 DEF BackupCurrent, CopiesCurrent, Copied, Now, stateVars
<1>6. ASSUME NEW d \in Processes,
             \/ Launch(d) \/ BeginEpoch(d) \/ BeginLifecycle(d) \/ Construct(d) \/ BeginTurn(d)
             \/ Stale(d) \/ Shutdown(d) \/ RecordShutdown(d) \/ Crash(d)
      PROVE  BackupCurrent'
  BY <1>5, <1>6 DEF Launch, BeginEpoch, BeginLifecycle, Construct, BeginTurn, Stale, Shutdown,
       RecordShutdown, Crash, historyVars
<1>7. ASSUME NEW user \in Users,
             \/ Inspect(user) \/ Refuse(user) \/ Restore(user) \/ Activate(user)
             \/ RunUpdateDoctor(user) \/ RollBack(user) \/ KillUpdate(user)
      PROVE  BackupCurrent'
  BY <1>5, <1>7 DEF Inspect, Refuse, Restore, Activate, RunUpdateDoctor, RollBack, KillUpdate,
       historyVars
<1>8. QED
  BY <1>1, <1>3, <1>4, <1>6, <1>7 DEF OperationsNext

-----------------------------------------------------------------------------
(* The record of the last run *)

LEMMA LifecycleStep == OperationsInv /\ OperationsNext => LifecycleKept' /\ StopReported'
<1>1. SUFFICES ASSUME OperationsInv, OperationsNext PROVE LifecycleKept' /\ StopReported'
  OBVIOUS
<1>2. ProcessType /\ LifecycleKept /\ StopReported
  BY <1>1 DEF OperationsInv, TypeInv
<1>3. CASE UNCHANGED processVars
  BY <1>2, <1>3 DEF LifecycleKept, StopReported, processVars, In, Warning
<1>4. ASSUME NEW d \in Processes,
             \A p \in Processes \ {d} : daemon'[p] = daemon[p],
             ~In(d, "ended"), daemon'[d].pc # "new",
             daemon'[d].owed => daemon[d].owed /\ (daemon[d].warning => daemon'[d].warning),
             UNCHANGED <<lifecycle, last, overlapped>>
      PROVE  LifecycleKept' /\ StopReported'
  <2>1. LifecycleKept'
    <3>1. CASE last = d
      BY <1>2, <1>4, <3>1 DEF LifecycleKept, In, Warning
    <3>2. CASE last # d
      BY <1>2, <1>4, <3>2 DEF LifecycleKept, ProcessType, In, Warning
    <3>3. QED
      BY <3>1, <3>2
  <2>2. StopReported'
    BY <1>2, <1>4 DEF StopReported
  <2>3. QED
    BY <2>1, <2>2
<1>5. ASSUME NEW d \in Processes, Stale(d) \/ Crash(d) \/ (Construct(d) /\ End(d)) \/ (Shutdown(d) /\ End(d))
      PROVE  LifecycleKept' /\ StopReported'
  <2>1. ~In(d, "ended") /\ End(d) /\ UNCHANGED <<lifecycle, last, overlapped>>
    BY <1>5 DEF Stale, Crash, Construct, Shutdown, Alive, Working, In
  <2>2. QED
    BY <1>2, <1>4, <2>1, EndRecord
<1>6. ASSUME NEW d \in Processes,
             Launch(d) \/ BeginEpoch(d) \/ BeginTurn(d) \/ (Construct(d) /\ ~End(d)) \/ (Shutdown(d) /\ ~End(d))
      PROVE  LifecycleKept' /\ StopReported'
  <2>1. ~In(d, "ended") /\ UNCHANGED <<lifecycle, last, overlapped>>
    BY <1>6 DEF Launch, BeginEpoch, BeginTurn, Construct, Shutdown, Working, In
  <2>2. /\ \A p \in Processes \ {d} : daemon'[p] = daemon[p]
        /\ daemon'[d].pc # "new"
        /\ daemon'[d].owed => daemon[d].owed /\ (daemon[d].warning => daemon'[d].warning)
    <3>1. CASE Launch(d)
      BY <1>2, <3>1 DEF ProcessType, ProcessRecord, Launch
    <3>2. CASE BeginEpoch(d)
      BY <1>2, <3>2 DEF ProcessType, ProcessRecord, BeginEpoch
    <3>3. CASE Construct(d) /\ ~End(d)
      BY <1>2, <3>3 DEF ProcessType, ProcessRecord, Construct, NewProcess
    <3>4. CASE Shutdown(d) /\ ~End(d)
      BY <1>2, <3>4 DEF ProcessType, ProcessRecord, Shutdown
    <3>5. CASE BeginTurn(d)
      BY <1>2, <3>5 DEF ProcessType, ProcessRecord, BeginTurn, Move
    <3>6. QED
      BY <1>6, <3>1, <3>2, <3>3, <3>4, <3>5
  <2>3. QED
    BY <1>4, <2>1, <2>2
(* A record of an end is that of the process that began it last, or it     *)
(* says that the two overlapped.                                           *)
<1>7. ASSUME NEW d \in Processes, RecordShutdown(d) PROVE LifecycleKept' /\ StopReported'
  <2>1. End(d) /\ last' = last
    BY <1>7 DEF RecordShutdown
  <2>2. ~overlapped' => ~overlapped /\ last = d
    BY <1>7 DEF RecordShutdown
  <2>3. daemon[d].told \/ lifecycle' = "untold"
    BY <1>7 DEF RecordShutdown
  <2>4. LifecycleKept'
    BY <2>1, <2>2, <2>3, <1>2, EndRecord DEF LifecycleKept, In, Warning
  <2>5. StopReported'
    BY <2>1, <2>2, <1>2, EndRecord DEF StopReported
  <2>6. QED
    BY <2>4, <2>5
<1>8. ASSUME NEW d \in Processes, BeginLifecycle(d) PROVE LifecycleKept' /\ StopReported'
  <2>1. lifecycle' = "running" /\ last' = d
    BY <1>8 DEF BeginLifecycle
  <2>2. \A p \in Processes \ {d} : daemon'[p] = daemon[p]
    BY <1>2, <1>8 DEF ProcessType, BeginLifecycle
  <2>3. daemon'[d].pc = "recorded" /\ daemon'[d].warning = Warning(lifecycle)
    BY <1>2, <1>8 DEF ProcessType, ProcessRecord, BeginLifecycle
  <2>4. daemon'[d].owed => last # NoProcess /\ In(last, "ended") /\ ~daemon[last].told /\ ~overlapped
    BY <1>2, <1>8 DEF ProcessType, ProcessRecord, BeginLifecycle
  <2>5. LifecycleKept'
    BY <2>1, <2>3 DEF LifecycleKept, In
  <2>6. StopReported'
    BY <1>2, <2>1, <2>2, <2>3, <2>4 DEF StopReported, LifecycleKept
  <2>7. QED
    BY <2>5, <2>6
<1>9. ASSUME NEW d \in Processes, NEW f \in Files, Write(d, f)
      PROVE  LifecycleKept' /\ StopReported'
  BY <1>3, <1>9 DEF Write
<1>10. ASSUME NEW user \in Users,
              \/ Inspect(user) \/ Refuse(user) \/ Restore(user) \/ Activate(user)
              \/ RunUpdateDoctor(user) \/ RollBack(user) \/ KillUpdate(user)
       PROVE  LifecycleKept' /\ StopReported'
  BY <1>3, <1>10 DEF Inspect, Refuse, Restore, Activate, RunUpdateDoctor, RollBack, KillUpdate
<1>11. CASE StartMigration \/ RunMigration \/ KillMigration
  BY <1>3, <1>11 DEF StartMigration, RunMigration, KillMigration, MigrationOnly
<1>12. QED
  BY <1>1, <1>5, <1>6, <1>7, <1>8, <1>9, <1>10, <1>11 DEF OperationsNext

-----------------------------------------------------------------------------
(* The checkout *)

LEMMA InterruptVetted ==
  ASSUME UpdateType, VettedInv, NEW user \in Users, Interrupt(user), vetted' = vetted
  PROVE  VettedInv'
<1>1. \A other \in Users : update'[other] = IF other = user THEN NoUpdate ELSE update[other]
  BY DEF UpdateType, Interrupt
<1>2. checkout' = checkout /\ abandoned \subseteq abandoned'
  BY DEF Interrupt
<1>3. UnderWay(user) => checkout \in vetted \union abandoned'
  BY DEF Interrupt
<1>4. checkout' \in vetted' \union abandoned' \/ \E other \in Users : UnderWay(other)'
  <2>1. \A other \in Users \ {user} : UnderWay(other)' <=> UnderWay(other)
    BY <1>1 DEF UnderWay
  <2>2. QED
    BY <1>2, <1>3, <2>1 DEF VettedInv
<1>5. QED
  BY <1>1, <1>2, <1>4 DEF VettedInv, Updating, NoUpdate

LEMMA VettedStep == OperationsInv /\ OperationsNext => VettedInv'
<1>1. SUFFICES ASSUME OperationsInv, OperationsNext PROVE VettedInv'
  OBVIOUS
<1>2. UpdateType /\ VettedInv
  BY <1>1 DEF OperationsInv, TypeInv
<1>3. CASE UNCHANGED updateVars
  BY <1>2, <1>3 DEF VettedInv, UnderWay, Updating, updateVars
<1>4. ASSUME NEW d \in Processes, Crash(d) \/ Shutdown(d) PROVE VettedInv'
  BY <1>2, <1>4, InterruptVetted, UsersKnown DEF Crash, Shutdown, Interrupt
<1>5. ASSUME NEW user \in Users, KillUpdate(user) PROVE VettedInv'
  BY <1>2, <1>5, InterruptVetted DEF KillUpdate, Interrupt
(* A step that moves the update of one user and loses no verdict.          *)
<1>6. ASSUME NEW user \in Users, NEW r,
             update' = [update EXCEPT ![user] = r],
             vetted \union abandoned \subseteq vetted' \union abandoned',
             \/ r.pc \in {"restored", "activated", "failed"}
             \/ checkout' \in vetted' \union abandoned'
             \/ checkout' = checkout /\ ~UnderWay(user),
             r.pc # "off" => r.among \/ r.from \in vetted' \union abandoned'
      PROVE  VettedInv'
  <2>1. \A other \in Users : update'[other] = IF other = user THEN r ELSE update[other]
    BY <1>2, <1>6 DEF UpdateType
  <2>2. \A other \in Users \ {user} : UnderWay(other)' <=> UnderWay(other)
    BY <2>1 DEF UnderWay
  <2>3. r.pc \in {"restored", "activated", "failed"} => UnderWay(user)'
    BY <2>1 DEF UnderWay
  <2>4. checkout' \in vetted' \union abandoned' \/ \E other \in Users : UnderWay(other)'
    BY <1>2, <1>6, <2>2, <2>3 DEF VettedInv
  <2>5. QED
    BY <1>2, <1>6, <2>1, <2>4 DEF VettedInv, Updating
<1>7. ASSUME NEW user \in Users, Inspect(user) PROVE VettedInv'
  <2>1. PICK to \in (checkout + 1)..MaxBuild :
          update' = [update EXCEPT ![user] = [pc |-> "inspected", from |-> checkout, to |-> to,
                       among |-> checkout \notin vetted \union abandoned]]
    BY <1>7 DEF Inspect
  <2> DEFINE r == [pc |-> "inspected", from |-> checkout, to |-> to,
                   among |-> checkout \notin vetted \union abandoned]
  <2>2. r.among \/ r.from \in vetted \union abandoned
    OBVIOUS
  <2>3. ~UnderWay(user) /\ UNCHANGED <<checkout, vetted, abandoned>>
    BY <1>7 DEF Inspect, Updating, UnderWay
  <2>4. update' = [update EXCEPT ![user] = r]
    BY <2>1
  <2> HIDE DEF r
  <2>5. QED
    BY <1>6, <2>2, <2>3, <2>4
<1>8. ASSUME NEW user \in Users, Refuse(user) PROVE VettedInv'
  BY <1>6, <1>8 DEF Refuse, Updating, UnderWay, NoUpdate
<1>9. ASSUME NEW user \in Users, NEW pc \in {"restored", "activated", "failed"},
             update' = [update EXCEPT ![user].pc = pc], ~Updating(user, "off"),
             UNCHANGED <<vetted, abandoned>>
      PROVE  VettedInv'
  <2> DEFINE r == [update[user] EXCEPT !.pc = pc]
  <2>1. update' = [update EXCEPT ![user] = r]
    BY <1>9
  <2>2. r.pc = pc /\ r.among = update[user].among /\ r.from = update[user].from
    BY <1>2 DEF UpdateType, UpdateRecord
  <2> HIDE DEF r
  <2>3. QED
    BY <1>2, <1>6, <1>9, <2>1, <2>2 DEF VettedInv
<1>10. ASSUME NEW user \in Users, Restore(user) PROVE VettedInv'
  BY <1>9, <1>10 DEF Restore, Updating
<1>11. ASSUME NEW user \in Users, Activate(user) PROVE VettedInv'
  BY <1>2, <1>9, <1>11, InterruptVetted DEF Activate, Updating
<1>12. ASSUME NEW user \in Users, RunUpdateDoctor(user) PROVE VettedInv'
  <2>1. CASE UNCHANGED vetted /\ UNCHANGED abandoned /\ update' = [update EXCEPT ![user].pc = "failed"]
    BY <1>9, <1>12, <2>1 DEF RunUpdateDoctor, Updating
  <2>2. CASE /\ vetted' = vetted \union {checkout} /\ abandoned' = abandoned \ {checkout}
             /\ update' = [update EXCEPT ![user] = NoUpdate]
    <3>1. checkout' = checkout
      BY <1>12 DEF RunUpdateDoctor
    <3>2. QED
      BY <1>6, <2>2, <3>1 DEF NoUpdate
  <2>3. QED
    BY <1>12, <2>1, <2>2 DEF RunUpdateDoctor
<1>13. ASSUME NEW user \in Users, RollBack(user) PROVE VettedInv'
  <2>1. update[user].among \/ update[user].from \in vetted \union abandoned
    BY <1>2, <1>13 DEF RollBack, Updating, VettedInv
  <2>2. checkout' \in vetted' \union abandoned'
    BY <1>13, <2>1 DEF RollBack
  <2>3. vetted \union abandoned \subseteq vetted' \union abandoned'
    BY <1>13 DEF RollBack
  <2>4. update' = [update EXCEPT ![user] = NoUpdate]
    BY <1>13 DEF RollBack
  <2>5. QED
    BY <1>6, <2>2, <2>3, <2>4 DEF NoUpdate
<1>14. ASSUME NEW d \in Processes,
              \/ Launch(d) \/ BeginEpoch(d) \/ BeginLifecycle(d) \/ Construct(d) \/ BeginTurn(d)
              \/ Stale(d) \/ RecordShutdown(d) \/ \E f \in Files : Write(d, f)
       PROVE  VettedInv'
  BY <1>3, <1>14 DEF Launch, BeginEpoch, BeginLifecycle, Construct, BeginTurn, Stale, RecordShutdown,
       Write
<1>15. CASE StartMigration \/ RunMigration \/ KillMigration
  BY <1>3, <1>15 DEF StartMigration, RunMigration, KillMigration, MigrationOnly
<1>16. QED
  BY <1>1, <1>4, <1>5, <1>7, <1>8, <1>10, <1>11, <1>12, <1>13, <1>14, <1>15 DEF OperationsNext

-----------------------------------------------------------------------------
(* The build of the owner *)

LEMMA AheadStep == OperationsInv /\ OperationsNext => NeverAhead'
<1>1. SUFFICES ASSUME OperationsInv, OperationsNext PROVE NeverAhead'
  OBVIOUS
<1>2. StateType /\ ProcessType /\ UpdateType /\ Exclusive /\ BackupCurrent /\ NeverAhead
  BY <1>1 DEF OperationsInv, TypeInv
<1>3. CASE UNCHANGED <<daemon, epoch, file, manifest, late>>
  BY <1>2, <1>3 DEF NeverAhead, Working
(* A process that is not at work after its step leaves it to the others.   *)
<1>4. ASSUME NEW d \in Processes,
             \A p \in Processes \ {d} : daemon'[p] = daemon[p],
             ~Working(d)', epoch' \in {epoch, d}, late' = late \/ epoch' = d,
             UNCHANGED stateVars
      PROVE  NeverAhead'
  BY <1>2, <1>4 DEF NeverAhead, Working, stateVars
<1>5. ASSUME NEW d \in Processes, UNCHANGED <<stateVars, epoch, late>>, End(d)
      PROVE  NeverAhead'
  BY <1>2, <1>4, <1>5, EndRecord DEF Working
<1>6. ASSUME NEW d \in Processes, Stale(d) \/ Crash(d) \/ RecordShutdown(d) PROVE NeverAhead'
  BY <1>5, <1>6 DEF Stale, Crash, RecordShutdown, historyVars
<1>7. ASSUME NEW d \in Processes, Launch(d) \/ BeginEpoch(d) \/ BeginLifecycle(d)
      PROVE  NeverAhead'
  <2>1. \A p \in Processes \ {d} : daemon'[p] = daemon[p]
    BY <1>2, <1>7 DEF ProcessType, Launch, BeginEpoch, BeginLifecycle
  <2>2. daemon'[d].pc \notin {"running", "handling"}
    BY <1>2, <1>7 DEF ProcessType, ProcessRecord, Launch, BeginEpoch, BeginLifecycle
  <2>3. epoch' \in {epoch, d} /\ UNCHANGED stateVars
    BY <1>7 DEF Launch, BeginEpoch, BeginLifecycle
  <2>4. late' = late \/ epoch' = d
    BY <1>7 DEF Launch, BeginEpoch, BeginLifecycle, historyVars
  <2>5. QED
    BY <1>4, <2>1, <2>2, <2>3, <2>4 DEF Working
<1>8. ASSUME NEW d \in Processes, Construct(d) PROVE NeverAhead'
  <2>1. UNCHANGED <<stateVars, epoch, late>>
    BY <1>8 DEF Construct, historyVars
  <2>2. CASE End(d)
    BY <1>5, <2>1, <2>2
  <2>3. CASE ~End(d)
    <3>1. /\ Supported(daemon[d].build) /\ daemon'[d].build = daemon[d].build
          /\ \A p \in Processes \ {d} : daemon'[p] = daemon[p]
      BY <1>2, <1>8, <2>3 DEF ProcessType, Construct, NewProcess
    <3>2. Fenced \subseteq Files
      BY OperationsAssumption
    <3>3. QED
      BY <1>2, <2>1, <3>1, <3>2 DEF NeverAhead, Working, Supported, stateVars
  <2>4. QED
    BY <2>2, <2>3
<1>9. ASSUME NEW d \in Processes, Shutdown(d) PROVE NeverAhead'
  <2>1. UNCHANGED <<stateVars, epoch, late>>
    BY <1>9 DEF Shutdown, historyVars
  <2>2. CASE End(d)
    BY <1>5, <2>1, <2>2
  <2>3. CASE ~End(d)
    <3>1. daemon'[d].pc = "stopping" /\ \A p \in Processes \ {d} : daemon'[p] = daemon[p]
      BY <1>2, <1>9, <2>3 DEF ProcessType, ProcessRecord, Shutdown
    <3>2. QED
      BY <1>4, <2>1, <3>1 DEF Working
  <2>4. QED
    BY <2>2, <2>3
<1>10. ASSUME NEW d \in Processes, BeginTurn(d) PROVE NeverAhead'
  <2>1. \A p \in Processes : /\ daemon'[p].build = daemon[p].build /\ daemon'[p].raced = daemon[p].raced
                             /\ daemon'[p].pc \in {"running", "handling"} => Working(p)
    BY <1>2, <1>10 DEF ProcessType, ProcessRecord, BeginTurn, Move, In, Working
  <2>2. UNCHANGED <<file, manifest, epoch, late>>
    BY <1>10 DEF BeginTurn, stateVars, historyVars
  <2>3. QED
    BY <1>2, <2>1, <2>2 DEF NeverAhead, Working
(* The owner writes in the version of its own build; another process of a  *)
(* later build writes only what is not fenced, and that is late.           *)
<1>11. ASSUME NEW d \in Processes, NEW f \in Files, Write(d, f) PROVE NeverAhead'
  <2>1. UNCHANGED <<daemon, epoch, manifest>>
    BY <1>11 DEF Write, Save, processVars
  <2>2. \A g \in Files : file'[g].version = IF g = f THEN daemon[d].build ELSE file[g].version
    BY <1>2, <1>11 DEF StateType, Write, Save
  <2>3. \A p \in Processes : daemon[p].build \in Nat
    BY <1>2 DEF ProcessType, ProcessRecord
  <2>4. late \subseteq late'
    BY <1>11 DEF Write
  <2>5. Fenced \subseteq Files
    BY OperationsAssumption
  <2>6. ASSUME NEW p \in Processes, Working(p), epoch = p, ~daemon[p].raced
        PROVE  /\ manifest <= daemon[p].build
               /\ \A g \in (Files \ late') \union Fenced : file'[g].version <= daemon[p].build
    <3>1. /\ manifest <= daemon[p].build
          /\ \A g \in (Files \ late') \union Fenced : file[g].version <= daemon[p].build
      BY <1>2, <2>4, <2>6 DEF NeverAhead
    <3>2. f \in (Files \ late') \union Fenced => daemon[d].build <= daemon[p].build
      <4>1. CASE d = p
        BY <2>3, <4>1
      <4>2. CASE d # p
        <5>1. f \notin Fenced /\ OwnerWorks
          BY <1>11, <2>6, <4>2 DEF Write, OwnerWorks, Processes, NoProcess
        <5>2. daemon[p].build < daemon[d].build => f \in late'
          BY <1>11, <2>6, <4>2, <5>1 DEF Write
        <5>3. QED
          BY <2>3, <5>1, <5>2
      <4>3. QED
        BY <4>1, <4>2
    <3>3. QED
      BY <2>2, <2>5, <3>1, <3>2
  <2>7. QED
    BY <2>1, <2>6 DEF NeverAhead, Working
(* No migration writes beside an owner it could have seen.                 *)
<1>12. CASE StartMigration \/ RunMigration \/ KillMigration
  <2>1. UNCHANGED <<daemon, epoch, late>>
    BY <1>12 DEF StartMigration, RunMigration, KillMigration, MigrationOnly, processVars
  <2>2. CASE Committed
    <3>1. OwnerAlive => daemon[epoch].raced
      BY <1>2, <2>2 DEF Exclusive
    <3>2. QED
      BY <2>1, <3>1 DEF NeverAhead, OwnerAlive, Alive, In, Working, Processes, NoProcess
  <2>3. CASE ~Committed
    <3>1. checkout \in Nat /\ OwnerAlive \in BOOLEAN
      BY <1>2 DEF UpdateType, OwnerAlive
    <3>2. UNCHANGED <<file, manifest>>
      BY <1>2, <1>12, <2>3, <3>1, MigrationKeeps DEF StartMigration, RunMigration, KillMigration
    <3>3. QED
      BY <1>3, <2>1, <3>2
  <2>4. QED
    BY <2>2, <2>3
<1>13. ASSUME NEW user \in Users,
              \/ Inspect(user) \/ Refuse(user) \/ Restore(user) \/ Activate(user)
              \/ RunUpdateDoctor(user) \/ RollBack(user) \/ KillUpdate(user)
       PROVE  NeverAhead'
  BY <1>3, <1>13 DEF Inspect, Refuse, Restore, Activate, RunUpdateDoctor, RollBack, KillUpdate,
       stateVars, processVars, historyVars
<1>14. QED
  BY <1>1, <1>6, <1>7, <1>8, <1>9, <1>10, <1>11, <1>12, <1>13 DEF OperationsNext

-----------------------------------------------------------------------------
LEMMA StepInv == OperationsInv /\ [OperationsNext]_operationVars => OperationsInv'
<1>1. CASE OperationsInv /\ OperationsNext
  BY <1>1, StepTyped, ExclusiveStep, BackupStep, LifecycleStep, VettedStep, AheadStep
     DEF OperationsInv
<1>2. CASE OperationsInv /\ UNCHANGED operationVars
  <2>1. TypeInv'
    BY <1>2 DEF operationVars, stateVars, processVars, updateVars, OperationsInv, TypeInv, StateType,
         ProcessType, UpdateType
  <2>2. Exclusive' /\ LifecycleKept' /\ StopReported'
    BY <1>2 DEF operationVars, stateVars, processVars, OperationsInv, Exclusive, LifecycleKept,
         StopReported, Committed, OwnerAlive, Alive, In, Warning
  <2>3. BackupCurrent'
    BY <1>2 DEF operationVars, stateVars, historyVars, OperationsInv, BackupCurrent, CopiesCurrent,
         Copied, Now
  <2>4. VettedInv' /\ NeverAhead'
    BY <1>2 DEF operationVars, stateVars, processVars, updateVars, historyVars, OperationsInv,
         VettedInv, UnderWay, Updating, NeverAhead, Working
  <2>5. QED
    BY <2>1, <2>2, <2>3, <2>4 DEF OperationsInv
<1>3. QED
  BY <1>1, <1>2

THEOREM OperationsInvCorrect == OperationsSpec => []OperationsInv
BY InitInv, StepInv, PTL DEF OperationsSpec

(* The daemon that owns the state supports it for as long as it runs, but  *)
(* for what a replaced one wrote since: the check in the constructor is    *)
(* enough for all else, because a later build writes what is fenced only   *)
(* under a later epoch and a migration looks for a daemon before it begins.*)
THEOREM NeverAheadCorrect == OperationsSpec => []NeverAhead
<1>1. OperationsInv => NeverAhead
  BY DEF OperationsInv
<1>2. QED
  BY <1>1, OperationsInvCorrect, PTL

(* Updates that came to their ends leave a build the doctor has passed,    *)
(* however many ran at once, or one that is known as left there: by an     *)
(* update that was killed, that failed after its restore, that could not   *)
(* go back, or that went back to what another one had not judged yet.      *)
THEOREM VettedCorrect == OperationsSpec => []Vetted
<1>1. OperationsInv => Vetted
  BY DEF OperationsInv, VettedInv, Vetted
<1>2. QED
  BY <1>1, OperationsInvCorrect, PTL

(* A run that ended untold is reported by the process that follows it,     *)
(* unless another recorded its stop in between.                            *)
THEOREM StopReportedCorrect == OperationsSpec => []StopReported
<1>1. OperationsInv => StopReported
  BY DEF OperationsInv
<1>2. QED
  BY <1>1, OperationsInvCorrect, PTL

(* No step of a migration, of a daemon or of an update takes away what a   *)
(* daemon wrote, but in a file that was written beside the migration by a  *)
(* daemon its look could not find.                                         *)
THEOREM ContentCorrect == OperationsSpec => ContentKept
<1>1. OperationsInv /\ OperationsNext =>
        \A f \in Files \ beside' : file'[f].content >= file[f].content
  <2>1. SUFFICES ASSUME OperationsInv, OperationsNext
                 PROVE  \A f \in Files \ beside' : file'[f].content >= file[f].content
    OBVIOUS
  <2>2. StateType /\ UpdateType /\ BackupCurrent
    BY <2>1 DEF OperationsInv, TypeInv
  <2>3. \A f \in Files : file[f].content \in Nat
    BY <2>2 DEF StateType, FileRecord
  <2>4. CASE UNCHANGED file
    BY <2>3, <2>4
  <2>5. CASE StartMigration \/ RunMigration \/ KillMigration
    <3>1. checkout \in Nat /\ OwnerAlive \in BOOLEAN
      BY <2>2 DEF UpdateType, OwnerAlive
    <3>2. beside' = {f \in beside : Committed'}
      BY <2>5 DEF StartMigration, RunMigration, KillMigration, MigrationOnly
    <3>3. /\ \A f \in Files \ beside : file'[f].content = file[f].content
          /\ UNCHANGED file \/ Committed'
      BY <2>2, <2>5, <3>1, MigrationKeeps DEF StartMigration, RunMigration, KillMigration
    <3>4. QED
      BY <2>3, <2>4, <3>2, <3>3
  <2>6. ASSUME NEW d \in Processes, NEW f \in Files, Write(d, f)
        PROVE  \A g \in Files : file'[g].content >= file[g].content
    BY <2>2, <2>3, <2>6 DEF StateType, Write, Save
  <2>7. ASSUME NEW d \in Processes,
               \/ Launch(d) \/ BeginEpoch(d) \/ BeginLifecycle(d) \/ Construct(d) \/ BeginTurn(d)
               \/ Stale(d) \/ Shutdown(d) \/ RecordShutdown(d) \/ Crash(d)
        PROVE  UNCHANGED file
    BY <2>7 DEF Launch, BeginEpoch, BeginLifecycle, Construct, BeginTurn, Stale, Shutdown,
         RecordShutdown, Crash, stateVars
  <2>8. ASSUME NEW user \in Users,
               \/ Inspect(user) \/ Refuse(user) \/ Restore(user) \/ Activate(user)
               \/ RunUpdateDoctor(user) \/ RollBack(user) \/ KillUpdate(user)
        PROVE  UNCHANGED file
    BY <2>8 DEF Inspect, Refuse, Restore, Activate, RunUpdateDoctor, RollBack, KillUpdate, stateVars
  <2>9. QED
    BY <2>1, <2>4, <2>5, <2>6, <2>7, <2>8 DEF OperationsNext
<1>2. OperationsInv /\ [OperationsNext]_operationVars =>
        [\A f \in Files \ beside' : file'[f].content >= file[f].content]_operationVars
  BY <1>1
<1>3. QED
  BY <1>2, OperationsInvCorrect, PTL DEF OperationsSpec, ContentKept

-----------------------------------------------------------------------------
(* Evolution: what its variables hold *)

Modes    == {"disabled", "co-evolve", "auto-evolve"}
Commands == {"", "scan", "propose", "brainstorm", "approve", "remove", "threshold", "check"}
Stages   == {"idle", "scan", "answer", "record", "synthesize", "link", "brainstorm", "ideas", "curate",
             "close", "record_proposal", "acknowledge", "approve", "enqueue", "promote", "remove", "dispose"}
Signals    == Records \X Nat
Candidates == Ideas \union [of : SUBSET Signals, title : Titles]
Choice     == Candidates \union {Nothing}
Batches    == UNION {[S -> Nat] : S \in SUBSET Records}
RunRecord  ==
  [kind : Commands, pc : Stages, command : Choice, event : Nat, source : {"feedback", "experience"},
   batch : Batches, found : SUBSET Signals, more : BOOLEAN, drafts : SUBSET Candidates, top : Choice]
OwedRecord == [kind : Commands, command : Choice, event : Nat, crashed : BOOLEAN]

EvolutionTyped ==
  /\ mode \in Modes /\ commands \in Nat /\ failed \subseteq Choice
  /\ latest \in [Records -> Nat] /\ scanned \in [Records -> Nat] /\ read \in [Records -> SUBSET Nat]
  /\ DOMAIN evidence \subseteq Signals
  /\ DOMAIN store \subseteq Candidates
  /\ tasks \subseteq Candidates \X Nat
  /\ run \in RunRecord /\ owed \in OwedRecord

LEMMA RestingFits == Resting \in RunRecord
<1>1. <<>> \in [{} -> Nat]
  OBVIOUS
<1>2. <<>> \in Batches
  BY <1>1 DEF Batches
<1>3. QED
  BY <1>2 DEF Resting, RunRecord, Commands, Stages, Choice

LEMMA NoneFits == None \in OwedRecord
BY DEF None, OwedRecord, Commands, Choice

LEMMA GotoFits ==
  ASSUME run \in RunRecord, NEW pc \in Stages, Goto(pc)
  PROVE  /\ run' \in RunRecord /\ run'.pc = pc
         /\ run'.kind = run.kind /\ run'.event = run.event /\ run'.command = run.command
BY DEF Goto, RunRecord

LEMMA ScannedFits ==
  ASSUME run \in RunRecord, run' = Scanned(run.source)
  PROVE  /\ run' \in RunRecord /\ run'.pc \in {"idle", "scan", "synthesize"}
         /\ run' = Resting \/ (run'.kind = run.kind /\ run'.event = run.event)
<1>1. Resting \in RunRecord /\ Resting.pc = "idle" /\ Resting.batch = <<>>
  BY RestingFits DEF Resting
<1>2. <<>> \in Batches
  BY <1>1 DEF RunRecord
<1>3. CASE run.source = "feedback"
  <2>1. run' = [run EXCEPT !.pc = "scan", !.source = "experience", !.batch = <<>>, !.found = {}]
    BY <1>3 DEF Scanned
  <2>2. QED
    BY <1>2, <2>1 DEF RunRecord, Stages
<1>4. CASE run.source # "feedback" /\ Proposing
  <2>1. run' = [run EXCEPT !.pc = "synthesize", !.batch = <<>>, !.found = {}]
    BY <1>4 DEF Scanned
  <2>2. QED
    BY <1>2, <2>1 DEF RunRecord, Stages
<1>5. CASE run.source # "feedback" /\ ~Proposing
  BY <1>1, <1>5 DEF Scanned
<1>6. QED
  BY <1>3, <1>4, <1>5

LEMMA BegunFits ==
  ASSUME EvolutionTyped, NEW kind \in Commands, NEW command \in Choice, NEW event \in Nat
  PROVE  /\ Begun(kind, command, event) \in RunRecord
         /\ Begun(kind, command, event).kind = kind /\ Begun(kind, command, event).event = event
         /\ Begun(kind, command, event).command = command
         /\ IF kind \in {"approve", "remove"} THEN Begun(kind, command, event).pc = kind
            ELSE Begun(kind, command, event).pc \in {"acknowledge", "idle", "ideas", "scan"}
<1>1. Resting \in RunRecord
  BY RestingFits
<1>2. IF kind \in {"approve", "remove"} THEN FirstStep(kind) = kind
      ELSE FirstStep(kind) \in {"acknowledge", "idle", "ideas", "scan"}
  <2>1. CASE kind \in {"approve", "remove"}
    BY <2>1 DEF FirstStep
  <2>2. CASE kind \notin {"approve", "remove"}
    BY <2>2 DEF FirstStep
  <2>3. QED
    BY <2>1, <2>2
<1> DEFINE pc == FirstStep(kind)
<1>3. pc \in Stages
  BY <1>2 DEF Stages
<1>4. Begun(kind, command, event) =
        [Resting EXCEPT !.kind = kind, !.pc = pc, !.command = command, !.event = event]
  BY DEF Begun
<1> HIDE DEF pc
<1>5. /\ Begun(kind, command, event) \in RunRecord
      /\ Begun(kind, command, event).kind = kind /\ Begun(kind, command, event).event = event
      /\ Begun(kind, command, event).command = command
      /\ Begun(kind, command, event).pc = pc
  BY <1>1, <1>3, <1>4 DEF RunRecord
<1>6. QED
  BY <1>2, <1>5 DEF pc

(* What is scanned was read, and what was found is on file, before it is   *)
(* recorded; one proposal is open, and none before the next one.           *)
ScanKept ==
  At("record") => /\ \A r \in DOMAIN run.batch : run.batch[r] \in read[r]
                  /\ run.found \subseteq DOMAIN evidence

ScansKept == ScanKept /\ EvidenceKept

OneOpen      == \E p : DOMAIN open \subseteq {p}
ClosedBefore == At("record_proposal") => DOMAIN open = {}
OpenKept     == OneOpen /\ ClosedBefore

(* An approval in hand, or owed since a crash, is of a candidate that is   *)
(* not decided, and a candidate that has a task is decided or about to be. *)
Approving == run.pc \in {"approve", "enqueue", "promote"}

Deciding ==
  /\ Approving => run.kind = "approve"
  /\ run.pc \in {"enqueue", "promote"} => run.command \in Visible
  /\ At("promote") => HandedOff
  /\ owed.crashed => At("idle")
  /\ run.kind = "approve" => run.event # 0
  /\ owed.kind = "approve" => owed.event # 0

Again(t) ==
  \/ Approving /\ t = <<run.command, run.event>>
  \/ owed.crashed /\ owed.kind = "approve" /\ t = <<owed.command, owed.event>>

Handled ==
  /\ \A c \in DOMAIN store : store[c] = "approved" => \E t \in tasks : t[1] = c
  /\ \A t \in tasks : t[1] \in DOMAIN store
  /\ \A t \in tasks : t[1] \in Visible => Again(t) \/ t[1] \in failed
  /\ \A t, u \in tasks : t[1] = u[1] => t = u \/ t[1] \in failed

EvolutionInv == EvolutionTyped /\ ScansKept /\ OpenKept /\ Deciding /\ Handled

LEMMA EvolutionInitially == Init => EvolutionInv
<1> SUFFICES ASSUME Init
             PROVE  EvolutionInv
  OBVIOUS
<1>1. DOMAIN <<>> = {}
  OBVIOUS
<1>2. run = Resting /\ owed = None /\ run \in RunRecord /\ owed \in OwedRecord
  BY RestingFits, NoneFits DEF Init
<1>3. run.pc = "idle" /\ run.kind = "" /\ owed.kind = "" /\ ~owed.crashed
  BY <1>2 DEF Resting, None
<1>4. EvolutionTyped
  BY <1>1, <1>2, EvolutionAssumption DEF Init, EvolutionTyped, Modes, EvolutionAssumption
<1>5. ScansKept /\ OpenKept
  BY <1>1, <1>3 DEF Init, ScansKept, ScanKept, EvidenceKept, OpenKept, OneOpen, ClosedBefore, At
<1>6. Deciding /\ Handled
  BY <1>1, <1>3 DEF Init, Deciding, Handled, Approving, At
<1>7. QED
  BY <1>4, <1>5, <1>6 DEF EvolutionInv
-----------------------------------------------------------------------------
(* Steps of a command that decides nothing *)

Quiet(next) == next \notin {"approve", "enqueue", "promote"}

(* The command goes on or ends; candidates are added and none is decided.  *)
Onward ==
  /\ ~At("idle") /\ ~Approving
  /\ owed' = owed /\ tasks' = tasks /\ failed' = failed /\ mode' = mode
  /\ commands' = commands /\ latest' = latest
  /\ run' \in RunRecord
  /\ run' = Resting \/ (run'.kind = run.kind /\ run'.event = run.event /\ Quiet(run'.pc))

StoreGrows ==
  /\ DOMAIN store \subseteq DOMAIN store' /\ DOMAIN store' \subseteq Candidates
  /\ \A c \in DOMAIN store' : store'[c] = IF c \in DOMAIN store THEN store[c] ELSE "candidate"

LEMMA OnwardKeeps ==
  ASSUME EvolutionInv, Onward, StoreGrows
  PROVE  Deciding' /\ Handled'
<1>1. Resting.pc = "idle" /\ Resting.kind = "" /\ Quiet("idle")
  BY DEF Resting, Quiet
<1>2. Quiet(run'.pc) /\ (run'.kind = "approve" => run'.event # 0)
  BY <1>1 DEF Onward, EvolutionInv, Deciding
<1>3. ~owed.crashed /\ owed' = owed /\ ~Approving
  BY DEF Onward, EvolutionInv, Deciding
<1>4. ~Approving' /\ ~(run'.pc \in {"enqueue", "promote"}) /\ run'.pc # "promote"
  BY <1>2 DEF Approving, Quiet
<1>5. Deciding'
  BY <1>2, <1>3, <1>4 DEF Deciding, EvolutionInv, At
<1>6. \A t \in tasks : t[1] \notin failed => t[1] \notin Visible
  BY <1>3 DEF EvolutionInv, Handled, Again
<1>7. \A t \in tasks : t[1] \in DOMAIN store
  BY DEF EvolutionInv, Handled
<1>8. \A t \in tasks : t[1] \notin failed => t[1] \notin Visible'
  BY <1>6, <1>7 DEF StoreGrows, Visible
<1>9. \A c \in DOMAIN store' : store'[c] = "approved" => \E t \in tasks : t[1] = c
  BY DEF StoreGrows, EvolutionInv, Handled
<1>10. tasks' = tasks /\ failed' = failed
  BY DEF Onward
<1>11. \A t, u \in tasks : t[1] = u[1] => t = u \/ t[1] \in failed
  BY DEF EvolutionInv, Handled
<1>12. QED
  BY <1>5, <1>7, <1>8, <1>9, <1>10, <1>11 DEF Handled, StoreGrows

StepKept == EvolutionTyped' /\ Onward /\ StoreGrows /\ ScansKept' /\ OpenKept'

LEMMA SameStore ==
  ASSUME EvolutionTyped, store' = store
  PROVE  StoreGrows
BY DEF EvolutionTyped, StoreGrows

LEMMA SameScans ==
  ASSUME EvolutionInv, UNCHANGED scans, StoreGrows, run'.pc # "record"
  PROVE  ScansKept'
BY DEF EvolutionInv, ScansKept, ScanKept, EvidenceKept, scans, StoreGrows, At

LEMMA SameOpen ==
  ASSUME EvolutionInv, open' = open, run'.pc # "record_proposal"
  PROVE  OpenKept'
BY DEF EvolutionInv, OpenKept, OneOpen, ClosedBefore, At

(* A step that goes on, seen from the steps of scans and of candidates.    *)
LEMMA GoesOn ==
  ASSUME EvolutionInv, NEW pc \in Stages \ {"idle", "approve", "enqueue", "promote"}, At(pc),
         Step, tasks' = tasks, failed' = failed, run' \in RunRecord,
         run' = Resting \/ (run'.kind = run.kind /\ run'.event = run.event /\ Quiet(run'.pc))
  PROVE  Onward
BY DEF Onward, At, Approving, Step, world

LEMMA ReadBatchSteps == EvolutionInv /\ ReadBatch => StepKept
<1> SUFFICES ASSUME EvolutionInv, ReadBatch
             PROVE  StepKept
  OBVIOUS
<1>1. EvolutionTyped /\ run \in RunRecord /\ latest \in [Records -> Nat]
  BY DEF EvolutionInv, EvolutionTyped
<1>2. /\ At("scan") /\ UNCHANGED scans /\ Step /\ store' = store /\ open' = open
      /\ tasks' = tasks /\ failed' = failed
  BY DEF ReadBatch, ScanFiles
<1>3. /\ run' \in RunRecord /\ run'.pc \in {"idle", "scan", "synthesize", "answer"}
      /\ run' = Resting \/ (run'.kind = run.kind /\ run'.event = run.event)
  <2>1. CASE run' = Scanned(run.source)
    BY <1>1, <2>1, ScannedFits
  <2>2. CASE run' # Scanned(run.source)
    <3>1. PICK batch \in SUBSET Pending(run.source) :
            run' = [run EXCEPT !.pc = "answer", !.more = batch # Pending(run.source),
                               !.batch = [r \in batch |-> latest[r]]]
      BY <2>2 DEF ReadBatch
    <3>2. batch \subseteq Records
      BY DEF Pending, Of, Records
    <3> DEFINE read_ == [r \in batch |-> latest[r]]
    <3>3. read_ \in [batch -> Nat]
      BY <1>1, <3>2
    <3>4. read_ \in Batches
      BY <3>2, <3>3 DEF Batches
    <3>5. (batch # Pending(run.source)) \in BOOLEAN
      OBVIOUS
    <3>6. run' = [run EXCEPT !.pc = "answer", !.more = batch # Pending(run.source), !.batch = read_]
      BY <3>1
    <3> HIDE DEF read_
    <3>7. QED
      BY <1>1, <3>4, <3>5, <3>6 DEF RunRecord, Stages
  <2>3. QED
    BY <2>1, <2>2
<1>4. Onward
  BY <1>2, <1>3, GoesOn DEF Stages, Quiet
<1>5. StoreGrows
  BY <1>1, <1>2, SameStore
<1>6. ScansKept' /\ OpenKept'
  BY <1>2, <1>3, <1>5, SameScans, SameOpen
<1>7. EvolutionTyped'
  BY <1>1, <1>2, <1>4 DEF EvolutionTyped, Onward, scans
<1>8. QED
  BY <1>4, <1>5, <1>6, <1>7 DEF StepKept

LEMMA AnsweredSteps == EvolutionInv /\ Answered => StepKept
<1> SUFFICES ASSUME EvolutionInv, Answered
             PROVE  StepKept
  OBVIOUS
<1>1. /\ EvolutionTyped /\ run \in RunRecord /\ DOMAIN evidence \subseteq Signals
      /\ read \in [Records -> SUBSET Nat] /\ EvidenceKept
  BY DEF EvolutionInv, EvolutionTyped, ScansKept
<1>2. /\ At("answer") /\ Step /\ store' = store /\ open' = open
      /\ tasks' = tasks /\ failed' = failed /\ scanned' = scanned /\ reported' = reported
  BY DEF Answered, ScanFiles
<1>3. StoreGrows
  BY <1>1, <1>2, SameStore
<1>4. CASE run' = Scanned(run.source) /\ UNCHANGED <<evidence, read>>
  <2>1. /\ run' \in RunRecord /\ run'.pc \in {"idle", "scan", "synthesize"}
        /\ run' = Resting \/ (run'.kind = run.kind /\ run'.event = run.event)
    BY <1>1, <1>4, ScannedFits
  <2>2. Onward
    BY <1>2, <2>1, GoesOn DEF Stages, Quiet
  <2>3. ScansKept' /\ OpenKept'
    BY <1>2, <1>3, <1>4, <2>1, SameScans, SameOpen DEF scans
  <2>4. EvolutionTyped'
    BY <1>1, <1>2, <1>4, <2>2 DEF EvolutionTyped, Onward
  <2>5. QED
    BY <1>3, <2>2, <2>3, <2>4 DEF StepKept
<1>5. CASE ~(run' = Scanned(run.source) /\ UNCHANGED <<evidence, read>>)
  <2>1. PICK found \in SUBSET {<<r, run.batch[r]>> : r \in DOMAIN run.batch} :
          /\ evidence' = With(evidence, found, {})
          /\ read' = [r \in Records |-> IF r \in DOMAIN run.batch
                                        THEN read[r] \union {run.batch[r]} ELSE read[r]]
          /\ run' = [run EXCEPT !.pc = "record", !.found = found]
    BY <1>5 DEF Answered
  <2>2. DOMAIN run.batch \subseteq Records /\ \A r \in DOMAIN run.batch : run.batch[r] \in Nat
    BY <1>1 DEF RunRecord, Batches
  <2>3. found \subseteq Signals
    BY <2>2 DEF Signals
  <2>4. /\ run' \in RunRecord /\ run'.pc = "record" /\ run'.batch = run.batch /\ run'.found = found
        /\ run'.kind = run.kind /\ run'.event = run.event
    BY <1>1, <2>1, <2>3 DEF RunRecord, Stages
  <2>5. Onward
    BY <1>2, <2>4, GoesOn DEF Stages, Quiet
  <2>6. /\ DOMAIN evidence' = DOMAIN evidence \union found
        /\ \A s \in DOMAIN evidence' : evidence'[s] = IF s \in DOMAIN evidence THEN evidence[s] ELSE {}
    BY <2>1 DEF With
  <2>7. /\ read' \in [Records -> SUBSET Nat]
        /\ \A r \in Records : read[r] \subseteq read'[r]
        /\ \A r \in DOMAIN run.batch : run.batch[r] \in read'[r]
    BY <1>1, <2>1, <2>2
  <2>8. EvidenceKept'
    BY <1>1, <1>2, <2>6, <2>7 DEF EvidenceKept
  <2>9. ScansKept'
    BY <2>4, <2>6, <2>7, <2>8 DEF ScansKept, ScanKept
  <2>10. OpenKept'
    BY <1>2, <2>4, SameOpen
  <2>11. DOMAIN evidence' \subseteq Signals
    BY <1>1, <2>3, <2>6
  <2>12. EvolutionTyped'
    BY <1>1, <1>2, <2>5, <2>7, <2>11 DEF EvolutionTyped, Onward
  <2>13. QED
    BY <1>3, <2>5, <2>9, <2>10, <2>12 DEF StepKept
<1>6. QED
  BY <1>4, <1>5

LEMMA RecordScanSteps == EvolutionInv /\ RecordScan => StepKept
<1> SUFFICES ASSUME EvolutionInv, RecordScan
             PROVE  StepKept
  OBVIOUS
<1>1. /\ EvolutionTyped /\ run \in RunRecord /\ scanned \in [Records -> Nat]
      /\ EvidenceKept /\ Resting.batch = <<>> /\ Resting \in RunRecord
  BY RestingFits DEF EvolutionInv, EvolutionTyped, ScansKept, Resting
<1>2. /\ At("record") /\ Step /\ store' = store /\ open' = open /\ evidence' = evidence
      /\ tasks' = tasks /\ failed' = failed /\ read' = read
  BY DEF RecordScan, ScanFiles
<1>3. StoreGrows
  BY <1>1, <1>2, SameStore
<1>4. /\ run' \in RunRecord /\ run'.pc \in {"idle", "scan", "synthesize"}
      /\ run' = Resting \/ (run'.kind = run.kind /\ run'.event = run.event)
  <2>1. CASE run' = Scanned(run.source)
    BY <1>1, <2>1, ScannedFits
  <2>2. CASE run' = [run EXCEPT !.pc = "scan", !.batch = <<>>, !.found = {}]
    <3>1. <<>> \in Batches
      BY <1>1 DEF RunRecord
    <3>2. QED
      BY <1>1, <2>2, <3>1 DEF RunRecord, Stages
  <2>3. QED
    BY <2>1, <2>2 DEF RecordScan
<1>5. Onward
  BY <1>2, <1>4, GoesOn DEF Stages, Quiet
<1>6. DOMAIN run.batch \subseteq Records /\ \A r \in DOMAIN run.batch : run.batch[r] \in Nat
  BY <1>1 DEF RunRecord, Batches
<1>7. /\ \A r \in DOMAIN run.batch : run.batch[r] \in read[r]
      /\ run.found \subseteq DOMAIN evidence
  BY <1>2 DEF EvolutionInv, ScansKept, ScanKept
<1>8. scanned' \in [Records -> Nat] /\ EvidenceKept'
  <2>1. CASE scanned' = scanned /\ reported' = reported
    BY <1>1, <1>2, <2>1 DEF EvidenceKept
  <2>2. CASE /\ scanned' = [r \in Records |-> IF r \in DOMAIN run.batch THEN run.batch[r] ELSE scanned[r]]
             /\ reported' = reported \union run.found
    BY <1>1, <1>2, <1>6, <1>7, <2>2 DEF EvidenceKept
  <2>3. QED
    BY <2>1, <2>2 DEF RecordScan
<1>9. ScansKept' /\ OpenKept'
  BY <1>2, <1>4, <1>8, SameOpen DEF ScansKept, ScanKept, At
<1>10. EvolutionTyped'
  BY <1>1, <1>2, <1>5, <1>8 DEF EvolutionTyped, Onward
<1>11. QED
  BY <1>3, <1>5, <1>9, <1>10 DEF StepKept

LEMMA SynthesizeSteps == EvolutionInv /\ Synthesize => StepKept
<1> SUFFICES ASSUME EvolutionInv, Synthesize
             PROVE  StepKept
  OBVIOUS
<1>1. EvolutionTyped /\ run \in RunRecord /\ DOMAIN evidence \subseteq Signals
  BY DEF EvolutionInv, EvolutionTyped
<1>2. /\ At("synthesize") /\ Step /\ store' = store /\ open' = open
      /\ tasks' = tasks /\ failed' = failed /\ UNCHANGED scans
  BY DEF Synthesize, CandidateFiles, scans
<1>3. AfterSynthesis \in {"brainstorm", "curate"}
  BY DEF AfterSynthesis
<1>4. /\ run' \in RunRecord /\ run'.pc \in {"brainstorm", "curate", "link"}
      /\ run'.kind = run.kind /\ run'.event = run.event
  <2>1. CASE Goto(AfterSynthesis)
    BY <1>1, <1>3, <2>1, GotoFits DEF Stages
  <2>2. CASE ~Goto(AfterSynthesis)
    <3>1. PICK drafts \in UNION {kSubset(n, Drafts) : n \in 0..DraftLimit} :
            run' = [run EXCEPT !.pc = IF drafts = {} THEN AfterSynthesis ELSE "link",
                               !.drafts = drafts]
      BY <2>2 DEF Synthesize
    <3>2. drafts \subseteq Drafts
      BY DEF kSubset
    <3>3. Drafts \subseteq Candidates
      BY <1>1 DEF Drafts, Unlinked, Candidates
    <3>4. drafts \in SUBSET Candidates
      BY <3>2, <3>3
    <3>5. QED
      BY <1>1, <1>3, <3>1, <3>4 DEF RunRecord, Stages
  <2>3. QED
    BY <2>1, <2>2
<1>5. Onward
  BY <1>2, <1>4, GoesOn DEF Stages, Quiet
<1>6. StoreGrows
  BY <1>1, <1>2, SameStore
<1>7. ScansKept' /\ OpenKept'
  BY <1>2, <1>4, <1>6, SameScans, SameOpen
<1>8. EvolutionTyped'
  BY <1>1, <1>2, <1>5 DEF EvolutionTyped, Onward, scans
<1>9. QED
  BY <1>5, <1>6, <1>7, <1>8 DEF StepKept

(* New candidates are added to those on file. *)
LEMMA AddedStore ==
  ASSUME EvolutionTyped, NEW added \in SUBSET Candidates, store' = With(store, added, "candidate")
  PROVE  StoreGrows
BY DEF EvolutionTyped, StoreGrows, With

LEMMA LinkSteps == EvolutionInv /\ Link => StepKept
<1> SUFFICES ASSUME EvolutionInv, Link
             PROVE  StepKept
  OBVIOUS
<1>1. /\ EvolutionTyped /\ run \in RunRecord /\ DOMAIN evidence \subseteq Signals
      /\ EvidenceKept /\ run.drafts \subseteq Candidates
  BY DEF EvolutionInv, EvolutionTyped, ScansKept, RunRecord
<1>2. /\ At("link") /\ Step /\ open' = open /\ tasks' = tasks /\ failed' = failed
      /\ scanned' = scanned /\ reported' = reported /\ read' = read
  BY DEF Link, CandidateFiles
<1>3. AfterSynthesis \in {"brainstorm", "curate"}
  BY DEF AfterSynthesis
<1>4. /\ run' \in RunRecord /\ run'.pc \in {"brainstorm", "curate", "link"}
      /\ run'.kind = run.kind /\ run'.event = run.event
      /\ StoreGrows /\ EvidenceKept' /\ DOMAIN evidence' \subseteq Signals
  <2>1. CASE \E d \in run.drafts \intersect DOMAIN store :
               /\ evidence' = [s \in DOMAIN evidence |-> evidence[s] \union IF s \in d.of THEN {d} ELSE {}]
               /\ run' = [run EXCEPT !.drafts = @ \ {d},
                                     !.pc = IF run.drafts = {d} THEN AfterSynthesis ELSE @]
               /\ UNCHANGED store
    <3>1. PICK d \in run.drafts \intersect DOMAIN store :
               /\ evidence' = [s \in DOMAIN evidence |-> evidence[s] \union IF s \in d.of THEN {d} ELSE {}]
               /\ run' = [run EXCEPT !.drafts = @ \ {d},
                                     !.pc = IF run.drafts = {d} THEN AfterSynthesis ELSE @]
               /\ UNCHANGED store
      BY <2>1
    <3>2. run.drafts \ {d} \in SUBSET Candidates
      BY <1>1
    <3>3. /\ run' \in RunRecord /\ run'.pc \in {"brainstorm", "curate", "link"}
          /\ run'.kind = run.kind /\ run'.event = run.event
      BY <1>1, <1>2, <1>3, <3>1, <3>2 DEF RunRecord, Stages, At
    <3>4. /\ DOMAIN evidence' = DOMAIN evidence
          /\ \A s \in DOMAIN evidence : evidence'[s] \subseteq evidence[s] \union {d}
      BY <3>1
    <3>5. EvidenceKept'
      BY <1>1, <1>2, <3>1, <3>4 DEF EvidenceKept
    <3>6. QED
      BY <1>1, <3>1, <3>3, <3>4, <3>5, SameStore
  <2>2. CASE store' = With(store, run.drafts, "candidate") /\ UNCHANGED <<run, evidence>>
    <3>1. StoreGrows
      BY <1>1, <2>2, AddedStore
    <3>2. EvidenceKept'
      BY <1>1, <1>2, <2>2, <3>1 DEF EvidenceKept, StoreGrows
    <3>3. QED
      BY <1>1, <1>2, <2>2, <3>1, <3>2 DEF At
  <2>3. CASE run' = [run EXCEPT !.pc = AfterSynthesis, !.drafts = {}] /\ UNCHANGED <<evidence, store>>
    <3>1. EvidenceKept'
      BY <1>1, <1>2, <2>3 DEF EvidenceKept
    <3>2. QED
      BY <1>1, <1>3, <2>3, <3>1, SameStore DEF RunRecord, Stages
  <2>4. QED
    BY <2>1, <2>2, <2>3 DEF Link
<1>5. Onward
  BY <1>2, <1>4, GoesOn DEF Stages, Quiet
<1>6. ScansKept' /\ OpenKept'
  BY <1>2, <1>4, SameOpen DEF ScansKept, ScanKept, At
<1>7. EvolutionTyped'
  BY <1>1, <1>2, <1>4, <1>5 DEF EvolutionTyped, Onward, StoreGrows
<1>8. QED
  BY <1>4, <1>5, <1>6, <1>7 DEF StepKept

LEMMA BrainstormWhenDueSteps == EvolutionInv /\ BrainstormWhenDue => StepKept
<1> SUFFICES ASSUME EvolutionInv, BrainstormWhenDue
             PROVE  StepKept
  OBVIOUS
<1>1. EvolutionTyped /\ run \in RunRecord
  BY DEF EvolutionInv, EvolutionTyped
<1>2. /\ At("brainstorm") /\ Step /\ store' = store /\ open' = open
      /\ tasks' = tasks /\ failed' = failed /\ UNCHANGED scans
  BY DEF BrainstormWhenDue, CandidateFiles, scans
<1>3. Goto("ideas") \/ Goto("curate")
  BY DEF BrainstormWhenDue
<1>4. /\ run' \in RunRecord /\ run'.pc \in {"ideas", "curate"}
      /\ run'.kind = run.kind /\ run'.event = run.event
  BY <1>1, <1>3, GotoFits DEF Stages
<1>5. Onward
  BY <1>2, <1>4, GoesOn DEF Stages, Quiet
<1>6. StoreGrows
  BY <1>1, <1>2, SameStore
<1>7. ScansKept' /\ OpenKept'
  BY <1>2, <1>4, <1>6, SameScans, SameOpen
<1>8. EvolutionTyped'
  BY <1>1, <1>2, <1>5 DEF EvolutionTyped, Onward, scans
<1>9. QED
  BY <1>5, <1>6, <1>7, <1>8 DEF StepKept

(* The end of a command, or its next step. *)
LEMMA EndsOrGoes ==
  ASSUME run \in RunRecord, NEW pc \in {"curate", "acknowledge"}, Finish \/ Goto(pc)
  PROVE  /\ run' \in RunRecord /\ run'.pc \in {"idle", pc}
         /\ run' = Resting \/ (run'.kind = run.kind /\ run'.event = run.event)
<1>1. CASE Finish
  BY <1>1, RestingFits DEF Finish, Resting
<1>2. CASE Goto(pc)
  BY <1>2, GotoFits DEF Stages
<1>3. QED
  BY <1>1, <1>2

LEMMA BrainstormSteps == EvolutionInv /\ Brainstorm => StepKept
<1> SUFFICES ASSUME EvolutionInv, Brainstorm
             PROVE  StepKept
  OBVIOUS
<1>1. EvolutionTyped /\ run \in RunRecord
  BY DEF EvolutionInv, EvolutionTyped
<1>2. /\ At("ideas") /\ Step /\ open' = open /\ tasks' = tasks /\ failed' = failed
      /\ UNCHANGED scans
  BY DEF Brainstorm, CandidateFiles, scans
<1>3. /\ run' \in RunRecord /\ run'.pc \in {"idle", "curate"}
      /\ run' = Resting \/ (run'.kind = run.kind /\ run'.event = run.event)
  BY <1>1, EndsOrGoes DEF Brainstorm
<1>4. Onward
  BY <1>2, <1>3, GoesOn DEF Stages, Quiet
<1>5. StoreGrows
  <2>1. CASE store' = store
    BY <1>1, <2>1, SameStore
  <2>2. CASE \E ideas \in Suggested : store' = Created(ideas)
    BY <1>1, <2>2, AddedStore DEF Suggested, Created, Candidates
  <2>3. QED
    BY <2>1, <2>2 DEF Brainstorm
<1>6. ScansKept' /\ OpenKept'
  BY <1>2, <1>3, <1>5, SameScans, SameOpen
<1>7. EvolutionTyped'
  BY <1>1, <1>2, <1>4, <1>5 DEF EvolutionTyped, Onward, StoreGrows, scans
<1>8. QED
  BY <1>4, <1>5, <1>6, <1>7 DEF StepKept
-----------------------------------------------------------------------------
(* Steps on proposals *)

LEMMA SameFiles ==
  ASSUME EvolutionInv, ProposalFiles
  PROVE  /\ StoreGrows /\ UNCHANGED scans /\ tasks' = tasks /\ failed' = failed /\ store' = store
         /\ run'.pc # "record" => ScansKept'
         /\ EvolutionTyped
BY SameStore, SameScans DEF ProposalFiles, EvolutionInv

LEMMA TypedOnward ==
  ASSUME EvolutionTyped, Onward, UNCHANGED scans, StoreGrows
  PROVE  EvolutionTyped'
BY DEF EvolutionTyped, Onward, StoreGrows, scans

LEMMA CurateSteps == EvolutionInv /\ Curate => StepKept
<1> SUFFICES ASSUME EvolutionInv, Curate
             PROVE  StepKept
  OBVIOUS
<1>1. EvolutionTyped /\ run \in RunRecord /\ DOMAIN store \subseteq Candidates
  BY DEF EvolutionInv, EvolutionTyped
<1>2. At("curate") /\ Step /\ open' = open /\ ProposalFiles
  BY DEF Curate
<1>3. /\ run' \in RunRecord /\ run'.pc \in {"idle", "acknowledge", "close"}
      /\ run' = Resting \/ (run'.kind = run.kind /\ run'.event = run.event)
  <2>1. PICK top \in Recommended :
          IF top = Nothing
          THEN IF Concluded = "idle" THEN Finish ELSE Goto(Concluded)
          ELSE run' = [run EXCEPT !.pc = "close", !.top = top]
    BY DEF Curate
  <2>2. CASE top = Nothing
    <3>1. Finish \/ Goto("acknowledge")
      BY <2>1, <2>2 DEF Concluded
    <3>2. QED
      BY <1>1, <3>1, EndsOrGoes
  <2>3. CASE top # Nothing
    <3>1. top \in Choice
      BY <1>1 DEF Recommended, Visible, Choice
    <3>2. QED
      BY <1>1, <2>1, <2>3, <3>1 DEF RunRecord, Stages
  <2>4. QED
    BY <2>2, <2>3
<1>4. Onward
  BY <1>2, <1>3, SameFiles, GoesOn DEF Stages, Quiet
<1>5. OpenKept'
  BY <1>2, <1>3, SameOpen
<1>6. QED
  BY <1>2, <1>3, <1>4, <1>5, SameFiles, TypedOnward DEF StepKept

LEMMA CloseProposalSteps == EvolutionInv /\ CloseProposal => StepKept
<1> SUFFICES ASSUME EvolutionInv, CloseProposal
             PROVE  StepKept
  OBVIOUS
<1>1. EvolutionTyped /\ run \in RunRecord /\ OneOpen
  BY DEF EvolutionInv, EvolutionTyped, OpenKept
<1>2. At("close") /\ Step /\ ProposalFiles
  BY DEF CloseProposal
<1>3. /\ run' \in RunRecord /\ run'.pc \in {"close", "record_proposal"}
      /\ run'.kind = run.kind /\ run'.event = run.event /\ OpenKept'
  <2>1. CASE open = <<>>
    <3>1. open' = open /\ Goto("record_proposal") /\ DOMAIN open = {}
      BY <2>1 DEF CloseProposal
    <3>2. QED
      BY <1>1, <3>1, GotoFits DEF Stages, OpenKept, OneOpen, ClosedBefore
  <2>2. CASE open # <<>>
    <3>1. open' = Closed({Min(DOMAIN open)}) /\ run' = run
      BY <2>2 DEF CloseProposal
    <3>2. DOMAIN open' \subseteq DOMAIN open
      BY <3>1 DEF Closed
    <3>3. QED
      BY <1>1, <1>2, <3>1, <3>2 DEF OpenKept, OneOpen, ClosedBefore, At
  <2>3. QED
    BY <2>1, <2>2
<1>4. Onward
  BY <1>2, <1>3, SameFiles, GoesOn DEF Stages, Quiet
<1>5. QED
  BY <1>2, <1>3, <1>4, SameFiles, TypedOnward DEF StepKept

LEMMA ProposeSteps == EvolutionInv /\ Propose => StepKept
<1> SUFFICES ASSUME EvolutionInv, Propose
             PROVE  StepKept
  OBVIOUS
<1>1. EvolutionTyped /\ run \in RunRecord /\ OneOpen
  BY DEF EvolutionInv, EvolutionTyped, OpenKept
<1>2. At("record_proposal") /\ Step /\ ProposalFiles
  BY DEF Propose
<1>3. DOMAIN open = {}
  BY <1>2 DEF EvolutionInv, OpenKept, ClosedBefore
<1>4. Finish \/ Goto("acknowledge")
  BY DEF Propose, Concluded
<1>5. /\ run' \in RunRecord /\ run'.pc \in {"idle", "acknowledge"}
      /\ run' = Resting \/ (run'.kind = run.kind /\ run'.event = run.event)
  BY <1>1, <1>4, EndsOrGoes
<1>6. OneOpen'
  <2>1. CASE open' = open
    BY <1>1, <2>1 DEF OneOpen
  <2>2. CASE open' = With(open, {proposed + 1}, run.top)
    <3>1. DOMAIN open' = {proposed + 1}
      BY <1>3, <2>2 DEF With
    <3>2. QED
      BY <3>1 DEF OneOpen
  <2>3. QED
    BY <2>1, <2>2 DEF Propose
<1>7. Onward
  BY <1>2, <1>5, SameFiles, GoesOn DEF Stages, Quiet
<1>8. OpenKept'
  BY <1>5, <1>6 DEF OpenKept, ClosedBefore, At
<1>9. QED
  BY <1>2, <1>5, <1>7, <1>8, SameFiles, TypedOnward DEF StepKept

LEMMA AcknowledgeCheckSteps == EvolutionInv /\ AcknowledgeCheck => StepKept
<1> SUFFICES ASSUME EvolutionInv, AcknowledgeCheck
             PROVE  StepKept
  OBVIOUS
<1>1. At("acknowledge") /\ Step /\ open' = open /\ ProposalFiles /\ run' = Resting
  BY DEF AcknowledgeCheck, Finish
<1>2. run' \in RunRecord /\ run'.pc = "idle"
  BY <1>1, RestingFits DEF Resting
<1>3. Onward
  BY <1>1, <1>2, SameFiles, GoesOn DEF Stages, Quiet
<1>4. OpenKept'
  BY <1>1, <1>2, SameOpen
<1>5. QED
  BY <1>1, <1>2, <1>3, <1>4, SameFiles, TypedOnward DEF StepKept
-----------------------------------------------------------------------------
(* Steps of a decision, and the beginning and the end of a command *)

LEMMA DecidedScans ==
  ASSUME EvolutionInv, UNCHANGED scans, DOMAIN store' = DOMAIN store, run'.pc # "record"
  PROVE  ScansKept'
BY DEF EvolutionInv, ScansKept, ScanKept, EvidenceKept, scans, At

LEMMA DisposeKeepsOpen ==
  ASSUME EvolutionInv, Dispose, run'.pc # "record_proposal"
  PROVE  OpenKept'
<1>1. DOMAIN open' \subseteq DOMAIN open
  BY DEF Dispose, Closed
<1>2. QED
  BY <1>1 DEF EvolutionInv, OpenKept, OneOpen, ClosedBefore, At

(* The tasks of a command in hand still have their command afterwards. *)
LEMMA HandledOn ==
  ASSUME EvolutionInv, store' = store, tasks' = tasks, failed' = failed,
         \A t \in tasks : t[1] \notin failed /\ t[1] \in Visible /\ Again(t) => Again(t)'
  PROVE  Handled'
<1>1. Visible' = Visible
  BY DEF Visible
<1>2. QED
  BY <1>1 DEF EvolutionInv, Handled

(* While no approval is in hand or owed, whatever has a task is decided.   *)
LEMMA NoneInHand ==
  ASSUME EvolutionInv, ~Approving, ~owed.crashed
  PROVE  \A t \in tasks : t[1] \notin failed => t[1] \notin Visible
BY DEF EvolutionInv, Handled, Again

LEMMA AtRest ==
  ASSUME EvolutionInv, run' = Resting
  PROVE  /\ run' \in RunRecord /\ run'.pc = "idle" /\ run'.kind = "" /\ ~Approving' /\ ~At("promote")'
         /\ run'.pc \notin {"enqueue", "promote"}
BY RestingFits DEF Resting, Approving, At

LEMMA SelectSteps == EvolutionInv /\ Select => EvolutionInv'
<1> SUFFICES ASSUME EvolutionInv, Select
             PROVE  EvolutionInv'
  OBVIOUS
<1>1. /\ EvolutionTyped /\ run \in RunRecord /\ Approving /\ run.kind = "approve"
      /\ ~owed.crashed /\ run.event # 0
  BY DEF EvolutionInv, EvolutionTyped, Select, At, Approving, Deciding
<1>2. /\ At("approve") /\ store' = store /\ tasks' = tasks /\ failed' = failed
      /\ owed' = owed /\ UNCHANGED scans
      /\ mode' = mode /\ latest' = latest /\ commands' = commands /\ Visible' = Visible
  BY DEF Select, Decided, Step, world, Visible
<1>3. CASE run.command \in Visible
  <2>1. Goto("enqueue") /\ Dispose
    BY <1>3 DEF Select
  <2>2. /\ run' \in RunRecord /\ run'.pc = "enqueue" /\ run'.kind = run.kind
        /\ run'.event = run.event /\ run'.command = run.command
    BY <1>1, <2>1, GotoFits DEF Stages
  <2>3. EvolutionTyped'
    BY <1>1, <1>2, <2>2 DEF EvolutionTyped, scans
  <2>4. ScansKept' /\ OpenKept'
    BY <1>2, <2>1, <2>2, DecidedScans, DisposeKeepsOpen
  <2>5. Deciding'
    BY <1>1, <1>2, <1>3, <2>2 DEF EvolutionInv, Deciding, At
  <2>6. \A t \in tasks : Again(t) => Again(t)'
    BY <1>1, <1>2, <2>2 DEF Again, Approving
  <2>7. Handled'
    BY <1>2, <2>6, HandledOn
  <2>8. QED
    BY <2>3, <2>4, <2>5, <2>7 DEF EvolutionInv
<1>4. CASE run.command \notin Visible
  <2>1. run' = Resting /\ open' = open
    BY <1>4 DEF Select, Finish
  <2>2. /\ run' \in RunRecord /\ run'.pc = "idle" /\ run'.kind = "" /\ ~Approving'
        /\ ~At("promote")'
    BY <2>1, AtRest
  <2>3. EvolutionTyped'
    BY <1>1, <1>2, <2>2 DEF EvolutionTyped, scans
  <2>4. ScansKept' /\ OpenKept'
    BY <1>2, <2>1, <2>2, DecidedScans, SameOpen
  <2>5. Deciding'
    BY <1>1, <1>2, <2>2 DEF EvolutionInv, Deciding, At
  <2>6. \A t \in tasks : t[1] \in Visible => ~Again(t)
    BY <1>1, <1>4 DEF Again
  <2>7. Handled'
    BY <1>2, <2>6, HandledOn
  <2>8. QED
    BY <2>3, <2>4, <2>5, <2>7 DEF EvolutionInv
<1>5. QED
  BY <1>3, <1>4

LEMMA EnqueueSteps == EvolutionInv /\ Enqueue => EvolutionInv'
<1> SUFFICES ASSUME EvolutionInv, Enqueue
             PROVE  EvolutionInv'
  OBVIOUS
<1> DEFINE handed == <<run.command, run.event>>
<1>1. /\ EvolutionTyped /\ run \in RunRecord /\ Approving /\ run.kind = "approve"
      /\ ~owed.crashed /\ run.event # 0 /\ run.command \in Visible
  BY DEF EvolutionInv, EvolutionTyped, Enqueue, At, Approving, Deciding
<1>2. /\ At("enqueue") /\ store' = store /\ open' = open /\ owed' = owed /\ UNCHANGED scans
      /\ mode' = mode /\ latest' = latest /\ commands' = commands /\ Visible' = Visible
  BY DEF Enqueue, Decided, Step, world, Visible
<1>3. run.command \in Candidates /\ run.command \in DOMAIN store /\ handed[1] = run.command
  BY <1>1 DEF Visible, EvolutionTyped
<1>4. /\ \A t \in tasks : t[1] \notin failed /\ t[1] \in Visible => t = handed
      /\ \A t, u \in tasks : t[1] = u[1] => t = u \/ t[1] \in failed
  BY <1>1 DEF EvolutionInv, Handled, Again
<1>5. /\ \A c \in DOMAIN store : store[c] = "approved" => \E t \in tasks : t[1] = c
      /\ \A t \in tasks : t[1] \in DOMAIN store
  BY DEF EvolutionInv, Handled
<1>6. CASE tasks' = tasks \union {handed} /\ Goto("promote") /\ UNCHANGED failed
  <2>1. /\ run' \in RunRecord /\ run'.pc = "promote" /\ run'.kind = run.kind
        /\ run'.event = run.event /\ run'.command = run.command
    BY <1>1, <1>6, GotoFits DEF Stages
  <2>2. handed \in Candidates \X Nat
    BY <1>1, <1>3 DEF RunRecord
  <2>3. EvolutionTyped'
    BY <1>1, <1>2, <1>6, <2>1, <2>2 DEF EvolutionTyped, scans
  <2>4. ScansKept' /\ OpenKept'
    BY <1>2, <2>1, DecidedScans, SameOpen
  <2>5. HandedOff'
    BY <1>6, <2>1 DEF HandedOff
  <2>6. Deciding'
    BY <1>1, <1>2, <2>1, <2>5 DEF EvolutionInv, Deciding, At
  <2>7. \A t \in tasks' : t[1] \notin failed /\ t[1] \in Visible => t = handed
    BY <1>4, <1>6
  <2>8. \A t \in tasks' : t = handed => Again(t)'
    BY <2>1 DEF Again, Approving
  <2>9. \A t, u \in tasks' : t[1] = u[1] => t = u \/ t[1] \in failed
    BY <1>1, <1>3, <1>4, <1>6
  <2>10. /\ \A c \in DOMAIN store : store[c] = "approved" => \E t \in tasks' : t[1] = c
         /\ \A t \in tasks' : t[1] \in DOMAIN store
    BY <1>3, <1>5, <1>6
  <2>11. Handled'
    BY <1>2, <1>6, <2>7, <2>8, <2>9, <2>10 DEF Handled
  <2>12. QED
    BY <2>3, <2>4, <2>6, <2>11 DEF EvolutionInv
<1>7. CASE Finish /\ tasks' = tasks /\ FailsNow
  <2>1. /\ run' \in RunRecord /\ run'.pc = "idle" /\ run'.kind = "" /\ ~Approving'
        /\ ~At("promote")'
    BY <1>7, AtRest DEF Finish
  <2>2. failed' \subseteq Choice /\ (HandedOff => run.command \in failed') /\ failed \subseteq failed'
    BY <1>1, <1>7 DEF FailsNow, EvolutionTyped, RunRecord
  <2>3. EvolutionTyped'
    BY <1>1, <1>2, <1>7, <2>1, <2>2 DEF EvolutionTyped, scans
  <2>4. ScansKept' /\ OpenKept'
    BY <1>2, <2>1, DecidedScans, SameOpen
  <2>5. Deciding'
    BY <1>1, <1>2, <2>1 DEF EvolutionInv, Deciding, At
  <2>6. \A t \in tasks : t[1] \notin failed' => t[1] \notin Visible
    BY <1>4, <2>2 DEF HandedOff
  <2>7. Handled'
    BY <1>2, <1>4, <1>5, <1>7, <2>2, <2>6 DEF Handled
  <2>8. QED
    BY <2>3, <2>4, <2>5, <2>7 DEF EvolutionInv
<1>8. QED
  BY <1>6, <1>7 DEF Enqueue

LEMMA ApproveSteps == EvolutionInv /\ Approve => EvolutionInv'
<1> SUFFICES ASSUME EvolutionInv, Approve
             PROVE  EvolutionInv'
  OBVIOUS
<1>1. /\ EvolutionTyped /\ run \in RunRecord /\ Approving /\ ~owed.crashed
      /\ run.command \in Visible /\ HandedOff
  BY DEF EvolutionInv, EvolutionTyped, Approve, At, Approving, Deciding
<1>2. /\ open' = open /\ owed' = owed /\ tasks' = tasks /\ failed' = failed /\ UNCHANGED scans
      /\ mode' = mode /\ latest' = latest /\ commands' = commands
      /\ store' = [store EXCEPT ![run.command] = "approved"] /\ run' = Resting
  BY DEF Approve, Decided, Step, world, Finish
<1>3. /\ run' \in RunRecord /\ run'.pc = "idle" /\ run'.kind = "" /\ ~Approving'
      /\ ~At("promote")'
  BY <1>2, AtRest
<1>4. DOMAIN store' = DOMAIN store
      /\ \A c \in DOMAIN store : store'[c] = IF c = run.command THEN "approved" ELSE store[c]
  BY <1>2
<1>5. EvolutionTyped'
  BY <1>1, <1>2, <1>3, <1>4 DEF EvolutionTyped, scans
<1>6. ScansKept' /\ OpenKept'
  BY <1>2, <1>3, <1>4, DecidedScans, SameOpen
<1>7. Deciding'
  BY <1>1, <1>2, <1>3 DEF EvolutionInv, Deciding, At
<1>8. \A c \in DOMAIN store : store'[c] = "approved" => \E t \in tasks : t[1] = c
  BY <1>1, <1>4 DEF EvolutionInv, Handled, HandedOff
<1>9. \A t \in tasks : t[1] \notin failed /\ t[1] \in Visible => t[1] = run.command
  BY <1>1 DEF EvolutionInv, Handled, Again
<1>10. \A t \in tasks : t[1] \notin failed => t[1] \notin Visible'
  BY <1>4, <1>9 DEF Visible
<1>11. Handled'
  BY <1>2, <1>4, <1>8, <1>10 DEF Handled, EvolutionInv
<1>12. QED
  BY <1>5, <1>6, <1>7, <1>11 DEF EvolutionInv

LEMMA RemoveSteps == EvolutionInv /\ Remove => EvolutionInv'
<1> SUFFICES ASSUME EvolutionInv, Remove
             PROVE  EvolutionInv'
  OBVIOUS
<1>1. /\ EvolutionTyped /\ run \in RunRecord /\ ~Approving /\ ~owed.crashed
      /\ run.kind = "approve" => run.event # 0
  BY DEF EvolutionInv, EvolutionTyped, Remove, At, Approving, Deciding
<1>2. /\ open' = open /\ owed' = owed /\ tasks' = tasks /\ failed' = failed /\ UNCHANGED scans
      /\ mode' = mode /\ latest' = latest /\ commands' = commands
  BY DEF Remove, Decided, Step, world
<1>3. /\ run' \in RunRecord /\ run'.pc \in {"idle", "dispose"}
      /\ run'.kind = "approve" => run'.event # 0
  <2>1. CASE Goto("dispose")
    BY <1>1, <2>1, GotoFits DEF Stages
  <2>2. CASE Finish
    BY <2>2, AtRest DEF Finish
  <2>3. QED
    BY <2>1, <2>2 DEF Remove
<1>4. /\ DOMAIN store' = DOMAIN store
      /\ \A c \in DOMAIN store : store'[c] = store[c] \/ store'[c] = "removed"
  BY DEF Remove
<1>5. EvolutionTyped'
  BY <1>1, <1>2, <1>3, <1>4 DEF EvolutionTyped, scans
<1>6. ScansKept' /\ OpenKept'
  BY <1>2, <1>3, <1>4, DecidedScans, SameOpen
<1>7. Deciding'
  BY <1>1, <1>2, <1>3 DEF EvolutionInv, Deciding, At, Approving
<1>8. \A t \in tasks : t[1] \notin failed => t[1] \notin Visible'
  BY <1>1, <1>4, NoneInHand DEF Visible
<1>9. Handled'
  BY <1>2, <1>4, <1>8 DEF Handled, EvolutionInv
<1>10. QED
  BY <1>5, <1>6, <1>7, <1>9 DEF EvolutionInv

LEMMA RecordRemovalSteps == EvolutionInv /\ RecordRemoval => EvolutionInv'
<1> SUFFICES ASSUME EvolutionInv, RecordRemoval
             PROVE  EvolutionInv'
  OBVIOUS
<1>1. EvolutionTyped /\ ~Approving /\ ~owed.crashed
  BY DEF EvolutionInv, EvolutionTyped, RecordRemoval, At, Approving, Deciding
<1>2. /\ store' = store /\ owed' = owed /\ tasks' = tasks /\ failed' = failed /\ UNCHANGED scans
      /\ mode' = mode /\ latest' = latest /\ commands' = commands /\ run' = Resting /\ Dispose
  BY DEF RecordRemoval, Decided, Step, world, Finish
<1>3. /\ run' \in RunRecord /\ run'.pc = "idle" /\ run'.kind = "" /\ ~Approving'
      /\ ~At("promote")'
  BY <1>2, AtRest
<1>4. EvolutionTyped'
  BY <1>1, <1>2, <1>3 DEF EvolutionTyped, scans
<1>5. ScansKept' /\ OpenKept'
  BY <1>2, <1>3, DecidedScans, DisposeKeepsOpen
<1>6. Deciding'
  BY <1>1, <1>2, <1>3 DEF EvolutionInv, Deciding, At
<1>7. Handled'
  BY <1>1, <1>2, HandledOn DEF Again
<1>8. QED
  BY <1>4, <1>5, <1>6, <1>7 DEF EvolutionInv
-----------------------------------------------------------------------------
(* Failures, and what begins *)

LEMMA OwedFits ==
  ASSUME EvolutionInv, NEW crashed \in BOOLEAN, owed' = Owed(crashed)
  PROVE  /\ owed' \in OwedRecord /\ (owed'.kind = "approve" => owed'.event # 0)
         /\ run.event = 0 => owed' = owed
         /\ run.event # 0 => /\ owed'.kind = run.kind /\ owed'.command = run.command
                             /\ owed'.event = run.event /\ owed'.crashed = crashed
<1>1. run \in RunRecord /\ owed \in OwedRecord
  BY DEF EvolutionInv, EvolutionTyped
<1>2. CASE run.event = 0
  BY <1>1, <1>2 DEF Owed, EvolutionInv, Deciding
<1>3. CASE run.event # 0
  BY <1>1, <1>3 DEF Owed, OwedRecord, RunRecord
<1>4. QED
  BY <1>2, <1>3

LEMMA RaiseSteps == EvolutionInv /\ Raise => EvolutionInv'
<1> SUFFICES ASSUME EvolutionInv, Raise
             PROVE  EvolutionInv'
  OBVIOUS
<1>1. EvolutionTyped /\ ~owed.crashed
  BY DEF EvolutionInv, EvolutionTyped, Raise, At, Deciding
<1>2. /\ store' = store /\ open' = open /\ tasks' = tasks /\ UNCHANGED scans
      /\ mode' = mode /\ latest' = latest /\ commands' = commands /\ run' = Resting
      /\ owed' = Owed(FALSE) /\ FailsNow /\ Visible' = Visible
  BY DEF Raise, world, Finish, Visible
<1>3. /\ run' \in RunRecord /\ run'.pc = "idle" /\ run'.kind = "" /\ ~Approving'
      /\ ~At("promote")'
  BY <1>2, AtRest
<1>4. owed' \in OwedRecord /\ (owed'.kind = "approve" => owed'.event # 0) /\ ~owed'.crashed
  BY <1>1, <1>2, OwedFits
<1>5. failed' \subseteq Choice /\ (HandedOff => run.command \in failed') /\ failed \subseteq failed'
  BY <1>1, <1>2 DEF FailsNow, EvolutionTyped, RunRecord
<1>6. EvolutionTyped'
  BY <1>1, <1>2, <1>3, <1>4, <1>5 DEF EvolutionTyped, scans
<1>7. ScansKept' /\ OpenKept'
  BY <1>2, <1>3, DecidedScans, SameOpen
<1>8. Deciding'
  BY <1>3, <1>4 DEF Deciding, At
<1>9. \A t \in tasks : t[1] \notin failed' => t[1] \notin Visible
  BY <1>1, <1>5 DEF EvolutionInv, Handled, Again, HandedOff
<1>10. Handled'
  BY <1>2, <1>5, <1>9 DEF Handled, EvolutionInv
<1>11. QED
  BY <1>6, <1>7, <1>8, <1>10 DEF EvolutionInv

LEMMA ProcessEndsSteps == EvolutionInv /\ ProcessEnds => EvolutionInv'
<1> SUFFICES ASSUME EvolutionInv, ProcessEnds
             PROVE  EvolutionInv'
  OBVIOUS
<1>1. EvolutionTyped /\ ~owed.crashed
  BY DEF EvolutionInv, EvolutionTyped, ProcessEnds, At, Deciding
<1>2. /\ store' = store /\ open' = open /\ tasks' = tasks /\ UNCHANGED scans /\ failed' = failed
      /\ mode' = mode /\ latest' = latest /\ commands' = commands /\ run' = Resting
      /\ owed' = Owed(TRUE)
  BY DEF ProcessEnds, world, Finish
<1>3. /\ run' \in RunRecord /\ run'.pc = "idle" /\ run'.kind = "" /\ ~Approving'
      /\ ~At("promote")'
  BY <1>2, AtRest
<1>4. owed' \in OwedRecord /\ (owed'.kind = "approve" => owed'.event # 0)
  BY <1>2, OwedFits
<1>5. EvolutionTyped'
  BY <1>1, <1>2, <1>3, <1>4 DEF EvolutionTyped, scans
<1>6. ScansKept' /\ OpenKept'
  BY <1>2, <1>3, DecidedScans, SameOpen
<1>7. Deciding'
  BY <1>3, <1>4 DEF Deciding, At
<1>8. \A t \in tasks : Again(t) => Again(t)'
  <2>1. SUFFICES ASSUME NEW t \in tasks, Again(t)
                 PROVE  Again(t)'
    OBVIOUS
  <2>2. Approving /\ t = <<run.command, run.event>>
    BY <1>1, <2>1 DEF Again
  <2>3. run.kind = "approve" /\ run.event # 0
    BY <2>2 DEF EvolutionInv, Deciding
  <2>4. /\ owed'.kind = run.kind /\ owed'.command = run.command /\ owed'.event = run.event
        /\ owed'.crashed
    BY <1>2, <2>3, OwedFits
  <2>5. QED
    BY <2>2, <2>3, <2>4 DEF Again
<1>9. Handled'
  BY <1>2, <1>8, HandledOn
<1>10. QED
  BY <1>5, <1>6, <1>7, <1>9 DEF EvolutionInv

(* A command begins while none is in hand. *)
LEMMA BegunKeeps ==
  ASSUME EvolutionInv, At("idle"),
         NEW kind \in Commands, NEW command \in Choice, NEW event \in Nat,
         run' = Begun(kind, command, event), kind = "approve" => event # 0,
         owed' = None \/ (owed' = owed /\ ~owed.crashed),
         owed.crashed => kind = owed.kind /\ command = owed.command /\ event = owed.event,
         UNCHANGED <<latest, mode, scans, store, open, tasks, failed>>, commands' \in Nat
  PROVE  EvolutionInv'
<1>1. EvolutionTyped /\ ~Approving
  BY DEF EvolutionInv, At, Approving
<1>2. /\ run' \in RunRecord /\ run'.kind = kind /\ run'.event = event /\ run'.command = command
      /\ IF kind \in {"approve", "remove"} THEN run'.pc = kind
         ELSE run'.pc \in {"acknowledge", "idle", "ideas", "scan"}
  BY <1>1, BegunFits
<1>3. /\ run'.pc \notin {"record", "record_proposal", "enqueue", "promote"}
      /\ run'.pc = "approve" <=> kind = "approve"
  BY <1>2
<1>4. /\ owed' \in OwedRecord /\ ~owed'.crashed /\ (owed'.kind = "approve" => owed'.event # 0)
  <2>1. CASE owed' = None
    BY <2>1, NoneFits DEF None
  <2>2. CASE owed' = owed /\ ~owed.crashed
    BY <1>1, <2>2 DEF EvolutionTyped, EvolutionInv, Deciding
  <2>3. QED
    BY <2>1, <2>2
<1>5. EvolutionTyped'
  BY <1>1, <1>2, <1>4 DEF EvolutionTyped, scans
<1>6. ScansKept' /\ OpenKept'
  BY <1>3, DecidedScans, SameOpen
<1>7. Deciding'
  BY <1>2, <1>3, <1>4 DEF Deciding, Approving, At
<1>8. \A t \in tasks : Again(t) => Again(t)'
  BY <1>1, <1>2, <1>3 DEF Again, Approving
<1>9. Handled'
  BY <1>8, HandledOn
<1>10. QED
  BY <1>5, <1>6, <1>7, <1>9 DEF EvolutionInv

LEMMA CommandSteps == EvolutionInv /\ Command => EvolutionInv'
<1> SUFFICES ASSUME EvolutionInv,
                    NEW kind \in {"scan", "propose", "brainstorm", "approve", "remove"},
                    NEW command \in Choice, Receive(kind, command)
             PROVE  EvolutionInv'
  BY DEF Command, Choice, EvolutionInv, EvolutionTyped
<1>1. commands \in Nat /\ commands' = commands + 1 /\ Loop /\ owed' = None
      /\ run' = Begun(kind, command, commands + 1)
      /\ UNCHANGED <<latest, mode, scans, store, open, tasks, failed>>
  BY DEF Receive, EvolutionInv, EvolutionTyped
<1>2. kind \in Commands
  BY DEF Commands
<1>3. commands + 1 \in Nat /\ commands + 1 # 0
  BY <1>1
<1>4. At("idle") /\ ~owed.crashed
  BY <1>1 DEF Loop
<1>5. QED
  BY <1>1, <1>2, <1>3, <1>4, BegunKeeps

LEMMA RedeliverSteps == EvolutionInv /\ Redeliver => EvolutionInv'
<1> SUFFICES ASSUME EvolutionInv, Redeliver
             PROVE  EvolutionInv'
  OBVIOUS
<1>1. owed \in OwedRecord /\ commands \in Nat /\ (owed.kind = "approve" => owed.event # 0)
  BY DEF EvolutionInv, EvolutionTyped, Deciding
<1>2. owed.kind \in Commands /\ owed.command \in Choice /\ owed.event \in Nat
  BY <1>1 DEF OwedRecord
<1>3. /\ At("idle") /\ owed' = None /\ run' = Begun(owed.kind, owed.command, owed.event)
      /\ UNCHANGED <<latest, mode, scans, store, open, tasks, failed>> /\ commands' = commands
  BY DEF Redeliver, world
<1>4. QED
  BY <1>1, <1>2, <1>3, BegunKeeps

LEMMA DueSteps == EvolutionInv /\ (ScanWhenDue \/ ClaimCheck) => EvolutionInv'
<1> SUFFICES ASSUME EvolutionInv, NEW kind \in {"threshold", "check"},
                    Loop, run' = Begun(kind, Nothing, 0), Step,
                    UNCHANGED <<scans, store, open, tasks, failed>>
             PROVE  EvolutionInv'
  BY DEF ScanWhenDue, ClaimCheck
<1>1. kind \in Commands /\ Nothing \in Choice /\ 0 \in Nat /\ kind # "approve"
  BY DEF Commands, Choice
<1>2. /\ At("idle") /\ ~owed.crashed /\ owed' = owed /\ commands' \in Nat
      /\ UNCHANGED <<latest, mode, scans, store, open, tasks, failed>>
  BY DEF Loop, Step, world, EvolutionInv, EvolutionTyped
<1>3. QED
  BY <1>1, <1>2, BegunKeeps

LEMMA ConfigureSteps == EvolutionInv /\ Configure => EvolutionInv'
<1> SUFFICES ASSUME EvolutionInv, Configure
             PROVE  EvolutionInv'
  OBVIOUS
<1>1. EvolutionTyped /\ run.pc = "idle" /\ ~owed.crashed
  BY DEF EvolutionInv, Configure, Loop, At
<1>2. /\ latest' = latest /\ UNCHANGED scans /\ store' = store /\ open' = open /\ tasks' = tasks
      /\ run' = run /\ failed' = failed /\ commands' = commands + 1 /\ mode' \in Modes
  BY <1>1 DEF Configure, EvolutionTyped, Modes
<1>3. owed' \in OwedRecord /\ owed'.kind # "approve" /\ ~owed'.crashed
  BY NoneFits DEF Configure, None
<1>4. EvolutionTyped'
  BY <1>1, <1>2, <1>3 DEF EvolutionTyped, scans
<1>5. ScansKept' /\ OpenKept'
  BY <1>1, <1>2, DecidedScans, SameOpen
<1>6. Deciding'
  BY <1>1, <1>2, <1>3 DEF EvolutionInv, Deciding, Approving, At
<1>7. Handled'
  BY <1>1, <1>2, HandledOn DEF Again, Approving
<1>8. QED
  BY <1>4, <1>5, <1>6, <1>7 DEF EvolutionInv

LEMMA OtherSteps == EvolutionInv /\ (Tick \/ \E r \in Records : Happens(r)) => EvolutionInv'
<1> SUFFICES ASSUME EvolutionInv, Tick \/ \E r \in Records : Happens(r)
             PROVE  EvolutionInv'
  OBVIOUS
<1>1. EvolutionTyped
  BY DEF EvolutionInv
<1>2. /\ UNCHANGED scans /\ store' = store /\ open' = open /\ tasks' = tasks /\ mode' = mode
      /\ run' = run /\ failed' = failed /\ commands' = commands /\ owed' = owed
  BY DEF Tick, Happens, Others
<1>3. latest' \in [Records -> Nat]
  BY <1>1 DEF Tick, Happens, EvolutionTyped
<1>4. EvolutionTyped'
  BY <1>1, <1>2, <1>3 DEF EvolutionTyped, scans
<1>5. ScansKept' /\ OpenKept'
  BY <1>2 DEF EvolutionInv, ScansKept, ScanKept, EvidenceKept, OpenKept, OneOpen, ClosedBefore, scans, At
<1>6. Deciding'
  BY <1>2 DEF EvolutionInv, Deciding, Approving, At, HandedOff, Visible
<1>7. Handled'
  BY <1>2, HandledOn DEF Again, Approving
<1>8. QED
  BY <1>4, <1>5, <1>6, <1>7 DEF EvolutionInv
-----------------------------------------------------------------------------
LEMMA EvolutionInvStep == EvolutionInv /\ [Next]_vars => EvolutionInv'
<1> SUFFICES ASSUME EvolutionInv, [Next]_vars
             PROVE  EvolutionInv'
  OBVIOUS
<1>1. CASE StepKept
  BY <1>1, OnwardKeeps DEF StepKept, EvolutionInv
<1>2. CASE Tick \/ \E r \in Records : Happens(r)
  BY <1>2, OtherSteps
<1>3. CASE Command
  BY <1>3, CommandSteps
<1>4. CASE Redeliver
  BY <1>4, RedeliverSteps
<1>5. CASE Configure
  BY <1>5, ConfigureSteps
<1>6. CASE ScanWhenDue \/ ClaimCheck
  BY <1>6, DueSteps
<1>7. CASE Proceed
  <2>1. CASE ReadBatch \/ Answered \/ RecordScan
    BY <1>1, <2>1, ReadBatchSteps, AnsweredSteps, RecordScanSteps
  <2>2. CASE Synthesize \/ Link \/ BrainstormWhenDue \/ Brainstorm
    BY <1>1, <2>2, SynthesizeSteps, LinkSteps, BrainstormWhenDueSteps, BrainstormSteps
  <2>3. CASE Curate \/ CloseProposal \/ Propose \/ AcknowledgeCheck
    BY <1>1, <2>3, CurateSteps, CloseProposalSteps, ProposeSteps, AcknowledgeCheckSteps
  <2>4. CASE Select \/ Enqueue \/ Approve \/ Remove \/ RecordRemoval
    BY <2>4, SelectSteps, EnqueueSteps, ApproveSteps, RemoveSteps, RecordRemovalSteps
  <2>5. QED
    BY <1>7, <2>1, <2>2, <2>3, <2>4 DEF Proceed
<1>8. CASE Raise
  BY <1>8, RaiseSteps
<1>9. CASE ProcessEnds
  BY <1>9, ProcessEndsSteps
<1>10. CASE UNCHANGED vars
  BY <1>10 DEF EvolutionInv, EvolutionTyped, ScansKept, ScanKept, EvidenceKept, OpenKept, OneOpen,
     ClosedBefore, Deciding, Handled, Again, Approving, At, HandedOff, Visible, vars, world, scans
<1>11. QED
  BY <1>2, <1>3, <1>4, <1>5, <1>6, <1>7, <1>8, <1>9, <1>10 DEF Next

LEMMA EvolutionInvCorrect == Spec => []EvolutionInv
<1>1. Init => EvolutionInv
  BY EvolutionInitially
<1>2. EvolutionInv /\ [Next]_vars => EvolutionInv'
  BY EvolutionInvStep
<1>3. QED
  BY <1>1, <1>2, PTL DEF Spec

(* Whatever is marked as scanned was shown to a model in that version,     *)
(* what completed scans found is on file, and what is linked has its       *)
(* candidate: for any records, batches, titles and number of faults.       *)
THEOREM EvidenceKeptCorrect == Spec => []EvidenceKept
<1>1. EvolutionInv => EvidenceKept
  BY DEF EvolutionInv, ScansKept
<1>2. QED
  BY <1>1, EvolutionInvCorrect, PTL

(* An approved candidate has its task, and one only unless a handler of its *)
(* own failed with the task in the queue, wherever the process ends or raises  *)
(* and however often an approval is handled again.                         *)
THEOREM ApprovedOnceCorrect == Spec => []ApprovedOnce
<1>1. EvolutionInv => ApprovedOnce
  <2>1. SUFFICES ASSUME EvolutionInv
                 PROVE  ApprovedOnce
    OBVIOUS
  <2>2. QED
    BY <2>1 DEF EvolutionInv, Handled, ApprovedOnce
<1>2. QED
  BY <1>1, EvolutionInvCorrect, PTL

(* One proposal is open at a time: every other one was closed before it    *)
(* was made, whatever fails on the way.                                    *)
THEOREM OneOpenProposalCorrect == Spec => []OneOpenProposal
<1>1. EvolutionInv => OneOpenProposal
  <2>1. SUFFICES ASSUME EvolutionInv
                 PROVE  OneOpenProposal
    OBVIOUS
  <2>2. PICK p : DOMAIN open \subseteq {p}
    BY <2>1 DEF EvolutionInv, OpenKept, OneOpen
  <2>3. CASE DOMAIN open = {}
    <3>1. Cardinality({}) = 0
      BY FS_EmptySet
    <3>2. QED
      BY <2>3, <3>1 DEF OneOpenProposal
  <2>4. CASE DOMAIN open = {p}
    <3>1. Cardinality({p}) = 1
      BY FS_Singleton
    <3>2. QED
      BY <2>4, <3>1 DEF OneOpenProposal
  <2>5. QED
    BY <2>2, <2>3, <2>4
<1>2. QED
  BY <1>1, EvolutionInvCorrect, PTL
=============================================================================
