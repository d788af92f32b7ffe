---------------------------- MODULE PrivateState ----------------------------
(***************************************************************************)
(* The private state of an instance (private_state.py): versioned files    *)
(* with a manifest, the check that a build supports them, and their        *)
(* migration, file by file, with a backup to go back to.                   *)
(*                                                                         *)
(* A build is a number, and so is the version its files have.  At first    *)
(* they are of the first build, with or without a manifest.  What is in a  *)
(* file is the number of times a daemon wrote it: a migration keeps that.  *)
(* A migration holds the lock of the manifest and of no other file, so     *)
(* what it reads of a file may be old when it writes it.                   *)
(***************************************************************************)
EXTENDS Naturals

CONSTANTS Files,
          FirstManifest,  \* 0 if the first build has not written a manifest, or else 1
          MaxBuild        \* bound: builds are 1..MaxBuild

ASSUME PrivateStateAssumption == FirstManifest \in 0..1 /\ MaxBuild \in Nat \ {0}

VARIABLES
  file,       \* version and content of each file
  manifest,   \* the build that wrote the manifest, 0 if there is none
  migration   \* the one that runs: where it is, its build, what it has to do

stateVars == <<file, manifest, migration>>

Fresh == [version |-> 1, content |-> 0]

(* read has the file in hand, if there is one, and copy what was in it. *)
NoMigration == [pc |-> "off", build |-> 1, todo |-> {}, left |-> {}, read |-> {}, copy |-> 0,
                backup |-> [f \in Files |-> Fresh], old |-> 0]

PrivateStateInit ==
  /\ file = [f \in Files |-> Fresh] /\ manifest = FirstManifest
  /\ migration = NoMigration

-----------------------------------------------------------------------------
(* plan_private_state: a build cannot use what a later one wrote *)

Outdated(build)  == {f \in Files : file[f].version < build}
Supported(build) == manifest <= build /\ \A f \in Files : file[f].version <= build
Required(build)  == manifest # build \/ Outdated(build) # {}

Now(pc)    == migration.pc = pc
Enter(pc)  == migration' = [migration EXCEPT !.pc = pc]
Left(pc, files) == migration' = [migration EXCEPT !.pc = pc, !.left = files]

Migrate(build) ==
  /\ Now("off") /\ Supported(build) /\ Required(build)
  /\ migration' = [NoMigration EXCEPT !.pc = "planned", !.build = build]
  /\ UNCHANGED <<file, manifest>>

(* Seeded fault: nobody asks whether a daemon runs. *)
RequireNothing(alive) ==
  /\ Now("planned") /\ Enter("stopped")
  /\ UNCHANGED <<file, manifest>>

RequireStopped(alive) ==
  /\ Now("planned")
  /\ IF alive THEN migration' = NoMigration ELSE Enter("stopped")
  /\ UNCHANGED <<file, manifest>>

(* Under the lock of the manifest: the plan is made again. *)
Replan ==
  /\ Now("stopped")
  /\ IF Supported(migration.build) /\ Required(migration.build)
     THEN migration' = [migration EXCEPT !.pc = "backup", !.todo = Outdated(migration.build),
                          !.left = Outdated(migration.build), !.old = manifest]
     ELSE migration' = NoMigration
  /\ UNCHANGED <<file, manifest>>

BackUpFile(f) ==
  /\ Now("backup") /\ f \in migration.left
  /\ migration' = [migration EXCEPT !.left = @ \ {f}, !.backup[f] = file[f]]
  /\ UNCHANGED <<file, manifest>>

(* What fails before the first file is written needs no rollback. *)
BackedUp ==
  /\ Now("backup")
  /\ \/ migration.left = {} /\ Left("write", migration.todo)
     \/ migration' = NoMigration
  /\ UNCHANGED <<file, manifest>>

ReadFile(f) ==
  /\ Now("write") /\ f \in migration.left /\ migration.read = {}
  /\ migration' = [migration EXCEPT !.left = @ \ {f}, !.read = {f}, !.copy = file[f].content]
  /\ UNCHANGED <<file, manifest>>

WriteFile(f) ==
  /\ Now("write") /\ f \in migration.read
  /\ file' = [file EXCEPT ![f] = [version |-> migration.build, content |-> migration.copy]]
  /\ migration' = [migration EXCEPT !.read = {}, !.copy = 0]
  /\ UNCHANGED manifest

WriteManifest ==
  /\ Now("write") /\ migration.left \union migration.read = {}
  /\ manifest' = migration.build
  /\ Enter("validate")
  /\ UNCHANGED file

Validate ==
  /\ Now("validate")
  /\ IF Supported(migration.build) /\ ~Required(migration.build)
     THEN migration' = NoMigration
     ELSE Left("rollback", migration.todo)
  /\ UNCHANGED <<file, manifest>>

(* An error anywhere between the backup and the end. *)
Fails ==
  /\ Now("write") \/ Now("validate")
  /\ Left("rollback", migration.todo)
  /\ UNCHANGED <<file, manifest>>

(* _restore_backup; if that fails too, the rest stays as it is. *)
RestoreFile(f) ==
  /\ Now("rollback") /\ f \in migration.left
  /\ \/ file' = [file EXCEPT ![f] = migration.backup[f]] /\ Left("rollback", migration.left \ {f})
     \/ UNCHANGED file /\ migration' = NoMigration
  /\ UNCHANGED manifest

RestoreManifest ==
  /\ Now("rollback") /\ migration.left = {}
  /\ manifest' = migration.old
  /\ migration' = NoMigration
  /\ UNCHANGED file

(* The process is killed: nothing is rolled back. *)
Killed ==
  /\ ~Now("off")
  /\ migration' = NoMigration
  /\ UNCHANGED <<file, manifest>>

MigrationStep(alive) ==
  \/ RequireStopped(alive) \/ Replan \/ BackedUp \/ WriteManifest \/ Validate \/ Fails
  \/ RestoreManifest \/ \E f \in Files : BackUpFile(f) \/ ReadFile(f) \/ WriteFile(f) \/ RestoreFile(f)

(* A migration that is past its look at the daemon. *)
Committed == migration.pc \in {"stopped", "backup", "write", "validate", "rollback"}

(* A daemon writes a file in the version its build knows. *)
Save(f, build) ==
  /\ file' = [file EXCEPT ![f] = [version |-> build, content |-> @.content + 1]]
  /\ UNCHANGED <<manifest, migration>>
=============================================================================
