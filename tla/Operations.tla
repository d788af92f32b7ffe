----------------------------- MODULE Operations -----------------------------
(***************************************************************************)
(* The life of the daemon's processes: start, takeover, stop and crash     *)
(* (application.py, app/core.py main, channel.py, app/epoch.py), the       *)
(* update of the checkout they are started from (operations/updater.py),   *)
(* and the migration of the state they share (PrivateState).               *)
(*                                                                         *)
(* A process loads the build it finds in the checkout, begins an epoch,    *)
(* records that it runs, and only then looks whether it supports the       *)
(* state.  An update puts another build in place and has the doctor of     *)
(* that build decide whether it stays.  The service may start a process    *)
(* at any time, and anything may be killed at any step.                    *)
(***************************************************************************)
EXTENDS PrivateState

CONSTANTS Fenced,        \* files written under the guard of the epoch: the queue's and the notices'
          MaxProcesses,  \* bound: processes of the daemon, one after another
          MaxShells,     \* bound: shells that update the checkout or migrate the state
          MaxSaves,      \* bound: writes of the daemons that a file contains
          MaxKills       \* bound: processes that are killed

ASSUME OperationsAssumption ==
  Fenced \subseteq Files /\ {MaxProcesses, MaxShells, MaxSaves, MaxKills} \subseteq Nat

VARIABLES
  daemon,     \* each process: where it is, its build, and what it found
  epoch,      \* the process whose epoch is the current one
  lifecycle,  \* the record of the last run: none, running, told or untold
  last,       \* the process that last began its record
  checkout,   \* the build of the checkout
  vetted,     \* builds the doctor has passed
  update,     \* the update of each user: where it is, where from and where to
  abandoned,  \* builds an update left in the checkout without a verdict
  late,       \* files a replaced daemon of a later build wrote under the one at work
  beside,     \* files a daemon the migration could not see wrote beside it
  kills,      \* processes that were killed so far
  overlapped  \* a process recorded its stop after the last had begun

processVars == <<daemon, epoch, lifecycle, last, overlapped>>
updateVars  == <<checkout, vetted, update, abandoned>>
historyVars == <<late, beside>>
operationVars == <<stateVars, processVars, updateVars, historyVars, kills>>

Processes  == 1..MaxProcesses
NoProcess  == 0
Shells     == (MaxProcesses + 1)..(MaxProcesses + MaxShells)
NewProcess == [pc |-> "new", build |-> 1, raced |-> FALSE, told |-> FALSE, owed |-> FALSE,
               warning |-> FALSE]
NoUpdate   == [pc |-> "off", from |-> 1, to |-> 1, among |-> FALSE]
Users      == Processes \union Shells

OperationsInit ==
  /\ PrivateStateInit
  /\ daemon = [d \in Processes |-> NewProcess] /\ epoch = NoProcess
  /\ lifecycle = "none" /\ last = NoProcess /\ overlapped = FALSE
  /\ checkout = 1 /\ vetted = {1} /\ update = [u \in Users |-> NoUpdate] /\ abandoned = {}
  /\ late = {} /\ beside = {} /\ kills = 0

In(d, pc)   == daemon[d].pc = pc
Move(d, pc) == daemon' = [daemon EXCEPT ![d].pc = pc]
End(d)      == daemon' = [daemon EXCEPT ![d] = [NewProcess EXCEPT !.pc = "ended", !.told = daemon[d].told /\ last = d]]
Alive(d)    == ~In(d, "new") /\ ~In(d, "ended")
OwnerAlive  == epoch # NoProcess /\ Alive(epoch)
Working(d)  == daemon[d].pc \in {"running", "handling"}
OwnerWorks  == epoch # NoProcess /\ Working(epoch)

(* /update holds the lock of the epoch to its end, the shell does not. *)
Updating(user, pc) == update[user].pc = pc
EpochLocked == \E d \in Processes : ~Updating(d, "off")

-----------------------------------------------------------------------------
(* Start *)

Launch(d) ==
  /\ In(d, "new") /\ \A p \in 1..(d - 1) : ~In(p, "new")
  /\ daemon' = [daemon EXCEPT ![d].pc = "launched", ![d].build = checkout]
  /\ UNCHANGED <<stateVars, epoch, lifecycle, last, overlapped, updateVars, historyVars, kills>>

(* It may begin beside a migration that has looked for it already. *)
BeginEpoch(d) ==
  /\ In(d, "launched") /\ ~EpochLocked
  /\ epoch' = d /\ late' = {}
  /\ daemon' = [daemon EXCEPT ![d].pc = "resolved", ![d].raced = Committed]
  /\ UNCHANGED <<stateVars, lifecycle, last, overlapped, updateVars, beside, kills>>

(* Seeded fault: only a run that never recorded its stop is reported. *)
WarningOfCrash(record) == record = "running"

Warning(record) == record \in {"running", "untold"}

BeginLifecycle(d) ==
  /\ In(d, "resolved")
  /\ daemon' = [daemon EXCEPT ![d].pc = "recorded", ![d].warning = Warning(lifecycle),
                  ![d].owed = last # NoProcess /\ In(last, "ended") /\ ~daemon[last].told /\ ~overlapped]
  /\ lifecycle' = "running" /\ last' = d /\ overlapped' = FALSE
  /\ UNCHANGED <<stateVars, epoch, updateVars, historyVars, kills>>

(* Seeded fault: the constructor does not look at the state. *)
ConstructAnyway(d) ==
  /\ In(d, "recorded")
  /\ Move(d, "running")
  /\ UNCHANGED <<stateVars, epoch, lifecycle, last, overlapped, updateVars, historyVars, kills>>

(* assert_private_state_supported, in the constructor, looks at every file. *)
Construct(d) ==
  /\ In(d, "recorded")
  /\ IF Supported(daemon[d].build)
     THEN daemon' = [daemon EXCEPT ![d] = [NewProcess EXCEPT !.pc = "running", !.build = daemon[d].build,
                                             !.raced = daemon[d].raced /\ Committed]]
     ELSE End(d)
  /\ UNCHANGED <<stateVars, epoch, lifecycle, last, overlapped, updateVars, historyVars, kills>>

-----------------------------------------------------------------------------
(* Run and stop *)

(* run_once and each handler look once at the epoch, before they begin.    *)
(* Turn follows turn until a look finds another epoch (Stale).             *)
BeginTurn(d) ==
  /\ In(d, "running") /\ epoch = d /\ ~EpochLocked
  /\ Move(d, "handling")
  /\ UNCHANGED <<stateVars, epoch, lifecycle, last, overlapped, updateVars, historyVars, kills>>

(* The queue and the notices are written under the lock of the epoch; the  *)
(* inbox, the cursor and the other files by a turn that has looked at it   *)
(* when it began, whoever owns it by now.                                  *)
Write(d, f) ==
  /\ IF f \in Fenced THEN Working(d) /\ epoch = d /\ ~EpochLocked ELSE In(d, "handling")
  /\ \A g \in Files : file[g].content < MaxSaves
  /\ Save(f, daemon[d].build)
  /\ late' = IF epoch # d /\ OwnerWorks /\ daemon[epoch].build < daemon[d].build
             THEN late \union {f} ELSE late
  /\ beside' = IF (epoch # d \/ daemon[d].raced) /\ Committed THEN beside \union {f} ELSE beside
  /\ UNCHANGED <<processVars, updateVars, kills>>

(* The next look finds another epoch: the process ends and records nothing. *)
Stale(d) ==
  /\ Working(d) /\ epoch # d
  /\ End(d)
  /\ UNCHANGED <<stateVars, epoch, lifecycle, last, overlapped, updateVars, historyVars, kills>>

(* An update that changed the checkout and has no verdict yet. *)
UnderWay(user) == update[user].pc \in {"restored", "activated", "failed"}

(* An update that is interrupted leaves the checkout as it is. *)
Interrupt(user) ==
  /\ update' = [update EXCEPT ![user] = NoUpdate]
  /\ abandoned' = IF UnderWay(user) THEN abandoned \union ({checkout} \ vetted) ELSE abandoned
  /\ UNCHANGED <<checkout, vetted>>

(* A signal: the workers stop, the user is told, unless that fails. *)
Shutdown(d) ==
  /\ Working(d)
  /\ IF epoch # d THEN End(d)     \* the message is fenced, and its error not caught
     ELSE \E sent \in BOOLEAN :
            daemon' = [daemon EXCEPT ![d].pc = "stopping", ![d].told = sent]
  /\ Interrupt(d)
  /\ UNCHANGED <<stateVars, epoch, lifecycle, last, overlapped, historyVars, kills>>

(* record_channel_shutdown looks at no epoch. *)
RecordShutdown(d) ==
  /\ In(d, "stopping")
  /\ End(d)
  /\ lifecycle' = IF daemon[d].told THEN "told" ELSE "untold"
  /\ overlapped' = (overlapped \/ last # d)
  /\ UNCHANGED <<stateVars, epoch, last, updateVars, historyVars, kills>>

Kill == kills < MaxKills /\ kills' = kills + 1

Crash(d) ==
  /\ Alive(d) /\ Kill
  /\ End(d)
  /\ Interrupt(d)
  /\ UNCHANGED <<stateVars, epoch, lifecycle, last, overlapped, historyVars>>

-----------------------------------------------------------------------------
(* Update *)

(* /update is a handler that goes on under the lock of the epoch.  A shell *)
(* runs one command at a time, an update or a migration.                   *)
May(user) ==
  IF user \in Processes THEN In(user, "handling") /\ epoch = user /\ ~EpochLocked
  ELSE Now("off") \/ \E other \in Shells \ {user} : Updating(other, "off")

(* A working copy with changes, or one that went another way, is left.     *)
(* One that is at the authoritative revision is not looked at again.       *)
Inspect(user) ==
  /\ Updating(user, "off") /\ May(user)
  /\ \E to \in (checkout + 1)..MaxBuild :
       update' = [update EXCEPT ![user] = [pc |-> "inspected", from |-> checkout, to |-> to,
                    among |-> checkout \notin vetted \union abandoned]]
  /\ UNCHANGED <<stateVars, processVars, checkout, vetted, abandoned, historyVars, kills>>

Refuse(user) ==
  /\ Updating(user, "inspected")
  /\ update' = [update EXCEPT ![user] = NoUpdate]
  /\ UNCHANGED <<stateVars, processVars, checkout, vetted, abandoned, historyVars, kills>>

Restore(user) ==
  /\ Updating(user, "inspected")
  /\ checkout' = update[user].to
  /\ update' = [update EXCEPT ![user].pc = "restored"]
  /\ UNCHANGED <<stateVars, processVars, vetted, abandoned, historyVars, kills>>

(* The restored working copy is inspected again.  An error there, or in    *)
(* the restore itself, ends the update: no doctor runs and nothing is put  *)
(* back, and so it is when another update has put another revision there.  *)
Activate(user) ==
  /\ Updating(user, "restored")
  /\ \/ /\ checkout = update[user].to
        /\ update' = [update EXCEPT ![user].pc = "activated"]
        /\ UNCHANGED abandoned
     \/ Interrupt(user)
  /\ UNCHANGED <<stateVars, processVars, checkout, vetted, historyVars, kills>>

(* The doctor of the build that is there, in a process of its own, looks   *)
(* at the state too; it may also not come to an answer.                    *)
RunUpdateDoctor(user) ==
  /\ Updating(user, "activated")
  /\ \/ /\ Supported(checkout)
        /\ vetted' = vetted \union {checkout} /\ abandoned' = abandoned \ {checkout}
        /\ update' = [update EXCEPT ![user] = NoUpdate]
     \/ UNCHANGED <<vetted, abandoned>> /\ update' = [update EXCEPT ![user].pc = "failed"]
  /\ UNCHANGED <<stateVars, processVars, checkout, historyVars, kills>>

(* Seeded fault: the revision that is restored is the one that failed. *)
RollBackNowhere(user) ==
  /\ Updating(user, "failed")
  /\ update' = [update EXCEPT ![user] = NoUpdate]
  /\ UNCHANGED <<stateVars, processVars, checkout, vetted, abandoned, historyVars, kills>>

(* The revision the update began from may be one that another update had   *)
(* put there and had no verdict on yet.                                    *)
RollBack(user) ==
  /\ Updating(user, "failed")
  /\ update' = [update EXCEPT ![user] = NoUpdate]
  /\ \/ /\ checkout' = update[user].from
        /\ abandoned' = IF update[user].among THEN abandoned \union ({checkout'} \ vetted) ELSE abandoned
     \/ abandoned' = abandoned \union ({checkout} \ vetted) /\ UNCHANGED checkout
  /\ UNCHANGED <<stateVars, processVars, vetted, historyVars, kills>>

KillUpdate(user) ==
  /\ user \in Shells /\ ~Updating(user, "off") /\ Kill
  /\ Interrupt(user)
  /\ UNCHANGED <<stateVars, processVars, historyVars>>

-----------------------------------------------------------------------------
(* Migration, from a shell *)

MigrationOnly ==
  /\ beside' = {f \in beside : Committed'}
  /\ UNCHANGED <<processVars, updateVars, late>>

StartMigration ==
  /\ \E shell \in Shells : Updating(shell, "off")
  /\ Migrate(checkout)
  /\ MigrationOnly /\ UNCHANGED kills

RunMigration  == MigrationStep(OwnerAlive) /\ MigrationOnly /\ UNCHANGED kills
KillMigration == Killed /\ Kill /\ MigrationOnly

OperationsNext ==
  \/ \E d \in Processes :
       \/ Launch(d) \/ BeginEpoch(d) \/ BeginLifecycle(d) \/ Construct(d)
       \/ BeginTurn(d) \/ Stale(d)
       \/ Shutdown(d) \/ RecordShutdown(d) \/ Crash(d)
       \/ \E f \in Files : Write(d, f)
  \/ \E user \in Users :
       \/ Inspect(user) \/ Refuse(user) \/ Restore(user) \/ Activate(user)
       \/ RunUpdateDoctor(user) \/ RollBack(user) \/ KillUpdate(user)
  \/ StartMigration \/ RunMigration \/ KillMigration

OperationsSpec == OperationsInit /\ [][OperationsNext]_operationVars

-----------------------------------------------------------------------------
(* Properties *)

(* A migration loses nothing a daemon wrote, whether it is completed,      *)
(* rolled back or killed, but in a file that was written beside it by a    *)
(* daemon its look could not find: one that began later, or was replaced   *)
(* and ended its turn.                                                     *)
ContentKept ==
  [][\A f \in Files \ beside' : file'[f].content >= file[f].content]_operationVars

(* The daemon that owns the state never works on files of a later build,   *)
(* whatever updates, rollbacks and migrations went on when it started,     *)
(* unless it began beside a migration, and but for files that a replaced   *)
(* daemon wrote since; of the queue and the notices there are none.        *)
NeverAhead ==
  \A d \in Processes :
    Working(d) /\ epoch = d /\ ~daemon[d].raced =>
      /\ manifest <= daemon[d].build
      /\ \A f \in (Files \ late) \union Fenced : file[f].version <= daemon[d].build

(* However updates of the shell and of the chat interleave, they leave a   *)
(* checkout the doctor passed, unless one of them left another there: it   *)
(* was killed, failed after its restore, could not go back, or went back   *)
(* to what another one had not judged yet.                                 *)
Vetted ==
  (\A user \in Users : ~UnderWay(user)) => checkout \in vetted \union abandoned

(* A run that ended without a word is reported by the next one, unless     *)
(* another run recorded its own stop after that one had begun.             *)
StopReported == \A d \in Processes : daemon[d].owed => daemon[d].warning
=============================================================================
