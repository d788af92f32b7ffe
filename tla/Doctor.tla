------------------------------- MODULE Doctor -------------------------------
(***************************************************************************)
(* The immune system (immune.py): the checks a checkout must pass, and the *)
(* environment its tests run in (validation_environment.py).               *)
(*                                                                         *)
(* The environment is one directory, named by what it is made of and       *)
(* shared by every process of the account.  Whoever finds its Python unfit *)
(* builds it anew under a lock, in a temporary directory that replaces the *)
(* target; whoever finds it fit uses it without one.                       *)
(***************************************************************************)
EXTENDS Naturals

CONSTANTS Doctors,  \* the processes that run the checks
          NoDoctor

ASSUME DoctorAssumption == NoDoctor \notin Doctors

VARIABLES
  env,     \* the target: absent, whole, damaged or a rest without its marker
  holder,  \* who holds the lock .provision
  doctor   \* where each one is, the Python it found, what failed so far

doctorVars == <<env, holder, doctor>>

Idle == [pc |-> "off", python |-> "base", failed |-> FALSE]

DoctorInit ==
  /\ env = "absent" /\ holder = NoDoctor
  /\ doctor = [d \in Doctors |-> Idle]

-----------------------------------------------------------------------------
(* The checks besides the tests *)

(* What each of them may find.  A dirty checkout passes: it is reported. *)
PythonRuntime == {"missing", "too old", "fine"}
Imports       == {"broken", "loaded"}
Runtime       == {"unavailable", "not authenticated", "ready"}
Forge         == {"unavailable", "unhealthy", "healthy", "loaded"}
Workspace     == {"unavailable", "clean", "dirty"}
Storage       == {"not writable", "unreadable", "unsupported", "readable"}

(* run_immune_system passes when every check did. *)
Passed == {"fine", "loaded", "ready", "healthy", "clean", "dirty", "readable"}
Verdicts ==
  {{p, i, r, f, w, s} \subseteq Passed :
     p \in PythonRuntime, i \in Imports, r \in Runtime, f \in Forge, w \in Workspace, s \in Storage}

-----------------------------------------------------------------------------
(* The environment of the tests *)

At(d, pc)   == doctor[d].pc = pc
Goto(d, pc) == doctor' = [doctor EXCEPT ![d].pc = pc]
Fails(d)    == doctor' = [doctor EXCEPT ![d].pc = "rest", ![d].failed = TRUE]

Complete == env \in {"whole", "damaged"}

Examine(d) ==
  /\ At(d, "off")
  /\ doctor' = [doctor EXCEPT ![d] = [Idle EXCEPT !.pc = "look"]]
  /\ UNCHANGED <<env, holder>>

(* existing_validation_environment: a marker that names this environment. *)
LookUp(d) ==
  /\ At(d, "look")
  /\ doctor' = [doctor EXCEPT ![d].pc = "probe",
                              ![d].python = IF Complete THEN "managed" ELSE "base"]
  /\ UNCHANGED <<env, holder>>

Fit(d) == doctor[d].python = "base" \/ env = "whole"

(* Every way to fail is one the managed environment may repair; even a fit *)
(* Python may not answer in time.                                          *)
Probe(d) ==
  /\ At(d, "probe")
  /\ \/ /\ Fit(d)
        /\ Goto(d, "tests")
     \/ Goto(d, "lock")
  /\ UNCHANGED <<env, holder>>

EnterProvision(d) ==
  /\ At(d, "lock")
  /\ holder = NoDoctor /\ holder' = d
  /\ Goto(d, "recheck")
  /\ UNCHANGED env

(* Seeded fault: the environment is not looked at again under the lock. *)
RecheckNothing(d) ==
  /\ At(d, "recheck")
  /\ Goto(d, IF env = "absent" THEN "build" ELSE "remove")
  /\ UNCHANGED <<env, holder>>

(* Another process may have built it meanwhile. *)
Recheck(d) ==
  /\ At(d, "recheck")
  /\ \/ /\ env = "whole"
        /\ doctor' = [doctor EXCEPT ![d].pc = "verify", ![d].python = "managed"]
        /\ holder' = NoDoctor
     \/ /\ env # "whole"
        /\ Goto(d, IF env = "absent" THEN "build" ELSE "remove")
        /\ UNCHANGED holder
     \/ /\ Complete                  \* the check times out
        /\ Fails(d) /\ holder' = NoDoctor
  /\ UNCHANGED env

(* rmtree removes file by file: the marker before the rest, or after it. *)
Remove(d) ==
  /\ At(d, "remove")
  /\ \/ env' \in {"rest", "damaged"} /\ env' # env /\ env # "rest" /\ UNCHANGED doctor
     \/ env' = "absent" /\ Goto(d, "build")
  /\ UNCHANGED holder

(* Built aside, then put in place by one rename; a failure leaves nothing. *)
Build(d) ==
  /\ At(d, "build")
  /\ holder' = NoDoctor
  /\ \/ /\ env' = "whole"
        /\ doctor' = [doctor EXCEPT ![d].pc = "verify", ![d].python = "managed"]
     \/ Fails(d) /\ UNCHANGED env

Verify(d) ==
  /\ At(d, "verify")
  /\ \/ env = "whole" /\ Goto(d, "tests")
     \/ Fails(d)
  /\ UNCHANGED <<env, holder>>

RunTests(d) ==
  /\ At(d, "tests")
  /\ \/ /\ Fit(d)
        /\ Goto(d, "rest")
     \/ Fails(d)
  /\ UNCHANGED <<env, holder>>

(* Tests that were not run are skipped; the prerequisite has then failed. *)
Conclude(d) ==
  /\ At(d, "rest")
  /\ \E passed \in Verdicts :
       Goto(d, IF passed /\ ~doctor[d].failed THEN "passed" ELSE "failed")
  /\ UNCHANGED <<env, holder>>

Collect(d) ==
  /\ doctor[d].pc \in {"passed", "failed"}
  /\ doctor' = [doctor EXCEPT ![d] = Idle]
  /\ UNCHANGED <<env, holder>>

(* The process ends: its lock goes with it, what it removed does not. *)
Die(d) ==
  /\ ~At(d, "off")
  /\ doctor' = [doctor EXCEPT ![d] = Idle]
  /\ holder' = IF holder = d THEN NoDoctor ELSE holder
  /\ UNCHANGED env

(* Something outside of Ruth deletes a package of it. *)
Damage == env = "whole" /\ env' = "damaged" /\ UNCHANGED <<holder, doctor>>

DoctorStep(d) ==
  \/ LookUp(d) \/ Probe(d) \/ EnterProvision(d) \/ Recheck(d) \/ Remove(d)
  \/ Build(d) \/ Verify(d) \/ RunTests(d) \/ Conclude(d)

-----------------------------------------------------------------------------
(* Properties *)

(* A whole environment is never removed, by this process or another, while *)
(* tests run in it: a doctor that waited for the lock uses what it finds.  *)
InUse(d) == At(d, "tests") /\ doctor[d].python = "managed"
TestsUndisturbed ==
  [][(\E d \in Doctors : InUse(d)) /\ env = "whole" => env' \in {"whole", "damaged"}]_doctorVars
=============================================================================
