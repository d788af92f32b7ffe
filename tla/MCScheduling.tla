---------------------------- MODULE MCScheduling ----------------------------
(* Instances of Scheduling for TLC. *)
EXTENDS Scheduling

(* Cron jobs, schedules and the backlog share no state but the threads. *)
LoadsMC == {{"cron"}, {"schedule"}, {"backlog"}}
=============================================================================
