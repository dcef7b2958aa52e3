------------------------------ MODULE MCTasks ------------------------------
(* Instances of Tasks.tla for TLC. *)
EXTENDS TasksService

(* The PCB of a free slot keeps what its last task left there.  TaskTree    *)
(* and ChainsEnd show that nothing reads it before execute rewrites it, and *)
(* no action reads result: states that differ in these alone are one state  *)
(* for TLC.                                                                 *)
OfLive(f) == [t \in Live |-> f[t]]
LiveView == <<task_slots, tasks_running, OfLive(child), OfLive(parent), OfLive(prog),
              OfLive(frame), cpu, boot, vid, OfLive(fd), exception_death,
              display_terminal_id>>
=============================================================================
