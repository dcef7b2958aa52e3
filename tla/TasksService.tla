--------------------------- MODULE TasksService ---------------------------
(***************************************************************************)
(* The task table implements Processes: the chain of child links from a    *)
(* terminal's base shell, read in order, is the terminal's stack.          *)
(***************************************************************************)
EXTENDS Tasks, Sequences

(* The tasks find_bottom_task passes on its way down from t. *)
Path(t) ==
  LET link[k \in 1 .. MAX_TASKS] ==
        IF k = 1 THEN t
        ELSE LET before == link[k - 1]
             IN IF before = NoTask THEN NoTask ELSE child[before]
      bottom == CHOOSE n \in 1 .. MAX_TASKS :
                  link[n] # NoTask /\ (n = MAX_TASKS \/ link[n + 1] = NoTask)
  IN IF task_slots[t] = 0 THEN <<>> ELSE [k \in 1 .. bottom |-> link[k]]

Stacked(t) == LET path == Path(t)
              IN [k \in DOMAIN path |-> prog[path[k]]]

(* The terminal on whose chain the running task is. *)
ActiveTerminal ==
  IF tasks_running = NoTask THEN -1
  ELSE CHOOSE t \in Terminals : \E k \in DOMAIN Path(t) : Path(t)[k] = tasks_running

Service == INSTANCE Processes WITH
  stack <- [t \in Terminals |-> Stacked(t)],
  active <- ActiveTerminal

(* Every step of the task table is a start, call, return or switch of the  *)
(* stacks, or leaves them alone: execute and halt act on the top of the    *)
(* running task's own terminal, no program is lost or moved to another     *)
(* terminal, and a base shell never ends.                                  *)
Implements == Service!Spec
=============================================================================
