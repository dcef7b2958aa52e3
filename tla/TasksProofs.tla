---------------------------- MODULE TasksProofs ----------------------------
(***************************************************************************)
(* Proofs about Tasks.tla, for every number of tasks and terminals and     *)
(* every set of programs.                                                  *)
(*                                                                         *)
(* The inductive invariant is IInv.  TaskTree, RunningIsLeaf and           *)
(* NoStaleVideoMap are not inductive alone: a halt reads the parent link   *)
(* and the saved frame of the running task, so it must be known that a     *)
(* task runs (Started), that the mapped page and esp0 are its own or       *)
(* unmapped (Owned), and whose kernel stack each saved frame is on         *)
(* (FramesOwned).                                                          *)
(*                                                                         *)
(* The second half proves that the table implements Processes (WalkInv).    *)
(***************************************************************************)
EXTENDS TasksService, FiniteSetTheorems, TLAPS

Started == IF mode = "idle" THEN Live = {} ELSE tasks_running # NoTask

Owned ==
  /\ page \in {NoTask, tasks_running}
  /\ mode # "idle" => esp0.owner \in {NoTask, tasks_running}

FramesOwned == \A t \in Live : t >= TERMINAL_COUNT => frame[t].stack.owner = parent[t]

IInv ==
  /\ TypeOK
  /\ TaskTree
  /\ RunningIsLeaf
  /\ Started
  /\ Owned
  /\ FramesOwned
  /\ NoStaleVideoMap

-----------------------------------------------------------------------------
(* What the model's helpers return. *)

LEMMA TasksFacts ==
  /\ Tasks \subseteq Nat
  /\ Terminals \subseteq Tasks
  /\ NoTask \notin Tasks
  /\ 0 \in Terminals
  /\ IsFiniteSet(Tasks)
<1>1. MAX_TASKS \in Nat /\ TERMINAL_COUNT \in Nat \ {0} /\ TERMINAL_COUNT <= MAX_TASKS
  BY SizesAssumption
<1>2. IsFiniteSet(0 .. MAX_TASKS - 1)
  BY <1>1, FS_Interval
<1> QED
  BY <1>1, <1>2 DEF Tasks, Terminals, NoTask

(* find_open_task returns the lowest free slot. *)
LEMMA FindOpenTask ==
  ASSUME Live # Tasks
  PROVE  /\ find_open_task \in Tasks \ Live
         /\ \A u \in Tasks \ Live : find_open_task <= u
<1>1. Tasks \ Live # {} /\ Tasks \ Live \in SUBSET Nat
  BY TasksFacts DEF Live
<1>2. \E t \in Tasks \ Live : \A u \in Tasks \ Live : <<u, t>> \notin OpToRel(<, Nat)
  BY <1>1, NatLessThanWellFounded, WFMin
<1>3. \A u, t \in Nat : u < t => <<u, t>> \in OpToRel(<, Nat)
  BY Zenon DEF OpToRel
<1>4. \E t \in Tasks \ Live : \A u \in Tasks \ Live : t <= u
  <2>1. PICK t \in Tasks \ Live : \A u \in Tasks \ Live : <<u, t>> \notin OpToRel(<, Nat)
    BY <1>2
  <2>2. \A u \in Tasks \ Live : ~ (u < t)
    BY <1>1, <1>3, <2>1
  <2> QED
    BY <1>1, <2>2
<1> QED
  BY <1>4 DEF find_open_task

(***************************************************************************)
(* In a task tree the chain of a base shell ends on exactly one task.  The *)
(* child link maps the tasks of the chain that have a child one-to-one     *)
(* onto the chain without its base, so exactly one task has none.          *)
(***************************************************************************)
THEOREM ChainEnds ==
  ASSUME TypeOK, TaskTree, NEW t \in Terminals, task_slots[t] = 1
  PROVE  \E u \in Live : Bottoms(t) = {u}
<1> DEFINE C == Chain(t)
           L == Bottoms(t)
           f == [u \in C \ L |-> child[u]]
<1>1. t \in Live /\ t \in Tasks /\ parent[t] = NoTask
  BY TasksFacts, SizesAssumption DEF Live, TaskTree, Terminals
<1>2. t \in C /\ C \subseteq Tasks
  BY <1>1 DEF Chain, Closures
<1>3. Live \in Closures(t)
  BY <1>1 DEF Closures, Live, TaskTree
<1>4. C \subseteq Live
  BY <1>3 DEF Chain
<1>5. ASSUME NEW u \in C, child[u] # NoTask
      PROVE  child[u] \in C \ {t} /\ parent[child[u]] = u
  <2>1. child[u] \in Live /\ child[u] >= TERMINAL_COUNT /\ parent[child[u]] = u
    BY <1>4, <1>5 DEF TaskTree
  <2>2. \A S \in Closures(t) : child[u] \in S
    BY <1>5 DEF Chain, Closures
  <2>3. child[u] # t
    BY <2>1, <1>1, <1>2, TasksFacts
  <2> QED
    BY <2>1, <2>2, <2>3 DEF Chain, Live
<1>6. ASSUME NEW v \in C \ {t}
      PROVE  \E u \in C \ L : child[u] = v
  <2> SUFFICES ASSUME \A u \in C : child[u] # NoTask => child[u] # v
               PROVE  FALSE
    BY <1>2, TasksFacts DEF Bottoms
  <2>1. C \ {v} \in Closures(t)
    BY <1>2, <1>5 DEF Closures
  <2> QED
    BY <2>1 DEF Chain
<1>7. f \in Injection(C \ L, C \ {t}) /\ f \in Surjection(C \ L, C \ {t})
  <2>1. \A u \in C \ L : child[u] # NoTask
    BY DEF Bottoms
  <2>2. f \in [C \ L -> C \ {t}]
    BY <2>1, <1>5
  <2>3. \A u, v \in C \ L : f[u] = f[v] => u = v
    BY <2>1, <1>5
  <2>4. \A v \in C \ {t} : \E u \in C \ L : f[u] = v
    BY <1>6
  <2> QED
    BY <2>2, <2>3, <2>4 DEF Injection, Surjection, IsInjective
<1>8. IsFiniteSet(C) /\ IsFiniteSet(C \ {t}) /\ IsFiniteSet(C \ L)
  BY <1>2, TasksFacts, FS_Subset, FS_Difference
<1>9. Cardinality(C \ L) = Cardinality(C \ {t})
  BY <1>7, <1>8, FS_Injection
<1>10. Cardinality(C) \in Nat /\ Cardinality(C \ {t}) = Cardinality(C) - 1
  BY <1>2, <1>8, FS_RemoveElement, FS_CardinalityType
<1>11. PICK u \in L : TRUE
  <2> SUFFICES ASSUME L = {} PROVE FALSE
    OBVIOUS
  <2>1. C \ L = C
    OBVIOUS
  <2> QED
    BY <2>1, <1>9, <1>10
<1>12. u \in C
  BY DEF Bottoms
<1>13. Cardinality(C \ {u}) = Cardinality(C \ L) /\ IsFiniteSet(C \ {u})
  BY <1>8, <1>9, <1>10, <1>12, FS_RemoveElement
<1>14. C \ L = C \ {u}
  BY <1>11, <1>13, FS_Subset
<1>15. L = {u}
  BY <1>11, <1>14 DEF Bottoms
<1> QED
  BY <1>4, <1>12, <1>15

-----------------------------------------------------------------------------
(* The initial state satisfies the invariant. *)
LEMMA InitInv == Init => IInv
<1> SUFFICES ASSUME Init PROVE IInv
  OBVIOUS
<1> USE DEF Init
<1>1. TypeOK
  <2>1. NoFrame \in Frame /\ StackTop(0) \in Stack
    BY TasksFacts, MaxDepthAssumption DEF Frame, NoFrame, Stack, StackTop
  <2>2. NoResult \in [cause : Causes, value : Values] /\ "idle" \in Modes
    BY DEF NoResult, Causes, Values, Modes
  <2> QED
    BY <2>1, <2>2, TasksFacts, GarbageAssumption DEF TypeOK
<1>2. Live = {}
  BY DEF Live
<1> QED
  BY <1>1, <1>2 DEF IInv, TaskTree, RunningIsLeaf, Started, Owned, FramesOwned,
                    NoStaleVideoMap, StackTop

(***************************************************************************)
(* The part of execute that takes a slot, in a system call (the guards of  *)
(* Execute) or in the scheduler (which only gets slots of base shells).    *)
(***************************************************************************)
LEMMA LaunchInv ==
  ASSUME IInv, Live # Tasks, NEW p \in Programs, NEW if \in BOOLEAN, Launch(p, if),
         find_open_task >= TERMINAL_COUNT => UserRuns /\ esp0.depth < MaxDepth,
         UNCHANGED <<exception_death, vid, pit_i>>,
         bootup_flag' \in BOOLEAN, display_terminal_id' \in Terminals, result' = NoResult
  PROVE  IInv'
<1> DEFINE new == find_open_task
           old == tasks_running
<1> USE DEF IInv
<1>1. new \in Tasks /\ new \notin Live /\ new \in Nat /\ new # NoTask
  BY FindOpenTask, TasksFacts
<1>2. Live' = Live \cup {new} /\ Live \subseteq Tasks
  BY <1>1 DEF Launch, TypeOK, Live
<1>3. CASE new < TERMINAL_COUNT
  <2>1. /\ parent' = [parent EXCEPT ![new] = NoTask]
        /\ child' = [child EXCEPT ![new] = NoTask]
        /\ frame' = [frame EXCEPT ![new] = NoFrame]
    BY <1>1, <1>3, SizesAssumption DEF Launch
  <2>2. TypeOK'
    BY <1>1, <2>1, MaxDepthAssumption
    DEF TypeOK, Launch, Frame, NoFrame, Stack, StackTop, NoResult, Causes, Values, Modes, vid
  <2>3. TaskTree'
    BY <1>1, <1>2, <1>3, <2>1 DEF TypeOK, TaskTree
  <2>4. FramesOwned'
    BY <1>1, <1>2, <1>3, <2>1, SizesAssumption DEF TypeOK, FramesOwned
  <2> QED
    BY <1>1, <1>2, <2>1, <2>2, <2>3, <2>4
    DEF TypeOK, Launch, RunningIsLeaf, Started, Owned, NoStaleVideoMap, StackTop, vid
<1>4. CASE new >= TERMINAL_COUNT
  <2>0. /\ old \in Live /\ old \in Tasks /\ child[old] = NoTask /\ old # NoTask
        /\ esp0.owner = old /\ esp0.depth < MaxDepth
    BY <1>2, <1>4, TasksFacts DEF UserRuns, RunningIsLeaf, Started, Owned
  <2>1. /\ parent' = [parent EXCEPT ![new] = old]
        /\ child' = [child EXCEPT ![old] = new, ![new] = NoTask]
        /\ frame' = [frame EXCEPT ![new] =
              [stack |-> [esp0 EXCEPT !.depth = @ + 1], eip |-> eip, iflag |-> iflag]]
    BY <1>4 DEF Launch, LinkParent, LinkChild
  <2>2. frame'[new] \in Frame /\ frame'[new].stack.owner = old
    BY <1>1, <2>0, <2>1, MaxDepthAssumption DEF TypeOK, Frame, Stack
  <2>3. TypeOK'
    BY <1>1, <2>0, <2>1, <2>2, MaxDepthAssumption
    DEF TypeOK, Launch, Stack, StackTop, NoResult, Causes, Values, Modes, vid
  <2>4. TaskTree'
    <3> SUFFICES ASSUME NEW t \in Live'
                 PROVE  /\ IF t < TERMINAL_COUNT THEN parent'[t] = NoTask
                           ELSE parent'[t] \in Live' /\ child'[parent'[t]] = t
                        /\ child'[t] # NoTask =>
                             /\ child'[t] \in Live' /\ child'[t] >= TERMINAL_COUNT
                             /\ parent'[child'[t]] = t
      BY DEF TaskTree
    <3>1. /\ parent'[new] = old /\ child'[old] = new /\ child'[new] = NoTask
          /\ \A u \in Tasks : u # new => parent'[u] = parent[u]
          /\ \A u \in Tasks : u # new /\ u # old => child'[u] = child[u]
      BY <1>1, <2>0, <2>1 DEF TypeOK
    <3>2. CASE t = new
      BY <1>2, <1>4, <2>0, <3>1, <3>2, <1>1, SizesAssumption
    <3>3. CASE t # new
      <4>1. t \in Live /\ t \in Tasks
        BY <1>2, <3>3
      <4>2. ASSUME ~ (t < TERMINAL_COUNT)
            PROVE  parent'[t] \in Live' /\ child'[parent'[t]] = t
        <5>1. parent[t] \in Live /\ child[parent[t]] = t
          BY <4>1, <4>2 DEF TaskTree
        <5>2. parent[t] # old /\ parent[t] # new
          BY <5>1, <4>1, <2>0, <1>1, TasksFacts
        <5> QED
          BY <5>1, <5>2, <4>1, <3>1, <3>3, <1>2
      <4>3. t < TERMINAL_COUNT => parent'[t] = NoTask
        BY <4>1, <3>1, <3>3 DEF TaskTree
      <4>4. CASE t = old
        BY <4>2, <4>3, <4>4, <3>1, <1>1, <1>2, <1>4
      <4>5. ASSUME t # old, child[t] # NoTask
            PROVE  child[t] \in Live' /\ child[t] >= TERMINAL_COUNT /\ parent'[child[t]] = t
        <5>1. child[t] \in Live /\ child[t] >= TERMINAL_COUNT /\ parent[child[t]] = t
          BY <4>1, <4>5 DEF TaskTree
        <5> QED
          BY <5>1, <1>1, <1>2, <3>1
      <4> QED
        BY <4>1, <4>2, <4>3, <4>4, <4>5, <3>1, <3>3
    <3> QED
      BY <3>2, <3>3
  <2>5. FramesOwned'
    BY <1>1, <1>2, <2>1, <2>2 DEF TypeOK, FramesOwned
  <2> QED
    BY <1>1, <1>2, <2>0, <2>1, <2>3, <2>4, <2>5
    DEF TypeOK, Launch, RunningIsLeaf, Started, Owned, NoStaleVideoMap, StackTop, vid
<1> QED
  BY <1>1, <1>3, <1>4, SizesAssumption

(* A halt that returns to the parent, by a status or by an exception. *)
LEMMA ReturnInv ==
  ASSUME IInv, mode # "idle", parent[tasks_running] # NoTask,
         NEW cause \in Causes, NEW died \in BOOLEAN, ReturnToParent(cause, died),
         UNCHANGED boot, UNCHANGED display_terminal_id, exception_death' \in BOOLEAN
  PROVE  IInv'
<1> DEFINE c == tasks_running
           p == parent[c]
<1> USE DEF IInv
<1>1. /\ c \in Live /\ c \in Tasks /\ child[c] = NoTask
      /\ c >= TERMINAL_COUNT /\ p \in Live /\ p \in Tasks /\ child[p] = c /\ p # c
      /\ c # NoTask
  <2>1. c \in Live /\ c \in Tasks /\ c # NoTask /\ child[c] = NoTask
    BY TasksFacts DEF Started, RunningIsLeaf, Live
  <2>2. ~ (c < TERMINAL_COUNT) /\ p \in Live /\ child[p] = c
    BY <2>1 DEF TaskTree
  <2> QED
    BY <2>1, <2>2, TasksFacts, SizesAssumption DEF Live
<1>2. Live' = Live \ {c} /\ Live \subseteq Tasks
  BY <1>1 DEF ReturnToParent, TypeOK, Live
<1>3. /\ child'[p] = NoTask /\ \A u \in Tasks : u # p => child'[u] = child[u]
      /\ parent' = parent /\ frame' = frame
  BY <1>1 DEF ReturnToParent, UnlinkChild, TypeOK
<1>4. TypeOK'
  <2>1. frame[c] \in Frame /\ prog' = prog
    BY <1>1 DEF TypeOK, ReturnToParent
  <2>2. result' \in [cause : Causes, value : Values]
    BY DEF ReturnToParent, Values
  <2> QED
    BY <1>1, <2>1, <2>2
    DEF TypeOK, ReturnToParent, UnlinkChild, UnmapVideo, CloseAll, RestoreStack, Frame,
        Modes, boot
<1>5. TaskTree'
  <2> SUFFICES ASSUME NEW t \in Live, t # c
               PROVE  /\ IF t < TERMINAL_COUNT THEN parent[t] = NoTask
                         ELSE parent[t] \in Live \ {c} /\ child'[parent[t]] = t
                      /\ child'[t] # NoTask =>
                           /\ child'[t] \in Live \ {c} /\ child'[t] >= TERMINAL_COUNT
                           /\ parent[child'[t]] = t
    BY <1>2, <1>3 DEF TaskTree
  <2>1. t \in Tasks /\ t # NoTask
    BY <1>2, TasksFacts
  <2>2. t < TERMINAL_COUNT => parent[t] = NoTask
    BY DEF TaskTree
  <2>3. ASSUME ~ (t < TERMINAL_COUNT)
        PROVE  parent[t] \in Live \ {c} /\ child'[parent[t]] = t
    <3>1. parent[t] \in Live /\ child[parent[t]] = t
      BY <2>3 DEF TaskTree
    <3>2. parent[t] # c /\ parent[t] # p
      BY <3>1, <2>1, <1>1
    <3> QED
      BY <3>1, <3>2, <1>2, <1>3
  <2>4. ASSUME child'[t] # NoTask
        PROVE  /\ child'[t] \in Live \ {c} /\ child'[t] >= TERMINAL_COUNT
               /\ parent[child'[t]] = t
    <3>1. t # p /\ child'[t] = child[t]
      BY <2>1, <2>4, <1>1, <1>3
    <3>2. child[t] \in Live /\ child[t] >= TERMINAL_COUNT /\ parent[child[t]] = t
      BY <3>1, <2>4 DEF TaskTree
    <3> QED
      BY <3>1, <3>2
  <2> QED
    BY <2>2, <2>3, <2>4
<1>6. esp0'.owner = p
  BY <1>1 DEF ReturnToParent, RestoreStack, FramesOwned
<1> QED
  BY <1>1, <1>2, <1>3, <1>4, <1>5, <1>6
  DEF RunningIsLeaf, Started, Owned, FramesOwned, NoStaleVideoMap, ReturnToParent,
      UnmapVideo

(* A halt of a base shell, which runs its program again. *)
LEMMA RestartInv ==
  ASSUME IInv, mode # "idle", NEW if \in BOOLEAN, RestartShell(if),
         UNCHANGED boot, UNCHANGED display_terminal_id, exception_death' \in BOOLEAN
  PROVE  IInv'
<1> USE DEF IInv, RestartShell, table, vid, boot
<1>1. tasks_running \in Tasks
  BY DEF Started, TypeOK
<1>2. TypeOK'
  BY <1>1, MaxDepthAssumption DEF TypeOK, Stack, StackTop, NoResult, Causes, Values, Modes
<1>3. Live' = Live
  BY DEF Live
<1> QED
  BY <1>2, <1>3 DEF TaskTree, RunningIsLeaf, Started, Owned, FramesOwned, NoStaleVideoMap, StackTop

(***************************************************************************)
(* A terminal switch, by a key or by the scheduler.  By ChainEnds the      *)
(* bottom task it switches to exists and has no child.                     *)
(***************************************************************************)
LEMMA SwitchInv ==
  ASSUME IInv, NEW t \in Terminals, SwitchDisplay(t),
         UNCHANGED <<task_slots, child, parent, prog, frame, mode, eip, iflag,
                     vid, fd, exception_death>>,
         pit_i' \in Terminals, bootup_flag' \in BOOLEAN, result' = NoResult
  PROVE  IInv'
<1> DEFINE b == find_bottom_task(t)
<1> USE DEF IInv, vid
<1>1. b = NoTask \/ (b \in Live /\ b \in Tasks /\ child[b] = NoTask)
  <2>1. CASE task_slots[t] = 0
    BY <2>1 DEF find_bottom_task
  <2>2. CASE task_slots[t] # 0
    <3>1. task_slots[t] = 1
      BY <2>2, TasksFacts DEF TypeOK
    <3>2. PICK u \in Live : Bottoms(t) = {u}
      BY <3>1, ChainEnds
    <3>3. b = u
      BY <2>2, <3>2 DEF find_bottom_task
    <3> QED
      BY <3>2, <3>3 DEF Bottoms, Live
  <2> QED
    BY <2>1, <2>2
<1>2. Live' = Live
  BY DEF Live
<1>3. StackTop(b) \in Stack
  BY <1>1, MaxDepthAssumption DEF StackTop, Stack
<1>4. TypeOK'
  <2>1. result' \in [cause : Causes, value : Values]
    BY DEF NoResult, Causes, Values
  <2> QED
    BY <1>1, <1>3, <2>1 DEF TypeOK, SwitchDisplay
<1>5. RunningIsLeaf' /\ Started' /\ Owned'
  BY <1>1, <1>2, TasksFacts DEF SwitchDisplay, RunningIsLeaf, Started, Owned, StackTop
<1> QED
  BY <1>2, <1>4, <1>5 DEF TaskTree, FramesOwned, NoStaleVideoMap

(* Steps that leave the task table, the page and esp0 alone. *)
LEMMA OtherInv ==
  ASSUME IInv, UNCHANGED <<table, page, esp0>>, mode = "idle" <=> mode' = "idle", TypeOK',
         video' => vid_user' \in Live
  PROVE  IInv'
<1> USE DEF IInv, table
<1>1. Live' = Live
  BY DEF Live
<1> QED
  BY <1>1 DEF TaskTree, RunningIsLeaf, Started, Owned, FramesOwned, NoStaleVideoMap, Modes

-----------------------------------------------------------------------------
(* Every step keeps the invariant. *)
LEMMA NextInv == IInv /\ [Next]_vars => IInv'
<1> SUFFICES ASSUME IInv, [Next]_vars PROVE IInv'
  OBVIOUS
<1> USE DEF IInv
<1>0. NoResult \in [cause : Causes, value : Values] /\ Causes = Causes' /\ Values = Values'
  BY DEF NoResult, Causes, Values
<1>1. ASSUME NEW name \in Names, Execute(name)
      PROVE  IInv'
  <2>1. PICK p \in Loads(name) : Launch(p, TRUE)
    BY <1>1 DEF Execute
  <2>2. p \in Programs
    BY DEF Loads
  <2> QED
    BY <1>1, <2>1, <2>2, LaunchInv DEF Execute, boot, TypeOK
<1>2. ASSUME NEW name \in Names, ExecuteRejected(name)
      PROVE  IInv'
  <2>1. TypeOK'
    BY <1>2 DEF TypeOK, ExecuteRejected, table, cpu, boot, vid, Causes, Values
  <2> QED
    BY <1>2, <2>1, OtherInv DEF ExecuteRejected, cpu, vid, NoStaleVideoMap
<1>3. CASE ExecuteBlank
  <2>1. TypeOK'
    BY <1>3 DEF TypeOK, ExecuteBlank, table, cpu, boot, vid, Causes, Values
  <2> QED
    BY <1>3, <2>1, OtherInv DEF ExecuteBlank, cpu, vid, NoStaleVideoMap
<1>4. CASE Halt
  <2>1. mode # "idle" /\ "halt" \in Causes /\ exception_death' \in BOOLEAN
    BY <1>4 DEF Halt, UserRuns, TypeOK, Causes
  <2>2. CASE parent[tasks_running] = NoTask
    BY <1>4, <2>1, <2>2, RestartInv DEF Halt, boot
  <2>3. CASE parent[tasks_running] # NoTask
    BY <1>4, <2>1, <2>3, ReturnInv DEF Halt, boot, TypeOK
  <2> QED
    BY <2>2, <2>3
<1>5. CASE Exception
  <2>1. PICK if \in BOOLEAN :
          /\ UserRuns \/ mode = "kernel"
          /\ IF tasks_running = 0
             THEN /\ mode' = "spin"
                  /\ iflag' = if
                  /\ UNCHANGED <<table, page, esp0, eip, vid, fd, exception_death>>
                  /\ result' = NoResult
             ELSE IF parent[tasks_running] = NoTask
             THEN RestartShell(if) /\ exception_death' = TRUE
             ELSE ReturnToParent("exception", TRUE) /\ exception_death' = FALSE
          /\ UNCHANGED <<boot, display_terminal_id>>
    BY <1>5 DEF Exception
  <2>2. mode # "idle" /\ "exception" \in Causes
    BY <2>1 DEF UserRuns, Causes
  <2>3. CASE tasks_running = 0
    <3>1. TypeOK'
      BY <2>1, <2>3, <1>0 DEF TypeOK, table, boot, vid, Modes
    <3> QED
      BY <2>1, <2>2, <2>3, <3>1, OtherInv DEF vid, NoStaleVideoMap
  <2>4. CASE tasks_running # 0 /\ parent[tasks_running] = NoTask
    BY <2>1, <2>2, <2>4, RestartInv DEF boot
  <2>5. CASE tasks_running # 0 /\ parent[tasks_running] # NoTask
    BY <2>1, <2>2, <2>5, ReturnInv DEF boot
  <2> QED
    BY <2>3, <2>4, <2>5
<1>6. CASE Open
  <2>1. ASSUME NEW f \in Fds, fd' = [fd EXCEPT ![tasks_running] = @ \cup {f}]
        PROVE  fd' \in [Tasks -> SUBSET Fds]
    BY <2>1 DEF TypeOK
  <2>2. fd' \in [Tasks -> SUBSET Fds]
    BY <1>6, <2>1 DEF Open
  <2>3. TypeOK'
    BY <1>6, <2>2, <1>0 DEF TypeOK, Open, table, cpu, boot, vid
  <2> QED
    BY <1>6, <2>3, OtherInv DEF Open, cpu, vid, NoStaleVideoMap
<1>7. CASE Close
  <2>1. ASSUME NEW f, fd' = [fd EXCEPT ![tasks_running] = @ \ {f}]
        PROVE  fd' \in [Tasks -> SUBSET Fds]
    BY <2>1 DEF TypeOK
  <2>2. fd' \in [Tasks -> SUBSET Fds]
    BY <1>7, <2>1 DEF Close
  <2>3. TypeOK'
    BY <1>7, <1>0, <2>2 DEF TypeOK, Close, table, cpu, boot, vid
  <2> QED
    BY <1>7, <2>3, OtherInv DEF Close, cpu, vid, NoStaleVideoMap
<1>8. CASE Vidmap
  <2>1. tasks_running \in Live
    BY <1>8 DEF Vidmap, MapVideo, UserRuns, Started, RunningIsLeaf
  <2>2. TypeOK'
    BY <1>8, <1>0, <2>1 DEF TypeOK, Vidmap, MapVideo, table, cpu, boot, Live
  <2> QED
    BY <1>8, <2>1, <2>2, OtherInv DEF Vidmap, MapVideo, cpu
<1>9. CASE EnterKernel \/ LeaveKernel \/ TripleFault
  <2>1. TypeOK'
    BY <1>9, <1>0 DEF TypeOK, EnterKernel, LeaveKernel, TripleFault, table, boot, vid, Modes
  <2> QED
    BY <1>9, <2>1, OtherInv
    DEF EnterKernel, LeaveKernel, TripleFault, UserRuns, vid, NoStaleVideoMap
<1>10. ASSUME NEW t \in Terminals, AltF(t)
       PROVE  IInv'
  BY <1>10, SwitchInv DEF AltF, boot, TypeOK
<1>11. pit_i' \in Terminals \/ ~ NextTerminal
  BY SizesAssumption DEF NextTerminal, Terminals, TypeOK
<1>12. CASE PitIdle
  <2>1. TypeOK'
    BY <1>11, <1>12, <1>0 DEF TypeOK, PitIdle, table, cpu, vid
  <2> QED
    BY <1>12, <2>1, OtherInv DEF PitIdle, cpu, vid, NoStaleVideoMap
<1>13. CASE PitSwitchBack
  BY <1>11, <1>13, SwitchInv, TasksFacts DEF PitSwitchBack, BootTerminal
<1>14. CASE PitSpawn
  <2> DEFINE t == IF bootup_flag THEN BootTerminal ELSE pit_i
  <2>1. t \in Terminals /\ t \in Tasks \ Live
    BY <1>14, TasksFacts DEF PitSpawn, TypeOK, BootTerminal, Live
  <2> HIDE DEF t
  <2>2. t < TERMINAL_COUNT /\ t \in Nat
    BY <2>1, SizesAssumption DEF Terminals
  <2>3. Live # Tasks
    BY <2>1
  <2>4. find_open_task <= t /\ find_open_task \in Nat
    BY <2>1, <2>3, FindOpenTask, TasksFacts
  <2>5. ~ (find_open_task >= TERMINAL_COUNT)
    BY <2>2, <2>4, SizesAssumption
  <2>6. display_terminal_id' \in Terminals /\ bootup_flag' \in BOOLEAN
    BY <1>14, <2>1 DEF PitSpawn, t
  <2> QED
    BY <1>14, <2>3, <2>5, <2>6, LaunchInv, ProgramsAssumption DEF PitSpawn
<1>15. CASE UNCHANGED vars
  <2>1. TypeOK'
    BY <1>15 DEF TypeOK, vars, table, cpu, boot, vid
  <2> QED
    BY <1>15, <2>1, OtherInv DEF vars, cpu, vid, NoStaleVideoMap
<1> QED
  BY <1>1, <1>2, <1>3, <1>4, <1>5, <1>6, <1>7, <1>8, <1>9, <1>10, <1>12, <1>13, <1>14, <1>15
  DEF Next, PitTick

(* IInv holds in every reachable state. *)
THEOREM Invariance == Spec => []IInv
<1> QED
  BY InitInv, NextInv, PTL DEF Spec

(* Every variable keeps its type. *)
THEOREM TypeCorrect == Spec => []TypeOK
<1> QED
  BY Invariance, PTL DEF IInv

(* The table stays a forest of chains, one per base shell: the parent and  *)
(* child links of syscall_execute and syscall_halt agree.                  *)
THEOREM TreeCorrect == Spec => []TaskTree
<1> QED
  BY Invariance, PTL DEF IInv

(* The running task never waits for a child. *)
THEOREM LeafCorrect == Spec => []RunningIsLeaf
<1> QED
  BY Invariance, PTL DEF IInv

(* find_bottom_task's loop always ends, on one task. *)
THEOREM ChainsEndCorrect == Spec => []ChainsEnd
<1>1. IInv => ChainsEnd
  BY ChainEnds DEF IInv, ChainsEnd
<1> QED
  BY <1>1, Invariance, PTL

(* The stack frame a waiting execute returns to is never overwritten by a  *)
(* kernel entry of another task.                                           *)
THEOREM FramesCorrect == Spec => []ReturnFramesKept
<1>1. IInv => ReturnFramesKept
  <2> SUFFICES ASSUME IInv, NEW t \in Live, t >= TERMINAL_COUNT
               PROVE  /\ frame[t].stack.owner = parent[t]
                      /\ esp0.owner = parent[t] => esp0.depth >= frame[t].stack.depth
    BY DEF ReturnFramesKept
  <2>1. frame[t].stack.owner = parent[t]
    BY DEF IInv, FramesOwned
  <2>2. t \in Tasks /\ ~ (t < TERMINAL_COUNT) /\ t # NoTask
    BY TasksFacts, SizesAssumption DEF Live
  <2>3. parent[t] \in Live /\ child[parent[t]] = t
    BY <2>2 DEF IInv, TaskTree
  <2>4. mode # "idle" => esp0.owner # parent[t]
    BY <2>2, <2>3, TasksFacts DEF IInv, Owned, RunningIsLeaf, Live
  <2>5. mode # "idle"
    BY DEF IInv, Started
  <2> QED
    BY <2>1, <2>4, <2>5
<1> QED
  BY <1>1, Invariance, PTL

(* User code runs on its own task's page and enters the kernel on its own  *)
(* task's stack.                                                           *)
THEOREM AddressSpaceCorrect == Spec => []AddressSpace
<1>1. IInv => AddressSpace
  BY DEF IInv, AddressSpace, UserRuns, Owned
<1> QED
  BY <1>1, Invariance, PTL

(* No mapping of video memory outlives the task that asked for it. *)
THEOREM VideoCorrect == Spec => []NoStaleVideoMap
<1> QED
  BY Invariance, PTL DEF IInv

-----------------------------------------------------------------------------
(***************************************************************************)
(* What a step of one task may do to another (the action properties of     *)
(* Tasks.tla), from the invariant.                                         *)
(***************************************************************************)
(* The scheduler comes to the terminals in their order: those it has       *)
(* passed have their shell, and all have once the last was started.        *)
BootOrder ==
  /\ \A u \in Terminals : u < pit_i => u \in Live
  /\ bootup_flag => Terminals \subseteq Live

-----------------------------------------------------------------------------
(* A chain is closed under the child link, and stays what it is when the   *)
(* links of its own tasks do.                                              *)
LEMMA ChainClosed ==
  ASSUME TypeOK, NEW t \in Terminals
  PROVE  /\ t \in Chain(t) /\ Chain(t) \subseteq Tasks
         /\ \A u \in Chain(t) : child[u] # NoTask => child[u] \in Chain(t)
<1>1. t \in Chain(t) /\ Chain(t) \subseteq Tasks
  BY TasksFacts DEF Chain, Closures
<1>2. ASSUME NEW u \in Chain(t), child[u] # NoTask PROVE child[u] \in Chain(t)
  <2>1. \A S \in Closures(t) : child[u] \in S
    BY <1>2 DEF Chain, Closures
  <2>2. child[u] \in Tasks
    BY <1>1, <1>2 DEF TypeOK
  <2> QED
    BY <2>1, <2>2 DEF Chain
<1> QED
  BY <1>1, <1>2

LEMMA ChainKept ==
  ASSUME TypeOK, NEW t \in Terminals, \A u \in Chain(t) : child'[u] = child[u]
  PROVE  Chain(t)' = Chain(t)
<1> DEFINE C == Chain(t)
<1>1. t \in C /\ C \subseteq Tasks /\ \A u \in C : child[u] # NoTask => child[u] \in C
  BY ChainClosed
<1>2. Closures(t)' = {S \in SUBSET Tasks : t \in S /\ \A u \in S : child'[u] # NoTask => child'[u] \in S}
  BY DEF Closures
<1>3. C \in Closures(t)'
  BY <1>1, <1>2
<1>4. Chain(t)' = {u \in Tasks : \A S \in Closures(t)' : u \in S}
  BY DEF Chain
<1>5. Chain(t)' \subseteq C
  BY <1>3, <1>4
<1>6. ASSUME NEW S \in Closures(t)' PROVE C \subseteq S
  <2>1. S \cap C \in Closures(t)
    BY <1>1, <1>2, <1>6 DEF Closures
  <2> QED
    BY <2>1 DEF Chain
<1>7. C \subseteq Chain(t)'
  BY <1>1, <1>4, <1>6
<1> QED
  BY <1>5, <1>7

(* The chain of a shell holds only tasks of the table. *)
LEMMA ChainLives ==
  ASSUME TypeOK, TaskTree, NEW t \in Terminals, task_slots[t] = 1
  PROVE  Chain(t) \subseteq Live
<1>1. Live \in Closures(t)
  BY TasksFacts DEF Closures, Live, TaskTree
<1> QED
  BY <1>1 DEF Chain

-----------------------------------------------------------------------------
(* The two operations that change the table. *)
LEMMA LaunchIsolated ==
  ASSUME IInv, Live # Tasks, NEW p, NEW if, Launch(p, if),
         find_open_task >= TERMINAL_COUNT => tasks_running \in Live
  PROVE  /\ \A t \in Terminals :
              task_slots[t] = 1 /\ tasks_running \notin Chain(t) => Chain(t)' = Chain(t)
         /\ \A t \in Tasks : fd'[t] # fd[t] =>
              t = tasks_running' /\ task_slots[t] = 0 /\ fd'[t] = {}
         /\ Live' = Live \cup {find_open_task}
<1> DEFINE new == find_open_task
<1> USE DEF IInv
<1>1. new \in Tasks /\ new \notin Live
  BY FindOpenTask
<1>2. \A u \in Tasks : u # new /\ u # tasks_running => child'[u] = child[u]
  BY <1>1 DEF Launch, LinkChild, TypeOK
<1>3. ASSUME NEW t \in Terminals, task_slots[t] = 1, tasks_running \notin Chain(t)
      PROVE  Chain(t)' = Chain(t)
  <2>1. Chain(t) \subseteq Live /\ Chain(t) \subseteq Tasks
    BY <1>3, ChainLives, ChainClosed
  <2>2. \A u \in Chain(t) : child'[u] = child[u]
    BY <1>1, <1>2, <1>3, <2>1
  <2> QED
    BY <2>2, ChainKept
<1>4. \A t \in Tasks : fd'[t] # fd[t] =>
        t = tasks_running' /\ task_slots[t] = 0 /\ fd'[t] = {}
  BY <1>1 DEF Launch, TypeOK, Live
<1>5. Live' = Live \cup {new}
  BY <1>1 DEF Launch, TypeOK, Live
<1> QED
  BY <1>3, <1>4, <1>5

LEMMA ReturnIsolated ==
  ASSUME IInv, mode # "idle", parent[tasks_running] # NoTask,
         NEW cause, NEW died, ReturnToParent(cause, died)
  PROVE  /\ \A t \in Terminals :
              task_slots[t] = 1 /\ tasks_running \notin Chain(t) => Chain(t)' = Chain(t)
         /\ \A t \in Tasks : fd'[t] # fd[t] => t = tasks_running
         /\ Live' = Live \ {tasks_running} /\ tasks_running \notin Terminals
<1> DEFINE c == tasks_running
           p == parent[c]
<1> USE DEF IInv
<1>1. c \in Live /\ c \in Tasks /\ c # NoTask
  BY TasksFacts DEF Started, RunningIsLeaf, Live
<1>2. ~(c < TERMINAL_COUNT) /\ p \in Live /\ p \in Tasks /\ child[p] = c
  BY <1>1 DEF TaskTree, Live
<1>3. \A u \in Tasks : u # p => child'[u] = child[u]
  BY DEF ReturnToParent, UnlinkChild, TypeOK
<1>4. ASSUME NEW t \in Terminals, c \notin Chain(t) PROVE Chain(t)' = Chain(t)
  <2>1. p \notin Chain(t)
    BY <1>1, <1>2, <1>4, ChainClosed
  <2>2. \A u \in Chain(t) : child'[u] = child[u]
    BY <1>3, <2>1, ChainClosed
  <2> QED
    BY <2>2, ChainKept
<1>5. \A t \in Tasks : fd'[t] # fd[t] => t = c
  BY DEF ReturnToParent, CloseAll, TypeOK
<1>6. Live' = Live \ {c}
  BY <1>1 DEF ReturnToParent, TypeOK, Live
<1>7. c \notin Terminals
  BY <1>2, SizesAssumption DEF Terminals
<1> QED
  BY <1>4, <1>5, <1>6, <1>7

(* Which step it is: one of the two, or one that leaves the table and all  *)
(* but the running task's descriptors alone and at most turns to the       *)
(* bottom task of another terminal.                                        *)
LEMMA StepCases ==
  ASSUME IInv, [Next]_vars
  PROVE  \/ \E p \in Programs, if \in BOOLEAN :
              /\ Live # Tasks /\ Launch(p, if)
              /\ find_open_task >= TERMINAL_COUNT => tasks_running \in Live
         \/ \E cause \in Causes, died \in BOOLEAN :
              mode # "idle" /\ parent[tasks_running] # NoTask /\ ReturnToParent(cause, died)
         \/ /\ UNCHANGED <<task_slots, child, prog>>
            /\ \A t \in Tasks : fd'[t] # fd[t] => t = tasks_running
            /\ \/ tasks_running' = tasks_running
               \/ \E t \in Terminals : t \in Live /\ tasks_running' = find_bottom_task(t)
<1> USE DEF IInv
<1>1. ASSUME NEW name \in Names, Execute(name)
      PROVE  \E p \in Programs, if \in BOOLEAN :
               /\ Live # Tasks /\ Launch(p, if)
               /\ find_open_task >= TERMINAL_COUNT => tasks_running \in Live
  <2>1. PICK p \in Loads(name) : Launch(p, TRUE)
    BY <1>1 DEF Execute
  <2>2. p \in Programs
    BY DEF Loads
  <2>3. tasks_running \in Live
    BY <1>1 DEF Execute, UserRuns, Started, RunningIsLeaf
  <2> QED
    BY <1>1, <2>1, <2>2, <2>3 DEF Execute
<1>2. CASE PitSpawn
  <2> DEFINE t == IF bootup_flag THEN BootTerminal ELSE pit_i
  <2>1. t \in Terminals /\ t \in Tasks \ Live
    BY <1>2, TasksFacts DEF PitSpawn, TypeOK, BootTerminal, Live
  <2> HIDE DEF t
  <2>2. t < TERMINAL_COUNT /\ t \in Nat
    BY <2>1, SizesAssumption DEF Terminals
  <2>3. find_open_task <= t /\ find_open_task \in Nat
    BY <2>1, FindOpenTask, TasksFacts
  <2>4. ~(find_open_task >= TERMINAL_COUNT)
    BY <2>2, <2>3, SizesAssumption
  <2>5. Launch(Shell, FALSE) /\ Live # Tasks /\ Shell \in Programs
    BY <1>2, <2>1, ProgramsAssumption DEF PitSpawn
  <2> QED
    BY <2>4, <2>5
<1>3. CASE Halt
  <2>1. mode # "idle" /\ "halt" \in Causes /\ exception_death \in BOOLEAN
    BY <1>3 DEF Halt, UserRuns, TypeOK, Causes
  <2>2. CASE parent[tasks_running] = NoTask
    BY <1>3, <2>2 DEF Halt, RestartShell, table
  <2>3. CASE parent[tasks_running] # NoTask
    BY <1>3, <2>1, <2>3 DEF Halt
  <2> QED
    BY <2>2, <2>3
<1>4. CASE Exception
  <2>1. mode # "idle" /\ "exception" \in Causes
    BY <1>4 DEF Exception, UserRuns, Causes
  <2>2. CASE tasks_running = 0
    BY <1>4, <2>2 DEF Exception, table
  <2>3. CASE tasks_running # 0 /\ parent[tasks_running] = NoTask
    BY <1>4, <2>3 DEF Exception, RestartShell, table
  <2>4. CASE tasks_running # 0 /\ parent[tasks_running] # NoTask
    BY <1>4, <2>1, <2>4 DEF Exception
  <2> QED
    BY <2>2, <2>3, <2>4
<1>5. CASE Open
  <2>1. PICK f \in Fds : fd' = [fd EXCEPT ![tasks_running] = @ \cup {f}]
    BY <1>5 DEF Open
  <2> QED
    BY <1>5, <2>1 DEF Open, table, TypeOK
<1>6. CASE Close
  <2>1. PICK f \in fd[tasks_running] : fd' = [fd EXCEPT ![tasks_running] = @ \ {f}]
    BY <1>6 DEF Close
  <2> QED
    BY <1>6, <2>1 DEF Close, table, TypeOK
<1>7. CASE Vidmap \/ ExecuteBlank \/ (\E name \in Names : ExecuteRejected(name))
  BY <1>7 DEF Vidmap, ExecuteBlank, ExecuteRejected, table
<1>8. CASE EnterKernel \/ LeaveKernel \/ TripleFault
  BY <1>8 DEF EnterKernel, LeaveKernel, TripleFault, table
<1>9. CASE (\E t \in Terminals : AltF(t)) \/ PitIdle \/ PitSwitchBack
  <2>1. UNCHANGED <<task_slots, child, prog, fd>>
    BY <1>9 DEF AltF, PitIdle, PitSwitchBack, table
  <2>2. tasks_running' = tasks_running \/ \E t \in Terminals : SwitchDisplay(t)
    BY <1>9, TasksFacts DEF AltF, PitIdle, PitSwitchBack, BootTerminal, table
  <2>3. ASSUME NEW t \in Terminals, SwitchDisplay(t), tasks_running' # tasks_running
        PROVE  t \in Live /\ tasks_running' = find_bottom_task(t)
    <3>1. tasks_running' = find_bottom_task(t) /\ find_bottom_task(t) # NoTask
      BY <2>3 DEF SwitchDisplay
    <3>2. task_slots[t] # 0
      BY <3>1 DEF find_bottom_task
    <3> QED
      BY <3>1, <3>2, TasksFacts DEF Live, TypeOK
  <2> QED
    BY <2>1, <2>2, <2>3
<1>10. CASE UNCHANGED vars
  BY <1>10 DEF vars, table
<1> QED
  BY <1>1, <1>2, <1>3, <1>4, <1>5, <1>6, <1>7, <1>8, <1>9, <1>10 DEF Next, PitTick

-----------------------------------------------------------------------------
(* What runs on one terminal never adds to, cuts or redirects the tasks of *)
(* another: execute and halt change only links of the running task's own   *)
(* chain.                                                                  *)
THEOREM ChainsIsolated == Spec => ChainIsolation
<1> DEFINE Kept == child' # child =>
             \A t \in Terminals :
               task_slots[t] = 1 /\ tasks_running \notin Chain(t) => Chain(t)' = Chain(t)
<1>1. IInv /\ [Next]_vars => [Kept]_vars
  <2> SUFFICES ASSUME IInv, [Next]_vars, child' # child,
                      NEW t \in Terminals, task_slots[t] = 1, tasks_running \notin Chain(t)
               PROVE  Chain(t)' = Chain(t)
    OBVIOUS
  <2> QED
    BY StepCases, LaunchIsolated, ReturnIsolated
<1> QED
  BY <1>1, Invariance, PTL DEF Spec, ChainIsolation

(* No call of a task changes another's descriptors; the task execute       *)
(* starts gets an empty array.                                             *)
THEOREM DescriptorsIsolated == Spec => DescriptorIsolation
<1> DEFINE Own == \A t \in Tasks : fd'[t] # fd[t] =>
             \/ t = tasks_running
             \/ t = tasks_running' /\ task_slots[t] = 0 /\ fd'[t] = {}
<1>1. IInv /\ [Next]_vars => [Own]_vars
  <2> SUFFICES ASSUME IInv, [Next]_vars, NEW t \in Tasks, fd'[t] # fd[t]
               PROVE  \/ t = tasks_running
                      \/ t = tasks_running' /\ task_slots[t] = 0 /\ fd'[t] = {}
    OBVIOUS
  <2> QED
    BY StepCases, LaunchIsolated, ReturnIsolated
<1> QED
  BY <1>1, Invariance, PTL DEF Spec, DescriptorIsolation

-----------------------------------------------------------------------------
LEMMA BootOrderKept == IInv /\ BootOrder /\ [Next]_vars => BootOrder'
<1> SUFFICES ASSUME IInv, BootOrder, [Next]_vars PROVE BootOrder'
  OBVIOUS
<1>1. Live \cap Terminals \subseteq Live'
  <2>1. CASE UNCHANGED <<task_slots, child>>
    BY <2>1 DEF Live
  <2> QED
    BY <2>1, StepCases, LaunchIsolated, ReturnIsolated
<1>2. pit_i \in Terminals /\ Terminals \subseteq Nat
  BY TasksFacts DEF IInv, TypeOK
<1>3. CASE UNCHANGED <<pit_i, bootup_flag>>
  BY <1>1, <1>3 DEF BootOrder
<1>4. CASE PitIdle \/ PitSwitchBack
  <2>1. bootup_flag' = FALSE
    BY <1>4 DEF PitIdle, PitSwitchBack, IInv, TypeOK
  <2>2. pit_i' = 0 \/ pit_i' = pit_i + 1
    BY <1>4 DEF PitIdle, PitSwitchBack, NextTerminal
  <2>3. CASE pit_i' = 0
    BY <1>2, <2>1, <2>3 DEF BootOrder
  <2>4. CASE pit_i' = pit_i + 1
    <3>1. pit_i \in Live
      <4>1. CASE PitIdle
        BY <4>1, <1>2, TasksFacts DEF PitIdle, Live
      <4>2. CASE PitSwitchBack
        BY <4>2, <1>2 DEF PitSwitchBack, BootOrder
      <4> QED
        BY <1>4, <4>1, <4>2
    <3>2. \A u \in Terminals : u < pit_i + 1 => u < pit_i \/ u = pit_i
      BY <1>2
    <3> QED
      BY <1>1, <1>2, <2>1, <2>4, <3>1, <3>2 DEF BootOrder
  <2> QED
    BY <2>2, <2>3, <2>4
<1>5. CASE PitSpawn
  <2>1. ~bootup_flag
    BY <1>5, TasksFacts DEF PitSpawn, BootOrder, BootTerminal, Live
  <2>2. /\ pit_i' = pit_i /\ bootup_flag' = (pit_i = TERMINAL_COUNT - 1)
        /\ Launch(Shell, FALSE) /\ task_slots[pit_i] = 0
    BY <1>5, <2>1 DEF PitSpawn
  <2>3. pit_i \in Tasks \ Live
    BY <1>2, <2>2, TasksFacts DEF Live
  <2>4. /\ pit_i' = pit_i /\ bootup_flag' = (pit_i = TERMINAL_COUNT - 1)
        /\ Launch(Shell, FALSE) /\ pit_i \in Tasks \ Live
    BY <2>2, <2>3
  <2>5. Live # Tasks
    BY <2>4
  <2>6. find_open_task = pit_i
    <3>1. find_open_task \in Tasks \ Live /\ find_open_task <= pit_i
      BY <2>4, <2>5, FindOpenTask
    <3>2. find_open_task \in Terminals
      BY <1>2, <3>1, TasksFacts, SizesAssumption DEF Terminals
    <3> QED
      BY <1>2, <3>1, <3>2 DEF BootOrder
  <2>7. task_slots' = [task_slots EXCEPT ![pit_i] = 1]
    BY <2>4, <2>6 DEF Launch
  <2>8. pit_i \in Live'
    BY <2>4, <2>7 DEF Live, IInv, TypeOK
  <2>9. \A u \in Terminals : u <= TERMINAL_COUNT - 1
    BY SizesAssumption DEF Terminals
  <2>10. ASSUME bootup_flag', NEW u \in Terminals PROVE u < pit_i \/ u = pit_i
    <3>1. u <= pit_i /\ u \in Nat /\ pit_i \in Nat
      BY <1>2, <2>4, <2>9, <2>10
    <3> QED
      BY <3>1
  <2> QED
    BY <1>1, <2>4, <2>8, <2>10 DEF BootOrder
<1>6. UNCHANGED <<pit_i, bootup_flag>> \/ PitIdle \/ PitSwitchBack \/ PitSpawn
  BY DEF Next, PitTick, Execute, ExecuteRejected, ExecuteBlank, Halt, Exception, Open, Close, Vidmap,
         EnterKernel, LeaveKernel, TripleFault, AltF, boot, vars
<1> QED
  BY <1>3, <1>4, <1>5, <1>6

(* The shell the scheduler starts (scheduler.c) takes the slot that        *)
(* belongs to its terminal, although find_open_task knows of no terminals, *)
(* and that terminal is the one displayed.                                 *)
THEOREM SpawnPlaced == Spec => SpawnInOwnTerminal
<1> DEFINE Placed == PitSpawn => /\ tasks_running' = display_terminal_id'
                                 /\ tasks_running' \in Terminals
                                 /\ task_slots[tasks_running'] = 0
<1>1. Init => BootOrder
  BY TasksFacts DEF Init, BootOrder
<1>2. IInv /\ BootOrder /\ [Next]_vars => [Placed]_vars
  <2> SUFFICES ASSUME IInv, BootOrder, PitSpawn
               PROVE  /\ tasks_running' = display_terminal_id'
                      /\ tasks_running' \in Terminals
                      /\ task_slots[tasks_running'] = 0
    OBVIOUS
  <2>1. ~bootup_flag
    BY TasksFacts DEF PitSpawn, BootOrder, BootTerminal, Live
  <2>2. /\ pit_i \in Terminals /\ display_terminal_id' = pit_i /\ task_slots[pit_i] = 0
        /\ Launch(Shell, FALSE)
    BY <2>1 DEF PitSpawn, IInv, TypeOK
  <2>3. pit_i \in Tasks \ Live
    BY <2>2, TasksFacts DEF Live
  <2>4. /\ pit_i \in Terminals /\ pit_i \in Tasks \ Live /\ Live # Tasks
        /\ display_terminal_id' = pit_i /\ task_slots[pit_i] = 0
        /\ Launch(Shell, FALSE)
    BY <2>2, <2>3
  <2>5. find_open_task \in Tasks \ Live /\ find_open_task <= pit_i
    BY <2>4, FindOpenTask
  <2>6. find_open_task \in Terminals
    BY <2>4, <2>5, TasksFacts, SizesAssumption DEF Terminals
  <2>7. find_open_task = pit_i
    BY <2>4, <2>5, <2>6, TasksFacts DEF BootOrder
  <2> QED
    BY <2>4, <2>7 DEF Launch
<1>3. Spec => []BootOrder
  BY <1>1, BootOrderKept, Invariance, PTL DEF Spec
<1> QED
  BY <1>2, <1>3, Invariance, PTL DEF Spec, SpawnInOwnTerminal
-----------------------------------------------------------------------------
(***************************************************************************)
(* The task table implements Processes (TasksService.tla).  The stacks are *)
(* first followed without find_bottom_task: WalksAre(W) says that W[t] is  *)
(* the chain of terminal t in order, that no task is on two chains or      *)
(* twice on one, and that the running task ends one.  Every step takes     *)
(* such a W to another, and it changes as a stack does; that Path(t) is    *)
(* W[t] and the number of programs is bounded by the table follows.        *)
(***************************************************************************)
IsWalk(p, t) ==
  /\ Len(p) > 0 /\ p[1] = t
  /\ \A k \in 1 .. Len(p) - 1 : child[p[k]] = p[k + 1]
  /\ child[p[Len(p)]] = NoTask

EndsOn(p, u) == Len(p) > 0 /\ p[Len(p)] = u

WalksAre(W) ==
  /\ DOMAIN W = Terminals
  /\ \A t \in Terminals : W[t] \in Seq(Live)
  /\ \A t \in Terminals : IF t \in Live THEN IsWalk(W[t], t) ELSE W[t] = <<>>
  /\ \A t, u \in Terminals : \A i \in 1 .. Len(W[t]), j \in 1 .. Len(W[u]) :
       W[t][i] = W[u][j] => t = u /\ i = j
  /\ tasks_running # NoTask => \E t \in Terminals : EndsOn(W[t], tasks_running)

WalkInv == \E W : WalksAre(W)

-----------------------------------------------------------------------------
LEMMA Induction ==
  ASSUME NEW S, 0 \in S, \A n \in Nat : n \in S => n + 1 \in S PROVE Nat \subseteq S
<1> SUFFICES ASSUME Nat \ S # {} PROVE FALSE
  OBVIOUS
<1>1. PICK m \in Nat \ S : \A j \in Nat \ S : <<j, m>> \notin OpToRel(<, Nat)
  BY NatLessThanWellFounded, WFMin
<1>2. \A j, k \in Nat : j < k => <<j, k>> \in OpToRel(<, Nat)
  BY Zenon DEF OpToRel
<1>3. m - 1 \in Nat /\ m - 1 < m /\ (m - 1) + 1 = m
  OBVIOUS
<1>4. m - 1 \in S
  BY <1>1, <1>2, <1>3
<1> QED
  BY <1>3, <1>4

LEMMA Narrowed ==
  ASSUME NEW S, NEW T, NEW q \in Seq(S), \A k \in 1 .. Len(q) : q[k] \in T PROVE q \in Seq(T)
<1>1. q = [k \in 1 .. Len(q) |-> q[k]] /\ Len(q) \in Nat
  OBVIOUS
<1>2. [k \in 1 .. Len(q) |-> q[k]] \in [1 .. Len(q) -> T]
  OBVIOUS
<1> QED
  BY <1>1, <1>2

LEMMA SizeOfTasks == IsFiniteSet(Tasks) /\ Cardinality(Tasks) = MAX_TASKS
<1>1. MAX_TASKS \in Nat /\ MAX_TASKS > 0
  BY SizesAssumption
<1>2. IsFiniteSet(0 .. MAX_TASKS - 1) /\ Cardinality(0 .. MAX_TASKS - 1) = MAX_TASKS
  BY <1>1, FS_Interval
<1> QED
  BY <1>2 DEF Tasks

(* The chains have no more tasks together than the table has: none is on   *)
(* two of them.                                                            *)
LEMMA WalksFit ==
  ASSUME NEW W, WalksAre(W)
  PROVE  LET slots == UNION {{t} \X (1 .. Len(W[t])) : t \in Terminals}
         IN IsFiniteSet(slots) /\ Cardinality(slots) <= Cardinality(Live)
<1> DEFINE slots == UNION {{t} \X (1 .. Len(W[t])) : t \in Terminals}
           f == [s \in slots |-> W[s[1]][s[2]]]
<1>1. \A s \in slots : s[1] \in Terminals /\ s[2] \in 1 .. Len(W[s[1]]) /\ s = <<s[1], s[2]>>
  OBVIOUS
<1>2. \A t \in Terminals : W[t] \in Seq(Live)
  BY DEF WalksAre
<1>3. f \in [slots -> Live]
  <2> SUFFICES ASSUME NEW s \in slots PROVE W[s[1]][s[2]] \in Live
    OBVIOUS
  <2>1. s[1] \in Terminals /\ s[2] \in 1 .. Len(W[s[1]])
    BY <1>1
  <2>2. W[s[1]] \in Seq(Live)
    BY <1>2, <2>1
  <2> QED
    BY <2>1, <2>2
<1>4. \A r, s \in slots : f[r] = f[s] => r = s
  <2> SUFFICES ASSUME NEW r \in slots, NEW s \in slots, W[r[1]][r[2]] = W[s[1]][s[2]] PROVE r = s
    OBVIOUS
  <2>1. r[1] = s[1] /\ r[2] = s[2]
    BY <1>1 DEF WalksAre
  <2> QED
    BY <1>1, <2>1
<1> HIDE DEF slots
<1>5. f \in Injection(slots, Live)
  BY <1>3, <1>4 DEF Injection, IsInjective
<1>6. IsFiniteSet(Live)
  BY SizeOfTasks, FS_Subset DEF Live
<1>7. IsFiniteSet(slots) /\ Cardinality(slots) <= Cardinality(Live)
  BY <1>5, <1>6, FS_Injection
<1> QED
  BY <1>7 DEF slots

LEMMA WalkFits ==
  ASSUME NEW W, WalksAre(W), NEW t \in Terminals PROVE Len(W[t]) <= MAX_TASKS
<1> DEFINE f == [k \in 1 .. Len(W[t]) |-> W[t][k]]
<1>1. W[t] \in Seq(Live) /\ Live \subseteq Tasks
  BY DEF WalksAre, Live
<1>2. f \in [1 .. Len(W[t]) -> Tasks]
  BY <1>1
<1>3. \A i, j \in 1 .. Len(W[t]) : f[i] = f[j] => i = j
  BY DEF WalksAre
<1>4. f \in Injection(1 .. Len(W[t]), Tasks)
  BY <1>2, <1>3 DEF Injection, IsInjective
<1>5. Cardinality(1 .. Len(W[t])) <= MAX_TASKS
  BY <1>4, SizeOfTasks, FS_Injection
<1>6. Len(W[t]) \in Nat
  BY <1>1
<1>7. Cardinality(1 .. Len(W[t])) = IF 1 > Len(W[t]) THEN 0 ELSE Len(W[t])
  <2>1. PICK n : n = Len(W[t])
    OBVIOUS
  <2>2. 1 \in Int /\ n \in Int
    BY <1>6, <2>1
  <2>3. Cardinality(1 .. n) = IF 1 > n THEN 0 ELSE n - 1 + 1
    BY <2>2, FS_Interval, Zenon
  <2> QED
    BY <1>6, <2>1, <2>3
<1> QED
  BY <1>5, <1>6, <1>7, SizesAssumption

-----------------------------------------------------------------------------
(* What find_bottom_task passes on its way down is the chain.              *)
LEMMA PathIsWalk ==
  ASSUME TypeOK, NEW W, WalksAre(W), NEW t \in Terminals PROVE Path(t) = W[t]
<1> DEFINE p == W[t]
           n == Len(p)
           Beyond(f, k) == IF k = 1 THEN t
                           ELSE LET before == f[k - 1]
                                IN IF before = NoTask THEN NoTask ELSE child[before]
           Solves(f) == f = [k \in 1 .. MAX_TASKS |-> Beyond(f, k)]
           F == [k \in 1 .. MAX_TASKS |-> IF k <= n THEN p[k] ELSE NoTask]
           G == CHOOSE f : Solves(f)
           Bottom(f, m) == f[m] # NoTask /\ (m = MAX_TASKS \/ f[m + 1] = NoTask)
<1>0. CASE t \notin Live
  <2>1. task_slots[t] = 0 /\ W[t] = <<>>
    BY <1>0, TasksFacts DEF Live, WalksAre, TypeOK
  <2> QED
    BY <2>1 DEF Path
<1>1. CASE t \in Live
  <2>1. /\ MAX_TASKS \in Nat /\ n \in 1 .. MAX_TASKS /\ p \in Seq(Tasks)
        /\ p[1] = t /\ child[p[n]] = NoTask
        /\ \A k \in 1 .. n - 1 : child[p[k]] = p[k + 1]
    <3>1. IsWalk(p, t) /\ p \in Seq(Live) /\ Live \subseteq Tasks
      BY <1>1 DEF WalksAre, Live
    <3>2. n <= MAX_TASKS
      BY WalkFits
    <3> QED
      BY <3>1, <3>2, SizesAssumption DEF IsWalk
  <2>2. \A k \in 1 .. n : p[k] # NoTask
    BY <2>1, TasksFacts
  <2> HIDE DEF p, n
  <2>3. Solves(F)
    <3>1. ASSUME NEW k \in 1 .. MAX_TASKS PROVE F[k] = Beyond(F, k)
      <4>1. CASE k = 1
        BY <2>1, <4>1
      <4>2. CASE k # 1
        <5>1. k - 1 \in 1 .. MAX_TASKS /\ (k - 1) + 1 = k
          BY <2>1, <4>2
        <5>2. CASE k <= n
          <6>1. k - 1 \in 1 .. n - 1 /\ k - 1 \in 1 .. n
            BY <2>1, <5>1, <5>2
          <6>2. F[k - 1] = p[k - 1] /\ F[k] = p[k] /\ p[k - 1] # NoTask /\ child[p[k - 1]] = p[k]
            BY <2>1, <2>2, <5>1, <5>2, <6>1
          <6> QED
            BY <4>2, <6>2
        <5>3. CASE k = n + 1
          <6>1. k - 1 = n /\ F[k] = NoTask /\ F[k - 1] = p[n] /\ p[n] # NoTask
            BY <2>1, <2>2, <5>1, <5>3
          <6> QED
            BY <2>1, <4>2, <6>1
        <5>4. CASE k > n + 1
          <6>1. ~(k <= n) /\ ~(k - 1 <= n)
            BY <2>1, <5>4
          <6>2. F[k] = NoTask /\ F[k - 1] = NoTask
            BY <5>1, <6>1
          <6> QED
            BY <4>2, <6>2
        <5> QED
          BY <2>1, <5>2, <5>3, <5>4
      <4> QED
        BY <4>1, <4>2
    <3> QED
      BY <3>1
  <2>4. Solves(G)
    <3> HIDE DEF Solves, F
    <3> QED
      BY <2>3
  <2>5. \A k \in 1 .. MAX_TASKS : G[k] = Beyond(G, k) /\ F[k] = Beyond(F, k)
    <3> HIDE DEF F, G, Beyond
    <3> QED
      BY <2>3, <2>4
  <2>6. G = F
    <3> DEFINE S == {m \in Nat : m + 1 \in 1 .. MAX_TASKS => G[m + 1] = F[m + 1]}
    <3>1. 0 \in S
      BY <2>1, <2>5
    <3>2. ASSUME NEW m \in Nat, m \in S PROVE m + 1 \in S
      <4> SUFFICES ASSUME (m + 1) + 1 \in 1 .. MAX_TASKS PROVE G[(m + 1) + 1] = F[(m + 1) + 1]
        OBVIOUS
      <4>1. m + 1 \in 1 .. MAX_TASKS /\ (m + 1) + 1 # 1 /\ ((m + 1) + 1) - 1 = m + 1
        BY <2>1
      <4>2. G[m + 1] = F[m + 1]
        BY <3>2, <4>1
      <4> DEFINE k == (m + 1) + 1
      <4>3. Beyond(G, k) = Beyond(F, k)
        <5> HIDE DEF F, G
        <5> QED
          BY <4>1, <4>2
      <4>4. k \in 1 .. MAX_TASKS
        OBVIOUS
      <4> HIDE DEF F, G, Beyond, k
      <4>5. G[k] = F[k]
        BY <2>5, <4>3, <4>4
      <4> QED
        BY <4>5 DEF k
    <3> HIDE DEF S
    <3>3. Nat \subseteq S
      BY <3>1, <3>2, Induction
    <3>4. \A k \in 1 .. MAX_TASKS : G[k] = F[k]
      <4> SUFFICES ASSUME NEW k \in 1 .. MAX_TASKS PROVE G[k] = F[k]
        OBVIOUS
      <4>1. k - 1 \in Nat /\ (k - 1) + 1 = k
        BY <2>1
      <4>2. k - 1 \in S
        BY <3>3, <4>1
      <4> HIDE DEF F, G
      <4> QED
        BY <4>1, <4>2 DEF S
    <3>5. DOMAIN G = 1 .. MAX_TASKS /\ G = [k \in 1 .. MAX_TASKS |-> G[k]]
      <4> HIDE DEF G, Beyond
      <4> QED
        BY <2>4
    <3> HIDE DEF G
    <3> QED
      BY <3>4, <3>5
  <2>7. \A m \in 1 .. MAX_TASKS : Bottom(F, m) <=> m = n
    <3> SUFFICES ASSUME NEW m \in 1 .. MAX_TASKS PROVE Bottom(F, m) <=> m = n
      OBVIOUS
    <3>1. CASE m < n
      <4>1. m + 1 \in 1 .. n /\ m + 1 \in 1 .. MAX_TASKS /\ m # MAX_TASKS
        BY <2>1, <3>1
      <4>2. F[m + 1] # NoTask
        BY <2>2, <4>1
      <4> HIDE DEF F
      <4> QED
        BY <3>1, <4>1, <4>2, <2>1
    <3>2. CASE m = n
      <4>1. F[m] # NoTask
        BY <2>1, <2>2, <3>2
      <4>2. m # MAX_TASKS => m + 1 \in 1 .. MAX_TASKS /\ ~(m + 1 <= n)
        BY <2>1, <3>2
      <4> QED
        BY <3>2, <4>1, <4>2
    <3>3. CASE m > n
      BY <2>1, <3>3
    <3> QED
      BY <2>1, <3>1, <3>2, <3>3
  <2>8. (CHOOSE m \in 1 .. MAX_TASKS : Bottom(F, m)) = n
    <3> HIDE DEF Bottom, F
    <3> QED
      BY <2>1, <2>7
  <2>9. Path(t) = [k \in 1 .. (CHOOSE m \in 1 .. MAX_TASKS : Bottom(G, m)) |-> G[k]]
    <3>1. task_slots[t] # 0
      BY <1>1 DEF Live
    <3> QED
      BY <3>1 DEF Path
  <2>10. Path(t) = [k \in 1 .. n |-> F[k]]
    <3> HIDE DEF F, G, Bottom
    <3> QED
      BY <2>6, <2>8, <2>9
  <2>11. \A k \in 1 .. n : F[k] = p[k]
    BY <2>1
  <2>12. Path(t) = p
    <3> HIDE DEF F
    <3>1. Path(t) = [k \in 1 .. n |-> p[k]]
      BY <2>10, <2>11
    <3>2. n = Len(p) /\ p \in Seq(Tasks)
      BY <2>1 DEF n
    <3> QED
      BY <3>1, <3>2
  <2> QED
    BY <2>12 DEF p
<1> QED
  BY <1>0, <1>1

(* The state of Processes, read off the chains.                            *)
Loaded(p) == [k \in 1 .. Len(p) |-> prog[p[k]]]

MappedBy(W) ==
  TypeOK /\ WalksAre(W) =>
    /\ \A t \in Terminals : Stacked(t) = Loaded(W[t])
    /\ \A t \in Terminals : tasks_running # NoTask /\ EndsOn(W[t], tasks_running) => ActiveTerminal = t
    /\ tasks_running = NoTask => ActiveTerminal = -1

LEMMA Mapped == \A W : MappedBy(W)
<1> SUFFICES ASSUME NEW W, TypeOK, WalksAre(W)
             PROVE  /\ \A t \in Terminals : Stacked(t) = Loaded(W[t])
                    /\ \A t \in Terminals : tasks_running # NoTask /\ EndsOn(W[t], tasks_running) => ActiveTerminal = t
                    /\ tasks_running = NoTask => ActiveTerminal = -1
  BY DEF MappedBy
<1>1. \A t \in Terminals : Path(t) = W[t] /\ W[t] \in Seq(Live) /\ DOMAIN W[t] = 1 .. Len(W[t])
  BY PathIsWalk DEF WalksAre
<1>2. \A t \in Terminals : Stacked(t) = Loaded(W[t])
  BY <1>1 DEF Stacked, Loaded
<1>3. ASSUME NEW t \in Terminals, tasks_running # NoTask, EndsOn(W[t], tasks_running)
      PROVE  ActiveTerminal = t
  <2> DEFINE On(u) == \E k \in DOMAIN Path(u) : Path(u)[k] = tasks_running
  <2>1. Len(W[t]) \in 1 .. Len(W[t]) /\ W[t][Len(W[t])] = tasks_running
    BY <1>1, <1>3 DEF EndsOn
  <2>2. On(t)
    BY <1>1, <2>1
  <2>3. \A u \in Terminals : On(u) => u = t
    BY <1>1, <2>1 DEF WalksAre
  <2>4. ActiveTerminal = CHOOSE u \in Terminals : On(u)
    BY <1>3 DEF ActiveTerminal
  <2> HIDE DEF On
  <2> QED
    BY <2>2, <2>3, <2>4
<1>4. tasks_running = NoTask => ActiveTerminal = -1
  BY DEF ActiveTerminal
<1> QED
  BY <1>2, <1>3, <1>4

(* The bottom task find_bottom_task comes to ends the chain. *)
LEMMA BottomEnds ==
  ASSUME TypeOK, TaskTree, NEW W, WalksAre(W), NEW t \in Terminals, t \in Live
  PROVE  EndsOn(W[t], find_bottom_task(t)) /\ find_bottom_task(t) \in Live
<1> DEFINE p == W[t]
           n == Len(p)
<1>1. /\ n \in Nat \ {0} /\ p \in Seq(Live) /\ p[1] = t /\ child[p[n]] = NoTask
      /\ \A k \in 1 .. n - 1 : child[p[k]] = p[k + 1]
  BY DEF WalksAre, IsWalk
<1> HIDE DEF p, n
<1>2. n = Len(p)
  BY DEF n
<1>3. \A k \in 1 .. n : p[k] \in Live /\ p[k] # NoTask
  BY <1>1, <1>2, TasksFacts DEF Live
<1>4. p[n] \in Chain(t)
  <2> DEFINE S == {m \in Nat : m + 1 \in 1 .. n => p[m + 1] \in Chain(t)}
  <2>1. 0 \in S
    BY <1>1, ChainClosed
  <2>2. ASSUME NEW m \in Nat, m \in S PROVE m + 1 \in S
    <3> SUFFICES ASSUME (m + 1) + 1 \in 1 .. n PROVE p[(m + 1) + 1] \in Chain(t)
      OBVIOUS
    <3>1. m + 1 \in 1 .. n - 1 /\ m + 1 \in 1 .. n
      BY <1>1
    <3>2. child[p[m + 1]] = p[(m + 1) + 1] /\ p[(m + 1) + 1] # NoTask /\ p[m + 1] \in Chain(t)
      BY <1>1, <1>3, <2>2, <3>1
    <3> QED
      BY <3>2, ChainClosed
  <2> HIDE DEF S
  <2>3. Nat \subseteq S
    BY <2>1, <2>2, Induction
  <2>4. n - 1 \in S /\ n - 1 + 1 = n /\ n \in 1 .. n
    BY <1>1, <2>3
  <2> QED
    BY <2>4 DEF S
<1>5. p[n] \in Bottoms(t) /\ task_slots[t] = 1
  BY <1>1, <1>4 DEF Bottoms, Live
<1>6. find_bottom_task(t) = p[n]
  BY <1>5, ChainEnds DEF find_bottom_task
<1> QED
  BY <1>1, <1>2, <1>3, <1>6 DEF EndsOn, p
-----------------------------------------------------------------------------
(* The first program of a terminal. *)
LEMMA BaseWalks ==
  ASSUME IInv, NEW W, WalksAre(W), Live # Tasks, NEW p, NEW if, Launch(p, if),
         NEW new, new = find_open_task, new < TERMINAL_COUNT,
         NEW V, V = [W EXCEPT ![new] = <<new>>]
  PROVE  /\ WalksAre(V)'
         /\ new \in Terminals /\ new \notin Live /\ EndsOn(V[new], new)
         /\ \A u \in Terminals : u < new => u \in Live
<1> USE DEF IInv
<1>1. /\ new \in Tasks /\ new \notin Live /\ new \in Terminals /\ new # NoTask
      /\ \A u \in Terminals : u < new => u \in Live
  <2>1. new \in Tasks \ Live /\ \A u \in Tasks \ Live : new <= u
    BY FindOpenTask
  <2>2. new \in Nat /\ new # NoTask
    BY <2>1, TasksFacts
  <2>3. new \in Terminals
    BY <2>2, SizesAssumption DEF Terminals
  <2>4. ASSUME NEW u \in Terminals, u < new PROVE u \in Live
    <3>1. u \in Tasks /\ u \in Nat
      BY TasksFacts
    <3>2. ~(new <= u)
      BY <2>2, <2>4, <3>1
    <3> QED
      BY <2>1, <3>1, <3>2
  <2> QED
    BY <2>1, <2>2, <2>3, <2>4
<1>2. /\ Live' = Live \cup {new} /\ tasks_running' = new
      /\ child' = [child EXCEPT ![new] = NoTask]
  <2>1. ~(new >= TERMINAL_COUNT)
    BY <1>1, TasksFacts, SizesAssumption
  <2> QED
    BY <1>1, <2>1 DEF Launch, TypeOK, Live
<1>3. \A u \in Live : child'[u] = child[u]
  BY <1>1, <1>2 DEF Live, TypeOK
<1>4. child'[new] = NoTask
  BY <1>1, <1>2 DEF TypeOK
<1>5. /\ DOMAIN V = Terminals /\ V[new] = <<new>> /\ Len(V[new]) = 1 /\ V[new][1] = new
      /\ \A t \in Terminals : t # new => V[t] = W[t]
  BY <1>1 DEF WalksAre
<1>6. \A t \in Terminals : W[t] \in Seq(Live)
  BY DEF WalksAre
<1>7. \A t \in Terminals : V[t] \in Seq(Live')
  <2> SUFFICES ASSUME NEW t \in Terminals PROVE V[t] \in Seq(Live')
    OBVIOUS
  <2>1. CASE t = new
    BY <1>2, <1>5, <2>1
  <2>2. CASE t # new
    BY <1>2, <1>5, <1>6, <2>2
  <2> QED
    BY <2>1, <2>2
<1>8. ASSUME NEW t \in Terminals PROVE IF t \in Live' THEN IsWalk(V[t], t)' ELSE V[t] = <<>>
  <2>1. CASE t = new
    BY <1>2, <1>4, <1>5, <2>1 DEF IsWalk
  <2>2. CASE t # new
    <3>1. (t \in Live' <=> t \in Live) /\ V[t] = W[t]
      BY <1>2, <1>5, <2>2
    <3>2. CASE t \in Live
      <4>1. IsWalk(W[t], t)
        BY <3>2 DEF WalksAre
      <4>2. \A k \in 1 .. Len(W[t]) : W[t][k] \in Live
        BY <1>6
      <4>3. \A k \in 1 .. Len(W[t]) - 1 : k \in 1 .. Len(W[t])
        BY <1>6
      <4>4. Len(W[t]) \in 1 .. Len(W[t])
        BY <1>6, <4>1 DEF IsWalk
      <4> QED
        BY <1>3, <3>1, <3>2, <4>1, <4>2, <4>3, <4>4 DEF IsWalk
    <3>3. CASE t \notin Live
      BY <3>1, <3>3 DEF WalksAre
    <3> QED
      BY <3>2, <3>3
  <2> QED
    BY <2>1, <2>2
<1>9. ASSUME NEW t \in Terminals, NEW u \in Terminals,
             NEW i \in 1 .. Len(V[t]), NEW j \in 1 .. Len(V[u]), V[t][i] = V[u][j]
      PROVE  t = u /\ i = j
  <2>1. \A v \in Terminals : \A k \in 1 .. Len(W[v]) : W[v][k] # new
    BY <1>1, <1>6
  <2>2. CASE t = new /\ u = new
    BY <1>5, <1>9, <2>2
  <2>3. CASE t = new /\ u # new
    BY <1>5, <1>9, <2>1, <2>3
  <2>4. CASE t # new /\ u = new
    BY <1>5, <1>9, <2>1, <2>4
  <2>5. CASE t # new /\ u # new
    BY <1>5, <1>9, <2>5 DEF WalksAre
  <2> QED
    BY <2>2, <2>3, <2>4, <2>5
<1>10. EndsOn(V[new], new)
  BY <1>5 DEF EndsOn
<1> QED
  BY <1>1, <1>2, <1>5, <1>7, <1>8, <1>9, <1>10 DEF WalksAre

(* A chain is a walk as long as the links of its tasks stay. *)
LEMMA WalkKept ==
  ASSUME TypeOK, NEW W, WalksAre(W), NEW t \in Terminals, t \in Live,
         \A k \in 1 .. Len(W[t]) : child'[W[t][k]] = child[W[t][k]]
  PROVE  IsWalk(W[t], t)'
<1>1. IsWalk(W[t], t) /\ W[t] \in Seq(Live)
  BY DEF WalksAre
<1>2. \A k \in 1 .. Len(W[t]) - 1 : k \in 1 .. Len(W[t])
  BY <1>1
<1>3. Len(W[t]) \in 1 .. Len(W[t])
  BY <1>1 DEF IsWalk
<1> QED
  BY <1>1, <1>2, <1>3 DEF IsWalk

(* A program executes another: its chain grows at the end. *)
LEMMA CallWalks ==
  ASSUME IInv, NEW W, WalksAre(W), Live # Tasks, NEW p, NEW if, Launch(p, if),
         tasks_running \in Live,
         NEW new, new = find_open_task, ~(new < TERMINAL_COUNT),
         NEW a \in Terminals, EndsOn(W[a], tasks_running),
         NEW V, V = [W EXCEPT ![a] = Append(W[a], new)]
  PROVE  /\ WalksAre(V)' /\ EndsOn(V[a], new)
         /\ new \notin Live /\ Terminals \subseteq Live
<1> DEFINE r == tasks_running
           n == Len(W[a])
<1> USE DEF IInv
<1>1. new \in Tasks /\ new \notin Live /\ new # NoTask /\ new \notin Terminals /\ Terminals \subseteq Live
  <2>1. new \in Tasks \ Live /\ \A u \in Tasks \ Live : new <= u
    BY FindOpenTask
  <2>2. new \in Nat /\ new # NoTask
    BY <2>1, TasksFacts
  <2>3. ASSUME NEW u \in Terminals PROVE u \in Live /\ u # new
    <3>1. u \in Tasks /\ u \in Nat /\ u < TERMINAL_COUNT
      BY TasksFacts, SizesAssumption DEF Terminals
    <3>2. ~(new <= u) /\ u # new
      BY <2>2, <3>1, SizesAssumption
    <3> QED
      BY <2>1, <3>1, <3>2
  <2> QED
    BY <2>1, <2>2, <2>3
<1>2. r \in Tasks /\ r # new
  BY <1>1 DEF Live
<1>3. /\ Live' = Live \cup {new} /\ tasks_running' = new
      /\ child' = [child EXCEPT ![r] = new, ![new] = NoTask]
  <2>1. new >= TERMINAL_COUNT
    BY <1>1, TasksFacts, SizesAssumption
  <2> QED
    BY <1>1, <2>1 DEF Launch, LinkChild, TypeOK, Live
<1>4. \A u \in Live : u # r => child'[u] = child[u]
  BY <1>1, <1>3 DEF Live, TypeOK
<1>5. child'[r] = new /\ child'[new] = NoTask
  BY <1>1, <1>2, <1>3 DEF TypeOK
<1>6. \A t \in Terminals : W[t] \in Seq(Live)
  BY DEF WalksAre
<1>7. n \in Nat \ {0} /\ W[a][n] = r /\ W[a] \in Seq(Live)
  BY <1>6 DEF EndsOn
<1>8. /\ DOMAIN V = Terminals /\ V[a] = Append(W[a], new)
      /\ \A t \in Terminals : t # a => V[t] = W[t]
  BY DEF WalksAre
<1>9. /\ V[a] \in Seq(Live') /\ Len(V[a]) = n + 1 /\ V[a][n + 1] = new
      /\ \A k \in 1 .. n : V[a][k] = W[a][k]
  <2>1. W[a] \in Seq(Live') /\ new \in Live'
    BY <1>3, <1>7
  <2> HIDE DEF n
  <2>2. n = Len(W[a])
    BY DEF n
  <2> QED
    BY <1>8, <2>1, <2>2
<1>10. \A t \in Terminals : V[t] \in Seq(Live')
  <2> SUFFICES ASSUME NEW t \in Terminals, t # a PROVE V[t] \in Seq(Live')
    BY <1>9
  <2> QED
    BY <1>3, <1>6, <1>8
<1>11. \A t \in Terminals : \A k \in 1 .. Len(W[t]) : W[t][k] = r => t = a /\ k = n
  <2>1. n \in 1 .. Len(W[a])
    BY <1>7
  <2> QED
    BY <1>7, <2>1 DEF WalksAre
<1>12. ASSUME NEW t \in Terminals PROVE IsWalk(V[t], t)'
  <2>1. CASE t # a
    <3>1. \A k \in 1 .. Len(W[t]) : W[t][k] \in Live /\ W[t][k] # r
      BY <1>6, <1>11, <2>1
    <3>2. \A k \in 1 .. Len(W[t]) : child'[W[t][k]] = child[W[t][k]]
      BY <1>4, <3>1
    <3>3. IsWalk(W[t], t)'
      BY <1>1, <3>2, WalkKept
    <3>4. V[t] = W[t]
      BY <1>8, <2>1
    <3> QED
      BY <3>3, <3>4
  <2>2. CASE t = a
    <3>1. IsWalk(W[a], a)
      BY <1>1 DEF WalksAre
    <3>2. V[a][1] = a
      BY <1>7, <1>9, <3>1 DEF IsWalk
    <3>3. ASSUME NEW k \in 1 .. n PROVE child'[V[a][k]] = V[a][k + 1]
      <4>1. CASE k = n
        BY <1>5, <1>7, <1>9, <4>1
      <4>2. CASE k # n
        <5>1. k \in 1 .. n - 1 /\ k + 1 \in 1 .. n /\ k \in 1 .. n
          BY <1>7, <4>2
        <5>2. W[a][k] \in Live /\ W[a][k] # r
          BY <1>7, <1>11, <4>2, <5>1
        <5>3. child'[W[a][k]] = W[a][k + 1]
          BY <1>4, <3>1, <5>1, <5>2 DEF IsWalk
        <5> QED
          BY <1>9, <5>1, <5>3
      <4> QED
        BY <4>1, <4>2
    <3>4. Len(V[a]) > 0 /\ Len(V[a]) - 1 = n /\ child'[V[a][Len(V[a])]] = NoTask
      BY <1>5, <1>7, <1>9
    <3> QED
      BY <2>2, <3>2, <3>3, <3>4 DEF IsWalk
  <2> QED
    BY <2>1, <2>2
<1>13. ASSUME NEW t \in Terminals, NEW u \in Terminals,
              NEW i \in 1 .. Len(V[t]), NEW j \in 1 .. Len(V[u]), V[t][i] = V[u][j]
       PROVE  t = u /\ i = j
  <2>1. \A v \in Terminals : \A k \in 1 .. Len(W[v]) : W[v][k] # new
    BY <1>1, <1>6
  <2>2. \A v \in Terminals : \A k \in 1 .. Len(V[v]) :
          \/ v = a /\ k = n + 1 /\ V[v][k] = new
          \/ k \in 1 .. Len(W[v]) /\ V[v][k] = W[v][k]
    <3> SUFFICES ASSUME NEW v \in Terminals, NEW k \in 1 .. Len(V[v])
                 PROVE  \/ v = a /\ k = n + 1 /\ V[v][k] = new
                        \/ k \in 1 .. Len(W[v]) /\ V[v][k] = W[v][k]
      OBVIOUS
    <3>1. CASE v = a
      <4>1. k = n + 1 \/ k \in 1 .. n
        BY <1>7, <1>9, <3>1
      <4> QED
        BY <1>9, <3>1, <4>1
    <3>2. CASE v # a
      BY <1>8, <3>2
    <3> QED
      BY <3>1, <3>2
  <2> QED
    BY <1>13, <2>1, <2>2 DEF WalksAre
<1>14. EndsOn(V[a], new)
  BY <1>7, <1>9 DEF EndsOn
<1>15. \A t \in Terminals : t \in Live'
  BY <1>1, <1>3
<1> QED
  BY <1>1, <1>3, <1>8, <1>10, <1>12, <1>13, <1>14, <1>15 DEF WalksAre

(* A program ends: its chain loses the last task. *)
LEMMA ReturnWalks ==
  ASSUME IInv, NEW W, WalksAre(W), mode # "idle", parent[tasks_running] # NoTask,
         NEW cause, NEW died, ReturnToParent(cause, died),
         NEW a \in Terminals, EndsOn(W[a], tasks_running),
         NEW V, V = [W EXCEPT ![a] = SubSeq(W[a], 1, Len(W[a]) - 1)]
  PROVE  /\ WalksAre(V)' /\ EndsOn(V[a], tasks_running')
         /\ Len(W[a]) > 1 /\ tasks_running' # NoTask
<1> DEFINE c == tasks_running
           p == parent[c]
           n == Len(W[a])
<1> USE DEF IInv
<1>1. c \in Live /\ c \in Tasks /\ c # NoTask
  BY TasksFacts DEF Started, RunningIsLeaf, Live
<1>2. c \notin Terminals /\ p \in Live /\ p \in Tasks /\ p # NoTask /\ child[p] = c /\ p # c
  <2>1. ~(c < TERMINAL_COUNT) /\ p \in Live /\ p \in Tasks /\ child[p] = c
    BY <1>1 DEF TaskTree, Live
  <2>2. c \notin Terminals
    BY <2>1, SizesAssumption DEF Terminals
  <2>3. child[c] = NoTask
    BY <1>1 DEF RunningIsLeaf
  <2> QED
    BY <1>1, <2>1, <2>2, <2>3, TasksFacts
<1>3. Live' = Live \ {c} /\ tasks_running' = p /\ child' = [child EXCEPT ![p] = NoTask]
  BY <1>1 DEF ReturnToParent, UnlinkChild, TypeOK, Live
<1>4. (\A u \in Tasks : u # p => child'[u] = child[u]) /\ child'[p] = NoTask
  BY <1>2, <1>3 DEF TypeOK
<1>5. \A t \in Terminals : W[t] \in Seq(Live)
  BY DEF WalksAre
<1>6. n \in Nat \ {0} /\ W[a][n] = c /\ W[a] \in Seq(Live)
  BY <1>5 DEF EndsOn
<1>7. IsWalk(W[a], a)
  <2>1. a \in Live
    BY <1>6 DEF WalksAre
  <2> QED
    BY <2>1 DEF WalksAre
<1>8. n - 1 \in Nat \ {0} /\ n - 1 \in 1 .. n - 1 /\ n - 1 \in 1 .. n
  <2>1. n # 1
    BY <1>2, <1>6, <1>7 DEF IsWalk
  <2> HIDE DEF n
  <2> QED
    BY <1>6, <2>1
<1>9. W[a][n - 1] = p
  <2>1. W[a][n - 1] \in Live /\ child[W[a][n - 1]] = c
    <3>1. child[W[a][n - 1]] = W[a][(n - 1) + 1] /\ (n - 1) + 1 = n
      BY <1>6, <1>7, <1>8 DEF IsWalk
    <3> QED
      BY <1>6, <1>8, <3>1
  <2> QED
    BY <1>1, <2>1 DEF TaskTree
<1>10. /\ DOMAIN V = Terminals /\ V[a] = SubSeq(W[a], 1, n - 1)
       /\ \A t \in Terminals : t # a => V[t] = W[t]
  BY DEF WalksAre
<1>11. Len(V[a]) = n - 1 /\ V[a] \in Seq(Live) /\ \A k \in 1 .. n - 1 : V[a][k] = W[a][k]
  <2> HIDE DEF n
  <2>1. n = Len(W[a])
    BY DEF n
  <2> QED
    BY <1>6, <1>8, <1>10, <2>1
<1>12. \A t \in Terminals : \A k \in 1 .. Len(V[t]) :
         k \in 1 .. Len(W[t]) /\ V[t][k] = W[t][k] /\ (t = a => k # n)
  <2> SUFFICES ASSUME NEW t \in Terminals, NEW k \in 1 .. Len(V[t])
               PROVE  k \in 1 .. Len(W[t]) /\ V[t][k] = W[t][k] /\ (t = a => k # n)
    OBVIOUS
  <2>1. CASE t = a
    <3>1. k \in 1 .. n - 1 /\ k \in 1 .. n /\ k # n
      BY <1>6, <1>11, <2>1
    <3> QED
      BY <1>11, <2>1, <3>1
  <2>2. CASE t # a
    BY <1>10, <2>2
  <2> QED
    BY <2>1, <2>2
<1>13. n \in 1 .. Len(W[a])
  BY <1>6
<1>14. \A t \in Terminals : \A k \in 1 .. Len(V[t]) : V[t][k] \in Live /\ V[t][k] # c
  <2> SUFFICES ASSUME NEW t \in Terminals, NEW k \in 1 .. Len(V[t])
               PROVE  V[t][k] \in Live /\ V[t][k] # c
    OBVIOUS
  <2>1. k \in 1 .. Len(W[t]) /\ V[t][k] = W[t][k] /\ (t = a => k # n)
    BY <1>12
  <2>2. W[t][k] \in Live
    BY <1>5, <2>1
  <2> QED
    BY <1>6, <1>13, <2>1, <2>2 DEF WalksAre
<1>15. \A t \in Terminals : V[t] \in Seq(Live')
  <2> SUFFICES ASSUME NEW t \in Terminals PROVE V[t] \in Seq(Live')
    OBVIOUS
  <2>1. V[t] \in Seq(Live)
    BY <1>5, <1>10, <1>11
  <2>2. \A k \in 1 .. Len(V[t]) : V[t][k] \in Live'
    BY <1>3, <1>14
  <2> QED
    BY <2>1, <2>2, Narrowed
<1>16. ASSUME NEW t \in Terminals PROVE IF t \in Live' THEN IsWalk(V[t], t)' ELSE V[t] = <<>>
  <2>1. t \in Live' <=> t \in Live
    BY <1>2, <1>3
  <2>2. CASE t = a
    <3>1. V[a][1] = a /\ Len(V[a]) > 0 /\ V[a][Len(V[a])] = p /\ a \in Live
      <4>1. 1 \in 1 .. n - 1
        BY <1>8
      <4>2. a \in Live
        BY <1>6, <1>7, <1>13 DEF WalksAre
      <4> QED
        BY <1>7, <1>8, <1>9, <1>11, <4>1, <4>2 DEF IsWalk
    <3>2. ASSUME NEW k \in 1 .. Len(V[a]) - 1 PROVE child'[V[a][k]] = V[a][k + 1]
      <4>1. k \in 1 .. n - 1 /\ k + 1 \in 1 .. n - 1 /\ k # n - 1 /\ k \in 1 .. n
        BY <1>8, <1>11
      <4>2. W[a][k] # p
        BY <1>8, <1>9, <4>1 DEF WalksAre
      <4>3. W[a][k] \in Tasks
        BY <1>6, <4>1 DEF Live
      <4>4. child'[W[a][k]] = W[a][k + 1]
        BY <1>4, <1>7, <4>1, <4>2, <4>3 DEF IsWalk
      <4> QED
        BY <1>11, <4>1, <4>4
    <3> QED
      BY <1>4, <2>1, <2>2, <3>1, <3>2 DEF IsWalk
  <2>3. CASE t # a /\ t \in Live
    <3>1. \A k \in 1 .. Len(W[t]) : W[t][k] # p
      BY <1>8, <1>9, <2>3 DEF WalksAre
    <3>2. \A k \in 1 .. Len(W[t]) : W[t][k] \in Tasks
      <4>1. \A k \in 1 .. Len(W[t]) : W[t][k] \in Live
        BY <1>5
      <4> QED
        BY <4>1 DEF Live
    <3>3. \A k \in 1 .. Len(W[t]) : child'[W[t][k]] = child[W[t][k]]
      BY <1>4, <3>1, <3>2
    <3>4. IsWalk(W[t], t)' /\ V[t] = W[t]
      BY <1>10, <2>3, <3>3, WalkKept
    <3> QED
      BY <2>1, <2>3, <3>4
  <2>4. CASE t # a /\ t \notin Live
    BY <1>10, <2>1, <2>4 DEF WalksAre
  <2> QED
    BY <2>2, <2>3, <2>4
<1>17. ASSUME NEW t \in Terminals, NEW u \in Terminals,
              NEW i \in 1 .. Len(V[t]), NEW j \in 1 .. Len(V[u]), V[t][i] = V[u][j]
       PROVE  t = u /\ i = j
  <2>1. i \in 1 .. Len(W[t]) /\ j \in 1 .. Len(W[u]) /\ W[t][i] = W[u][j]
    BY <1>12, <1>17
  <2> QED
    BY <2>1 DEF WalksAre
<1>18. EndsOn(V[a], tasks_running')
  BY <1>3, <1>8, <1>9, <1>11 DEF EndsOn
<1>19. n > 1
  BY <1>8
<1> QED
  BY <1>2, <1>3, <1>10, <1>15, <1>16, <1>17, <1>18, <1>19 DEF WalksAre

(* Another step leaves the chains alone, and the task that runs then ends  *)
(* one.                                                                    *)
LEMMA OtherWalks ==
  ASSUME IInv, NEW W, WalksAre(W), UNCHANGED <<task_slots, child>>,
         \/ tasks_running' = tasks_running
         \/ \E t \in Terminals : t \in Live /\ tasks_running' = find_bottom_task(t)
  PROVE  WalksAre(W)'
<1> USE DEF IInv
<1>1. Live' = Live
  BY DEF Live
<1>2. tasks_running' # NoTask => \E t \in Terminals : EndsOn(W[t], tasks_running')
  <2>1. CASE tasks_running' = tasks_running
    BY <2>1 DEF WalksAre
  <2>2. CASE \E t \in Terminals : t \in Live /\ tasks_running' = find_bottom_task(t)
    BY <2>2, BottomEnds
  <2> QED
    BY <2>1, <2>2
<1>3. \A t \in Terminals : IF t \in Live' THEN IsWalk(W[t], t)' ELSE W[t] = <<>>
  BY <1>1 DEF WalksAre, IsWalk
<1> QED
  BY <1>1, <1>2, <1>3 DEF WalksAre
-----------------------------------------------------------------------------
(* What each of them is for Processes. *)
stacks == [t \in Terminals |-> Stacked(t)]

LEMMA MappedNext == (\A W : MappedBy(W))'
BY Mapped, PTL

LEMMA StacksAre ==
  ASSUME TypeOK, NEW W, WalksAre(W)
  PROVE  stacks = [t \in Terminals |-> Loaded(W[t])]
BY Mapped DEF stacks, MappedBy

LEMMA StacksNext ==
  ASSUME TypeOK', NEW V, WalksAre(V)'
  PROVE  stacks' = [t \in Terminals |-> Loaded(V[t])']
<1>1. \A t \in Terminals : Stacked(t)' = Loaded(V[t])'
  BY MappedNext DEF MappedBy
<1> QED
  BY <1>1 DEF stacks

LEMMA ActiveIs ==
  ASSUME TypeOK, NEW W, WalksAre(W), NEW t \in Terminals, tasks_running # NoTask, EndsOn(W[t], tasks_running)
  PROVE  ActiveTerminal = t
BY Mapped DEF MappedBy

LEMMA ActiveNext ==
  ASSUME TypeOK', NEW V, WalksAre(V)', NEW t \in Terminals,
         tasks_running' # NoTask, EndsOn(V[t], tasks_running')
  PROVE  ActiveTerminal' = t
BY MappedNext DEF MappedBy, EndsOn

(* Programs of tasks that keep theirs. *)
LEMMA LoadedKept ==
  ASSUME NEW p, \A k \in 1 .. Len(p) : prog'[p[k]] = prog[p[k]]
  PROVE  Loaded(p)' = Loaded(p)
BY DEF Loaded

LEMMA HasStarted ==
  ASSUME NEW W, WalksAre(W), NEW t \in Terminals
  PROVE  t \in Live <=> Loaded(W[t]) # <<>>
<1>1. W[t] \in Seq(Live)
  BY DEF WalksAre
<1>2. CASE t \in Live
  <2>1. Len(W[t]) > 0
    BY <1>2 DEF WalksAre, IsWalk
  <2>2. Len(Loaded(W[t])) = Len(W[t])
    BY <1>1 DEF Loaded
  <2> QED
    BY <1>2, <2>1, <2>2
<1>3. CASE t \notin Live
  <2>1. Len(W[t]) = 0
    BY <1>3 DEF WalksAre
  <2> QED
    BY <1>3, <2>1 DEF Loaded
<1> QED
  BY <1>2, <1>3

LEMMA StartStep ==
  ASSUME TypeOK, TypeOK', NEW W, WalksAre(W), NEW V, WalksAre(V)',
         NEW new \in Terminals, new \notin Live, \A u \in Terminals : u < new => u \in Live,
         V = [W EXCEPT ![new] = <<new>>], tasks_running' = new, EndsOn(V[new], new),
         NEW p \in Programs, prog' = [prog EXCEPT ![new] = p]
  PROVE  Service!Start(new, p)
<1>1. stacks = [t \in Terminals |-> Loaded(W[t])]
  BY StacksAre
<1>2. stacks' = [t \in Terminals |-> Loaded(V[t])']
  BY StacksNext
<1>3. /\ V[new] = <<new>> /\ Len(V[new]) = 1 /\ V[new][1] = new
      /\ \A t \in Terminals : t # new => V[t] = W[t]
  BY DEF WalksAre
<1>4. prog'[new] = p /\ \A u \in Live : prog'[u] = prog[u]
  BY TasksFacts DEF TypeOK, Live
<1>5. Loaded(V[new])' = <<p>>
  <2>1. Loaded(V[new])' = [k \in 1 .. 1 |-> prog'[V[new][k]]]
    BY <1>3 DEF Loaded
  <2>2. \A k \in 1 .. 1 : prog'[V[new][k]] = p
    BY <1>3, <1>4
  <2>3. <<p>> = [k \in 1 .. 1 |-> p]
    OBVIOUS
  <2> QED
    BY <2>1, <2>2, <2>3
<1>6. ASSUME NEW t \in Terminals, t # new PROVE Loaded(V[t])' = Loaded(W[t])
  <2>1. W[t] \in Seq(Live) /\ V[t] = W[t]
    BY <1>3, <1>6 DEF WalksAre
  <2>2. \A k \in 1 .. Len(W[t]) : prog'[W[t][k]] = prog[W[t][k]]
    BY <1>4, <2>1
  <2>3. Loaded(W[t])' = Loaded(W[t])
    BY <2>2, LoadedKept
  <2> QED
    BY <2>1, <2>3
<1>7. stacks' = [stacks EXCEPT ![new] = <<p>>]
  BY <1>1, <1>2, <1>5, <1>6
<1>8. \A t \in Terminals : t \in Live <=> stacks[t] # <<>>
  BY <1>1, HasStarted
<1>9. ActiveTerminal' = new
  <2>1. new # NoTask
    BY TasksFacts
  <2> QED
    BY <2>1, ActiveNext
<1>10. Service!Terminals = Terminals
  BY DEF Service!Terminals, Terminals
<1> QED
  BY <1>7, <1>8, <1>9, <1>10 DEF Service!Start, Service!Started, stacks

LEMMA CallStep ==
  ASSUME TypeOK, TypeOK', NEW W, WalksAre(W), NEW V, WalksAre(V)',
         Live # Tasks, NEW new, new \in Tasks, new \notin Live, Terminals \subseteq Live,
         NEW a \in Terminals, tasks_running # NoTask, EndsOn(W[a], tasks_running),
         V = [W EXCEPT ![a] = Append(W[a], new)], tasks_running' = new, EndsOn(V[a], new),
         NEW p \in Programs, prog' = [prog EXCEPT ![new] = p]
  PROVE  Service!Call(p)
<1>1. stacks = [t \in Terminals |-> Loaded(W[t])]
  BY StacksAre
<1>2. stacks' = [t \in Terminals |-> Loaded(V[t])']
  BY StacksNext
<1>3. W[a] \in Seq(Live) /\ V[a] = Append(W[a], new) /\ \A t \in Terminals : t # a => V[t] = W[t]
  BY DEF WalksAre
<1>4. prog'[new] = p /\ \A u \in Live : prog'[u] = prog[u]
  BY DEF TypeOK, Live
<1>5. ASSUME NEW t \in Terminals PROVE Loaded(W[t])' = Loaded(W[t])
  <2>1. W[t] \in Seq(Live)
    BY DEF WalksAre
  <2>2. \A k \in 1 .. Len(W[t]) : prog'[W[t][k]] = prog[W[t][k]]
    BY <1>4, <2>1
  <2> QED
    BY <2>2, LoadedKept
<1>6. Loaded(V[a])' = Append(Loaded(W[a]), p)
  <2> DEFINE n == Len(W[a])
             q == Loaded(W[a])
  <2>1. /\ n \in Nat /\ Len(V[a]) = n + 1 /\ V[a][n + 1] = new
        /\ \A k \in 1 .. n : V[a][k] = W[a][k]
    BY <1>3
  <2>2. q = [k \in 1 .. n |-> prog[W[a][k]]] /\ q = [k \in 1 .. n |-> prog'[W[a][k]]]
    BY <1>5 DEF Loaded
  <2>3. Loaded(V[a])' = [k \in 1 .. n + 1 |-> prog'[V[a][k]]]
    BY <2>1 DEF Loaded
  <2> HIDE DEF n, q
  <2>4. \A k \in 1 .. n : prog'[V[a][k]] = q[k]
    BY <2>1, <2>2
  <2>5. prog'[V[a][n + 1]] = p
    BY <1>4, <2>1
  <2>6. Append(q, p) = [k \in 1 .. n + 1 |-> IF k = n + 1 THEN p ELSE q[k]]
    <3>1. Len(q) = n /\ n \in Nat
      BY <2>1, <2>2
    <3> QED
      BY <2>2, <3>1
  <2>7. [k \in 1 .. n + 1 |-> prog'[V[a][k]]] = [k \in 1 .. n + 1 |-> IF k = n + 1 THEN p ELSE q[k]]
    <3>1. \A k \in 1 .. n + 1 : k # n + 1 => k \in 1 .. n
      BY <2>1
    <3> QED
      BY <2>4, <2>5, <3>1
  <2> QED
    BY <2>3, <2>6, <2>7 DEF q
<1>7. stacks' = [stacks EXCEPT ![a] = Append(@, p)]
  BY <1>1, <1>2, <1>3, <1>5, <1>6
<1>8. \A t \in Terminals : stacks[t] # <<>>
  BY <1>1, HasStarted
<1>9. ActiveTerminal = a
  BY ActiveIs
<1>10. ActiveTerminal' = a
  <2>1. new # NoTask
    BY TasksFacts
  <2> QED
    BY <2>1, ActiveNext
<1>11. Service!Terminals = Terminals
  BY DEF Service!Terminals, Terminals
<1>12. \A t \in Terminals : Service!Places(t) = {t} \X (1 .. Len(W[t]))
  <2>1. \A t \in Terminals : DOMAIN stacks[t] = 1 .. Len(W[t])
    BY <1>1 DEF Loaded
  <2> QED
    BY <2>1 DEF Service!Places, stacks
<1>13. Service!Load < MAX_TASKS
  <2> DEFINE slots == UNION {{t} \X (1 .. Len(W[t])) : t \in Terminals}
             used == UNION {Service!Places(t) : t \in Service!Terminals}
  <2>1. used = slots
    BY <1>11, <1>12
  <2>2. IsFiniteSet(slots) /\ Cardinality(slots) <= Cardinality(Live)
    BY WalksFit
  <2>3. Cardinality(Live) <= Cardinality(Tasks) /\ Cardinality(Live) # Cardinality(Tasks) /\ IsFiniteSet(Live)
    BY SizeOfTasks, FS_Subset DEF Live
  <2>4. Service!Load = Cardinality(used)
    BY DEF Service!Load, Service!Cardinality, Cardinality
  <2> HIDE DEF slots, used
  <2>5. Cardinality(slots) \in Nat /\ Cardinality(Live) \in Nat
    BY <2>2, <2>3, FS_CardinalityType
  <2> QED
    BY <2>1, <2>2, <2>3, <2>4, <2>5, SizeOfTasks, SizesAssumption
<1>14. \A t \in Service!Terminals : Service!Started(t)
  BY <1>8, <1>11 DEF Service!Started, stacks
<1>15. stacks' = [stacks EXCEPT ![ActiveTerminal] = Append(@, p)] /\ ActiveTerminal' = ActiveTerminal
  BY <1>7, <1>9, <1>10
<1> QED
  BY <1>13, <1>14, <1>15 DEF Service!Call, stacks

LEMMA ReturnStep ==
  ASSUME TypeOK, TypeOK', NEW W, WalksAre(W), NEW V, WalksAre(V)', UNCHANGED prog,
         NEW a \in Terminals, tasks_running # NoTask, EndsOn(W[a], tasks_running), Len(W[a]) > 1,
         tasks_running' # NoTask, EndsOn(V[a], tasks_running'),
         V = [W EXCEPT ![a] = SubSeq(W[a], 1, Len(W[a]) - 1)]
  PROVE  Service!Return
<1>1. stacks = [t \in Terminals |-> Loaded(W[t])]
  BY StacksAre
<1>2. stacks' = [t \in Terminals |-> Loaded(V[t])']
  BY StacksNext
<1>3. /\ W[a] \in Seq(Live) /\ V[a] = SubSeq(W[a], 1, Len(W[a]) - 1)
      /\ \A t \in Terminals : t # a => V[t] = W[t]
  BY DEF WalksAre
<1>4. \A p : Loaded(p)' = Loaded(p)
  BY DEF Loaded
<1>5. Loaded(V[a]) = Service!Front(Loaded(W[a])) /\ Len(Loaded(W[a])) > 1
  <2> DEFINE n == Len(W[a])
             q == Loaded(W[a])
  <2>1. /\ n \in Nat /\ n > 1 /\ Len(V[a]) = n - 1
        /\ \A k \in 1 .. n - 1 : V[a][k] = W[a][k]
    BY <1>3
  <2>2. q = [k \in 1 .. n |-> prog[W[a][k]]] /\ Loaded(V[a]) = [k \in 1 .. n - 1 |-> prog[V[a][k]]]
    BY <2>1 DEF Loaded
  <2> HIDE DEF n, q
  <2>3. Len(q) = n /\ SubSeq(q, 1, n - 1) = [k \in 1 .. n - 1 |-> q[k]]
    BY <2>1, <2>2
  <2>4. \A k \in 1 .. n - 1 : q[k] = prog[V[a][k]]
    BY <2>1, <2>2
  <2>5. SubSeq(q, 1, n - 1) = [k \in 1 .. n - 1 |-> prog[V[a][k]]]
    BY <2>3, <2>4
  <2>6. Loaded(V[a]) = Service!Front(q) /\ Len(q) > 1
    BY <2>1, <2>2, <2>3, <2>5 DEF Service!Front
  <2> QED
    BY <2>6 DEF q
<1>6. stacks' = [stacks EXCEPT ![a] = Service!Front(@)] /\ Len(stacks[a]) > 1
  BY <1>1, <1>2, <1>3, <1>4, <1>5
<1>7. ActiveTerminal = a /\ ActiveTerminal' = a
  BY ActiveIs, ActiveNext
<1>8. Service!Terminals = Terminals
  BY DEF Service!Terminals, Terminals
<1> QED
  BY <1>6, <1>7, <1>8 DEF Service!Return, stacks

LEMMA SwitchStep ==
  ASSUME TypeOK, TypeOK', NEW W, WalksAre(W), WalksAre(W)', UNCHANGED <<task_slots, child, prog>>,
         tasks_running' # tasks_running, tasks_running' # NoTask
  PROVE  \E t \in Service!Terminals : Service!Switch(t)
<1>1. stacks = [t \in Terminals |-> Loaded(W[t])]
  BY StacksAre
<1>2. stacks' = [t \in Terminals |-> Loaded(W[t])']
  BY StacksNext
<1>3. stacks' = stacks
  <2>1. \A p : Loaded(p)' = Loaded(p)
    BY DEF Loaded
  <2> QED
    BY <1>1, <1>2, <2>1
<1>4. PICK t \in Terminals : EndsOn(W[t], tasks_running')
  BY DEF WalksAre
<1>5. ActiveTerminal' = t
  BY <1>4, ActiveNext
<1>6. stacks[t] # <<>>
  <2>1. Len(W[t]) > 0 /\ W[t] \in Seq(Live)
    BY <1>4 DEF EndsOn, WalksAre
  <2>2. Len(Loaded(W[t])) > 0
    BY <2>1 DEF Loaded
  <2> QED
    BY <1>1, <2>2
<1>7. t \in Service!Terminals
  BY DEF Service!Terminals, Terminals
<1> QED
  BY <1>3, <1>5, <1>6, <1>7 DEF Service!Switch, Service!Started, stacks

LEMMA StillStep ==
  ASSUME TypeOK, TypeOK', NEW W, WalksAre(W), WalksAre(W)',
         UNCHANGED <<task_slots, child, prog, tasks_running>>
  PROVE  UNCHANGED Service!vars
<1>1. \A t \in Terminals : Path(t)' = Path(t)
  BY DEF Path
<1>2. \A t \in Terminals : Stacked(t)' = Stacked(t)
  BY <1>1 DEF Stacked
<1>3. ActiveTerminal' = ActiveTerminal
  <2>1. CASE tasks_running = NoTask
    BY <2>1 DEF ActiveTerminal
  <2>2. CASE tasks_running # NoTask
    <3>1. PICK t \in Terminals : EndsOn(W[t], tasks_running)
      BY <2>2 DEF WalksAre
    <3>2. ActiveTerminal = t /\ ActiveTerminal' = t
      BY <2>2, <3>1, ActiveIs, ActiveNext
    <3> QED
      BY <3>2
  <2> QED
    BY <2>1, <2>2
<1> QED
  BY <1>2, <1>3 DEF Service!vars
-----------------------------------------------------------------------------
LEMMA WalkStart == Init => WalkInv
<1> SUFFICES ASSUME Init PROVE WalkInv
  OBVIOUS
<1>1. PICK W : W = [t \in Terminals |-> <<>>]
  OBVIOUS
<1>2. Live = {} /\ tasks_running = NoTask
  BY DEF Init, Live
<1>3. WalksAre(W)
  BY <1>1, <1>2 DEF WalksAre
<1> QED
  BY <1>3 DEF WalkInv

LEMMA ServiceStart == Init => Service!Init
<1> SUFFICES ASSUME Init PROVE Service!Init
  OBVIOUS
<1>1. \A t \in Terminals : Stacked(t) = <<>>
  <2> SUFFICES ASSUME NEW t \in Terminals PROVE Stacked(t) = <<>>
    OBVIOUS
  <2>1. task_slots[t] = 0
    BY TasksFacts DEF Init
  <2>2. Path(t) = <<>>
    BY <2>1 DEF Path
  <2> QED
    BY <2>2 DEF Stacked
<1>2. ActiveTerminal = -1
  BY DEF Init, ActiveTerminal
<1>3. Service!Terminals = Terminals
  BY DEF Service!Terminals, Terminals
<1> QED
  BY <1>1, <1>2, <1>3 DEF Service!Init

(* Every step: the chains move, and so do the stacks. *)
LEMMA ServiceStep ==
  ASSUME IInv, IInv', WalkInv, [Next]_vars
  PROVE  WalkInv' /\ [Service!Next]_(Service!vars)
<1> PICK W : WalksAre(W)
  BY DEF WalkInv
<1>0. TypeOK /\ TypeOK'
  BY DEF IInv
<1>1. ASSUME NEW p \in Programs, NEW if \in BOOLEAN, Live # Tasks, Launch(p, if),
             find_open_task >= TERMINAL_COUNT => tasks_running \in Live
      PROVE  WalkInv' /\ Service!Next
  <2>1. PICK new : new = find_open_task
    OBVIOUS
  <2>2. new \in Tasks \ Live /\ new \in Int /\ TERMINAL_COUNT \in Int
    <3>1. new \in Tasks \ Live
      BY <1>1, <2>1, FindOpenTask
    <3> QED
      BY <3>1, TasksFacts, SizesAssumption
  <2>3. prog' = [prog EXCEPT ![new] = p] /\ tasks_running' = new
    BY <1>1, <2>1 DEF Launch
  <2>4. CASE new < TERMINAL_COUNT
    <3>1. PICK V : V = [W EXCEPT ![new] = <<new>>]
      OBVIOUS
    <3>2. /\ WalksAre(V)'
          /\ new \in Terminals /\ new \notin Live /\ EndsOn(V[new], new)
          /\ \A u \in Terminals : u < new => u \in Live
      BY <1>1, <2>1, <2>4, <3>1, BaseWalks
    <3>3. Service!Start(new, p)
      BY <1>0, <2>3, <3>1, <3>2, StartStep
    <3>4. new \in Service!Terminals
      BY <3>2 DEF Service!Terminals, Terminals
    <3> QED
      BY <3>2, <3>3, <3>4 DEF WalkInv, Service!Next
  <2>5. CASE ~(new < TERMINAL_COUNT)
    <3>1. tasks_running \in Live /\ tasks_running # NoTask
      BY <1>1, <2>1, <2>2, <2>5, TasksFacts DEF Live
    <3>2. PICK a \in Terminals : EndsOn(W[a], tasks_running)
      BY <3>1 DEF WalksAre
    <3>3. PICK V : V = [W EXCEPT ![a] = Append(W[a], new)]
      OBVIOUS
    <3>4. WalksAre(V)' /\ EndsOn(V[a], new) /\ new \notin Live /\ Terminals \subseteq Live
      BY <1>1, <2>1, <2>5, <3>1, <3>2, <3>3, CallWalks
    <3>5. Service!Call(p)
      BY <1>0, <1>1, <2>2, <2>3, <3>1, <3>2, <3>3, <3>4, CallStep
    <3> QED
      BY <3>4, <3>5 DEF WalkInv, Service!Next
  <2> QED
    BY <2>4, <2>5
<1>2. ASSUME NEW cause \in Causes, NEW died \in BOOLEAN,
             mode # "idle", parent[tasks_running] # NoTask, ReturnToParent(cause, died)
      PROVE  WalkInv' /\ Service!Next
  <2>1. tasks_running # NoTask /\ UNCHANGED prog
    BY <1>2 DEF IInv, Started, ReturnToParent
  <2>2. PICK a \in Terminals : EndsOn(W[a], tasks_running)
    BY <2>1 DEF WalksAre
  <2>3. PICK V : V = [W EXCEPT ![a] = SubSeq(W[a], 1, Len(W[a]) - 1)]
    OBVIOUS
  <2>4. WalksAre(V)' /\ EndsOn(V[a], tasks_running') /\ Len(W[a]) > 1 /\ tasks_running' # NoTask
    BY <1>2, <2>2, <2>3, ReturnWalks
  <2>5. Service!Return
    BY <1>0, <2>1, <2>2, <2>3, <2>4, ReturnStep
  <2> QED
    BY <2>4, <2>5 DEF WalkInv, Service!Next
<1>3. ASSUME UNCHANGED <<task_slots, child, prog>>,
             \/ tasks_running' = tasks_running
             \/ \E t \in Terminals : t \in Live /\ tasks_running' = find_bottom_task(t)
      PROVE  WalkInv' /\ [Service!Next]_(Service!vars)
  <2>1. WalksAre(W)'
    BY <1>3, OtherWalks
  <2>2. CASE tasks_running' = tasks_running
    BY <1>0, <1>3, <2>1, <2>2, StillStep DEF WalkInv
  <2>3. CASE tasks_running' # tasks_running
    <3>1. tasks_running' # NoTask
      <4>1. PICK t \in Terminals : t \in Live /\ tasks_running' = find_bottom_task(t)
        BY <1>3, <2>3
      <4>2. find_bottom_task(t) \in Live
        BY <4>1, BottomEnds DEF IInv
      <4> QED
        BY <4>1, <4>2, TasksFacts DEF Live
    <3>2. \E t \in Service!Terminals : Service!Switch(t)
      BY <1>0, <1>3, <2>1, <2>3, <3>1, SwitchStep
    <3> QED
      BY <2>1, <3>2 DEF WalkInv, Service!Next
  <2> QED
    BY <2>2, <2>3
<1> QED
  BY <1>1, <1>2, <1>3, StepCases

(* execute, halt, the terminal switch and the scheduler's ticks are        *)
(* nothing but starts, calls, returns and switches of the terminals'       *)
(* stacks of programs (system_call.c, scheduler.c, keyboard.c): the table  *)
(* loses no program, gives none to another terminal, and lets only the     *)
(* program on top of the active terminal's stack call or return.           *)
THEOREM ServiceCorrect == Spec => Implements
<1>1. IInv /\ IInv' /\ WalkInv /\ [Next]_vars => WalkInv' /\ [Service!Next]_(Service!vars)
  BY ServiceStep
<1> QED
  BY <1>1, WalkStart, ServiceStart, Invariance, PTL DEF Spec, Implements, Service!Spec
=============================================================================
