--------------------------- MODULE ProcessProofs ---------------------------
(***************************************************************************)
(* Proofs about Sched, for every number of tasks and processes: the        *)
(* inductive invariant IInv, the safety invariants it contains and the     *)
(* action property RunsOnlyWhenReady; and about Spawn, for any number of   *)
(* processes: no exit of a child is lost and nobody reaps what is not his. *)
(***************************************************************************)
EXTENDS Spawn, TLAPS

----------------------------------------------------------------------------
(* The scheduler                                                           *)

\* The bootstrap task and process are always there to fall back to.
BootstrapKept ==
    /\ tproc[BOOT] = BOOT
    /\ pstate[BOOT] = "alive"
    /\ tstate[BOOT] \in {"ready", "running"}

\* An unfinished task's process is alive, and no task's process is gone.
NoOrphanTask ==
    \A t \in LiveTasks :
        /\ pstate[tproc[t]] # "none"
        /\ tstate[t] # "finished" => process_is_alive(tproc[t])

\* Every process has a task.
NoIdleProcess == \A p \in Pid : pstate[p] # "none" => TasksOf(p) # {}

\* A spawned process has at most one task.
OneTaskPerProcess ==
    \A t, u \in LiveTasks : tproc[t] = tproc[u] /\ tproc[t] # BOOT => t = u

\* The inductive invariant: the checked invariants and what they need of the
\* bootstrap task, of tasks without a process and of processes without a task.
IInv ==
    /\ TypeOK
    /\ OneRunning
    /\ ActiveSpaceAlive
    /\ NoOrphanTask
    /\ NoIdleProcess
    /\ FreshIds
    /\ NoFaultNoHalt
    /\ PreemptionClosed
    /\ BootstrapKept
    /\ OneTaskPerProcess

\* What selection returns: a READY task of the right kind, alive, not from.
LEMMA SelectionSound ==
    ASSUME NEW next, NEW kind, NEW from, IsNext(next, kind, from)
    PROVE  /\ next \in TaskId
           /\ next # from
           /\ tstate[next] = "ready"
           /\ tkind[next] = kind
           /\ pstate[tproc[next]] = "alive"
  BY DEF IsNext, Candidates, process_is_alive

\* The initial state satisfies the inductive invariant.
LEMMA InitIInv == Init => IInv
  <1> SUFFICES ASSUME Init PROVE IInv
    OBVIOUS
  <1> USE BoundsAssumption DEF BoundsAssumption, Init, AnyTask, TaskId, AnyPid, Pid, BOOT, TaskState,
          ContextKind, ProcState
  <1>1. TypeOK
    <2>1. /\ preemption_enabled \in BOOLEAN
          /\ boot_frame \in BOOLEAN
          /\ fault \in BOOLEAN
          /\ halted \in BOOLEAN
      BY Zenon
    <2>2. /\ tstate \in [AnyTask -> TaskState]
          /\ tproc \in [AnyTask -> AnyPid]
          /\ tkind \in [AnyTask -> ContextKind]
          /\ pstate \in [AnyPid -> ProcState]
      OBVIOUS
    <2>3. /\ current_task \in AnyTask
          /\ current_process \in AnyPid
          /\ next_task_id \in 1 .. TaskIdMax + 1
          /\ next_pid \in 1 .. PidMax + 1
      OBVIOUS
    <2> QED
      BY <2>1, <2>2, <2>3 DEF TypeOK
  <1>2. OneRunning /\ ActiveSpaceAlive /\ NoFaultNoHalt /\ BootstrapKept
    BY DEF OneRunning, ActiveSpaceAlive, NoFaultNoHalt, BootstrapKept, process_is_alive
  <1>3. LiveTasks = {}
    BY DEF LiveTasks
  <1>4. NoOrphanTask /\ NoIdleProcess /\ FreshIds /\ PreemptionClosed /\ OneTaskPerProcess
    BY <1>3 DEF NoOrphanTask, NoIdleProcess, FreshIds, PreemptionClosed, OneTaskPerProcess
  <1> QED
    BY <1>1, <1>2, <1>4 DEF IInv

\* A switch from the current task to a READY task of a live process, the
\* current one left in state s, keeps the invariant.
LEMMA SwitchKeepsIInv ==
    ASSUME IInv, NEW next \in AnyTask, NEW s \in {"ready", "blocked", "finished"},
           next # current_task, tstate[next] = "ready",
           pstate[tproc[next]] = "alive",
           current_task = BOOT => s = "ready",
           preemption_enabled => s # "blocked",
           current_task # BOOT /\ preemption_enabled => boot_frame',
           next # BOOT /\ preemption_enabled => boot_frame',
           SwitchTo(next, [tstate EXCEPT ![current_task] = s]),
           UNCHANGED <<tproc, tkind, next_task_id, pstate, next_pid, fault, halted,
                       preemption_enabled>>,
           boot_frame' \in BOOLEAN
    PROVE  IInv'
  <1> USE DEF IInv, SwitchTo, AnyTask, TaskId, BOOT
  <1>0. tstate' = [t \in AnyTask |-> IF t = next THEN "running"
                                     ELSE IF t = current_task THEN s ELSE tstate[t]]
    BY DEF TypeOK
  <1>1. TypeOK'
    BY <1>0 DEF TypeOK, TaskState
  <1>2. OneRunning'
    BY <1>0 DEF OneRunning, TypeOK
  <1>3. ActiveSpaceAlive' /\ NoFaultNoHalt'
    BY DEF ActiveSpaceAlive, NoFaultNoHalt, process_is_alive
  <1>4. /\ \A t \in TaskId : tstate'[t] = "free" <=> tstate[t] = "free"
        /\ LiveTasks' = LiveTasks
    BY <1>0 DEF LiveTasks, OneRunning, TypeOK
  <1>5. NoOrphanTask'
    BY <1>0, <1>4 DEF NoOrphanTask, process_is_alive, ActiveSpaceAlive, LiveTasks
  <1>6. FreshIds' /\ NoIdleProcess'
    BY <1>4 DEF FreshIds, NoIdleProcess, TasksOf
  <1>7. PreemptionClosed'
    BY <1>0, <1>4 DEF PreemptionClosed, LiveTasks
  <1>8. BootstrapKept'
    BY <1>0, BoundsAssumption DEF BootstrapKept, BoundsAssumption
  <1>9. OneTaskPerProcess'
    BY <1>4 DEF OneTaskPerProcess
  <1> QED
    BY <1>1, <1>2, <1>3, <1>5, <1>6, <1>7, <1>8, <1>9

\* Freeing the FINISHED tasks S and the processes D keeps the invariant when
\* neither has the CPU, D are the processes of S and no other process loses its
\* task.
LEMMA FreeKeepsIInv ==
    ASSUME IInv, NEW S \in SUBSET LiveTasks, NEW D \in SUBSET Pid,
           \A t \in S : tstate[t] = "finished" /\ t # current_task,
           \A t \in LiveTasks : t \in S <=> (tproc[t] \in D \/ (t \in S /\ tproc[t] = BOOT)),
           current_process \notin D,
           tstate' = [t \in AnyTask |-> IF t \in S THEN "free" ELSE tstate[t]],
           pstate' = [p \in AnyPid |-> IF p \in D THEN "none" ELSE pstate[p]],
           UNCHANGED <<tproc, tkind, current_task, next_task_id, current_process, next_pid,
                       modeVars>>
    PROVE  IInv'
  <1> USE BoundsAssumption DEF BoundsAssumption, IInv, modeVars, AnyTask, TaskId, AnyPid, Pid, BOOT
  <1>1. LiveTasks' = LiveTasks \ S
        /\ \A t \in LiveTasks' : tstate'[t] = tstate[t]
    BY DEF LiveTasks
  <1>2. TypeOK'
    BY DEF TypeOK, TaskState, ProcState
  <1>3. OneRunning'
    BY DEF OneRunning, TypeOK
  <1>4. ActiveSpaceAlive' /\ NoFaultNoHalt' /\ BootstrapKept'
    BY DEF ActiveSpaceAlive, NoFaultNoHalt, BootstrapKept, process_is_alive, LiveTasks, TypeOK
  <1>5. \A t \in LiveTasks' : tproc[t] \in AnyPid /\ pstate'[tproc[t]] = pstate[tproc[t]]
    BY <1>1 DEF LiveTasks, TypeOK
  <1>6. NoOrphanTask'
    BY <1>1, <1>5 DEF NoOrphanTask, process_is_alive
  <1>7. NoIdleProcess'
    <2> SUFFICES ASSUME NEW p \in Pid, pstate'[p] # "none" PROVE TasksOf(p)' # {}
      BY DEF NoIdleProcess
    <2>1. p \notin D /\ pstate[p] # "none"
      OBVIOUS
    <2>2. PICK t \in LiveTasks : tproc[t] = p
      BY <2>1 DEF NoIdleProcess, TasksOf
    <2>3. t \in LiveTasks'
      BY <1>1, <2>1, <2>2
    <2> QED
      BY <2>2, <2>3 DEF TasksOf
  <1>8. PreemptionClosed' /\ OneTaskPerProcess'
    BY <1>1 DEF PreemptionClosed, OneTaskPerProcess
  <1>9. FreshIds'
    BY DEF FreshIds
  <1> QED
    BY <1>2, <1>3, <1>4, <1>6, <1>7, <1>8, <1>9

\* A task for the bootstrap process or for the process created with it keeps
\* the invariant.
LEMMA CreateKeepsIInv ==
    ASSUME IInv, NEW p \in AnyPid, NEW kind \in ContextKind,
           task_create_internal(p, kind, pstate'),
           \/ p = BOOT /\ UNCHANGED <<pstate, next_pid>>
           \/ p = next_pid /\ process_create,
           UNCHANGED <<current_task, current_process, modeVars>>
    PROVE  IInv'
  <1> USE BoundsAssumption
      DEF BoundsAssumption, IInv, task_create_internal, modeVars, AnyTask, TaskId, BOOT
  <1> DEFINE n == next_task_id
  <1>1. /\ n \in TaskId
        /\ tstate[n] = "free"
        /\ tproc' = [tproc EXCEPT ![n] = p]
        /\ tkind' = [tkind EXCEPT ![n] = kind]
        /\ tstate' = [tstate EXCEPT ![n] = "ready"]
    BY DEF TypeOK, FreshIds
  <1>2. LiveTasks' = LiveTasks \cup {n} /\ n \notin LiveTasks
    BY <1>1 DEF LiveTasks, TypeOK
  <1>3. \A t \in AnyTask : t # n => /\ tstate'[t] = tstate[t]
                                    /\ tproc'[t] = tproc[t]
                                    /\ tkind'[t] = tkind[t]
    BY <1>1 DEF TypeOK
  <1>4. /\ tstate'[n] = "ready"
        /\ tproc'[n] = p
        /\ tkind'[n] = kind
    BY <1>1 DEF TypeOK
  <1>5. current_task \in AnyTask /\ current_task # n
    BY <1>1 DEF TypeOK, OneRunning
  <1>6. /\ pstate' \in [AnyPid -> ProcState]
        /\ next_pid' \in 1 .. PidMax + 1
        /\ pstate'[p] = "alive"
        /\ \A q \in AnyPid : q # p => pstate'[q] = pstate[q]
        /\ p # BOOT => p \in Pid /\ pstate[p] = "none"
        /\ \A q \in Pid : q >= next_pid' => pstate'[q] = "none"
    <2>1. CASE p = BOOT /\ UNCHANGED <<pstate, next_pid>>
      BY <2>1 DEF TypeOK, FreshIds
    <2>2. CASE p = next_pid /\ process_create
      <3>1. p \in Pid /\ pstate[p] = "none"
        BY <2>2 DEF process_create, TypeOK, FreshIds, Pid
      <3>2. pstate' = [pstate EXCEPT ![p] = "alive"] /\ next_pid' = p + 1 /\ p <= PidMax
        BY <2>2 DEF process_create
      <3> QED
        BY <3>1, <3>2 DEF TypeOK, FreshIds, ProcState, AnyPid, Pid
    <2> QED
      BY <2>1, <2>2
  <1>7. TypeOK'
    BY <1>1, <1>6 DEF TypeOK, TaskState
  <1>8. OneRunning'
    BY <1>3, <1>4, <1>5 DEF OneRunning
  <1>9. ActiveSpaceAlive' /\ NoFaultNoHalt'
    BY <1>3, <1>5, <1>6 DEF ActiveSpaceAlive, NoFaultNoHalt, process_is_alive, TypeOK
  <1>10. BootstrapKept'
    BY <1>1, <1>3, <1>6 DEF BootstrapKept, AnyPid
  <1>11. \A t \in LiveTasks : tproc[t] \in AnyPid /\ (p # BOOT => tproc[t] # p)
    BY <1>6 DEF LiveTasks, NoOrphanTask, TypeOK
  <1>12. NoOrphanTask'
    BY <1>2, <1>3, <1>4, <1>6, <1>11 DEF NoOrphanTask, process_is_alive, LiveTasks
  <1>13. NoIdleProcess'
    <2> SUFFICES ASSUME NEW q \in Pid, pstate'[q] # "none" PROVE TasksOf(q)' # {}
      BY DEF NoIdleProcess
    <2>1. CASE q = p
      BY <2>1, <1>2, <1>4 DEF TasksOf
    <2>2. CASE q # p
      <3>1. pstate[q] # "none"
        BY <2>2, <1>6 DEF AnyPid, Pid
      <3>2. PICK t \in LiveTasks : tproc[t] = q
        BY <3>1 DEF NoIdleProcess, TasksOf
      <3> QED
        BY <3>2, <1>2, <1>3 DEF TasksOf, LiveTasks
    <2> QED
      BY <2>1, <2>2
  <1>14. FreshIds'
    BY <1>3, <1>6 DEF FreshIds, TypeOK
  <1>15. PreemptionClosed'
    BY DEF PreemptionClosed
  <1>16. OneTaskPerProcess'
    BY <1>2, <1>3, <1>4, <1>11 DEF OneTaskPerProcess, LiveTasks
  <1> QED
    BY <1>7, <1>8, <1>9, <1>10, <1>12, <1>13, <1>14, <1>15, <1>16

\* Waking a process keeps the invariant: under preemption nobody is BLOCKED.
LEMMA WakeKeepsIInv ==
    ASSUME IInv, NEW p \in Pid, task_wake_process(p)
    PROVE  IInv'
  <1> USE BoundsAssumption
      DEF BoundsAssumption, IInv, task_wake_process, Woken, procVars, modeVars,
          AnyTask, TaskId, BOOT
  <1>1. \A t \in AnyTask : \/ tstate'[t] = tstate[t]
                           \/ /\ t # BOOT
                              /\ tstate[t] = "blocked"
                              /\ tstate'[t] = "ready"
    OBVIOUS
  <1>2. LiveTasks' = LiveTasks
    BY <1>1 DEF LiveTasks
  <1>3. TypeOK'
    BY DEF TypeOK, TaskState
  <1>4. OneRunning'
    BY <1>1 DEF OneRunning, TypeOK
  <1>5. ActiveSpaceAlive' /\ NoFaultNoHalt'
    BY DEF ActiveSpaceAlive, NoFaultNoHalt, process_is_alive
  <1>6. BootstrapKept'
    BY <1>1 DEF BootstrapKept
  <1>7. NoOrphanTask' /\ NoIdleProcess' /\ FreshIds'
    BY <1>1, <1>2 DEF NoOrphanTask, NoIdleProcess, TasksOf, FreshIds, process_is_alive, LiveTasks
  <1>8. PreemptionClosed' /\ OneTaskPerProcess'
    BY <1>1, <1>2 DEF PreemptionClosed, OneTaskPerProcess, LiveTasks
  <1> QED
    BY <1>3, <1>4, <1>5, <1>6, <1>7, <1>8

\* The exit of a process keeps the invariant: the heir is a task of another,
\* live process, so the machine does not halt and CR3 leaves the tables of
\* the finished one.
LEMMA ExitKeepsIInv ==
    ASSUME IInv, task_exit_current_process
    PROVE  IInv'
  <1> USE BoundsAssumption DEF BoundsAssumption, AnyTask, TaskId, AnyPid, BOOT
  <1>1. PICK next \in AnyTask :
           /\ Heir(next, current_task)
           /\ IF process_is_alive(current_process) /\ tproc[next] # current_process
                THEN /\ pstate' = [pstate EXCEPT ![current_process] = "finished"]
                     /\ SwitchTo(next, [tstate EXCEPT ![current_task] = "finished"])
                     /\ halted' = FALSE
                ELSE /\ tstate' = [tstate EXCEPT ![current_task] = "finished"]
                     /\ halted' = TRUE
                     /\ UNCHANGED <<pstate, current_task, current_process>>
    BY DEF task_exit_current_process
  <1>2. /\ current_task # BOOT
        /\ current_process # BOOT
        /\ current_process = tproc[current_task]
        /\ current_task \in LiveTasks
        /\ tstate[current_task] = "running"
        /\ ~preemption_enabled
        /\ pstate[current_process] = "alive"
        /\ current_process \in AnyPid
    BY DEF IInv, task_exit_current_process, MayBlock, Executing, ActiveSpaceAlive,
           LiveTasks, TypeOK, process_is_alive
  <1>3. /\ next # current_task
        /\ tstate[next] = "ready"
        /\ pstate[tproc[next]] = "alive"
    <2>1. CASE IsNext(next, "coop", current_task)
      BY <2>1, SelectionSound
    <2>2. CASE next = BOOT
      BY <2>2, <1>2 DEF IInv, BootstrapKept, OneRunning
    <2> QED
      BY <2>1, <2>2, <1>1 DEF Heir
  <1>4. tproc[next] # current_process
    <2>1. CASE next = BOOT
      BY <2>1, <1>2 DEF IInv, BootstrapKept
    <2>2. CASE next # BOOT
      BY <2>2, <1>2, <1>3 DEF IInv, OneTaskPerProcess, LiveTasks
    <2> QED
      BY <2>1, <2>2
  <1>5. /\ pstate' = [pstate EXCEPT ![current_process] = "finished"]
        /\ SwitchTo(next, [tstate EXCEPT ![current_task] = "finished"])
        /\ halted' = FALSE
        /\ UNCHANGED <<tproc, tkind, next_task_id, next_pid, preemption_enabled,
                       boot_frame, fault>>
    BY <1>1, <1>2, <1>4 DEF process_is_alive, task_exit_current_process
  <1>6. tstate' = [t \in AnyTask |-> IF t = next THEN "running"
                                     ELSE IF t = current_task THEN "finished"
                                     ELSE tstate[t]]
    BY <1>3, <1>5 DEF SwitchTo, IInv, TypeOK
  <1>7. current_task' = next /\ current_process' = tproc[next]
    BY <1>5 DEF SwitchTo
  <1>8. LiveTasks' = LiveTasks
    BY <1>2, <1>3, <1>6 DEF LiveTasks
  <1>9. TypeOK'
    BY <1>5, <1>6, <1>7 DEF IInv, TypeOK, TaskState, ProcState
  <1>10. OneRunning'
    BY <1>6, <1>7 DEF IInv, OneRunning, TypeOK
  <1>11. ActiveSpaceAlive' /\ NoFaultNoHalt'
    BY <1>3, <1>4, <1>5, <1>7, <1>2
    DEF IInv, ActiveSpaceAlive, NoFaultNoHalt, process_is_alive, TypeOK
  <1>12. BootstrapKept'
    BY <1>2, <1>5, <1>6 DEF IInv, BootstrapKept, TypeOK
  <1>13. NoOrphanTask'
    <2> SUFFICES ASSUME NEW t \in LiveTasks
                 PROVE  /\ pstate'[tproc[t]] # "none"
                        /\ tstate'[t] # "finished" => pstate'[tproc[t]] = "alive"
      BY <1>5, <1>8 DEF NoOrphanTask, process_is_alive
    <2>1. CASE t = current_task
      BY <2>1, <1>2, <1>3, <1>5, <1>6 DEF IInv, TypeOK
    <2>2. CASE t # current_task
      <3>1. tproc[t] # current_process
        BY <2>2, <1>2 DEF IInv, OneTaskPerProcess
      <3> QED
        BY <3>1, <2>2, <1>3, <1>5, <1>6
        DEF IInv, NoOrphanTask, TypeOK, process_is_alive, LiveTasks
    <2> QED
      BY <2>1, <2>2
  <1>14. FreshIds' /\ NoIdleProcess'
    <2>1. FreshIds'
      BY <1>2, <1>3, <1>5, <1>6 DEF IInv, FreshIds, TypeOK, Pid
    <2>2. \A p \in Pid : pstate'[p] # "none" => pstate[p] # "none"
      BY <1>2, <1>5 DEF IInv, TypeOK, Pid
    <2>3. NoIdleProcess'
      BY <2>2, <1>5, <1>8 DEF IInv, NoIdleProcess, TasksOf
    <2> QED
      BY <2>1, <2>3
  <1>15. PreemptionClosed' /\ OneTaskPerProcess'
    BY <1>2, <1>5, <1>8 DEF IInv, PreemptionClosed, OneTaskPerProcess
  <1> QED
    BY <1>9, <1>10, <1>11, <1>12, <1>13, <1>14, <1>15 DEF IInv

\* One timer interrupt keeps the invariant; its fault branch is never taken.
LEMMA TickKeepsIInv ==
    ASSUME IInv, task_scheduler_tick
    PROVE  IInv'
  <1> USE BoundsAssumption DEF BoundsAssumption, AnyTask, TaskId, BOOT
  <1> DEFINE from == current_task
             none == Candidates("preempt", from) = {}
             fallback == none /\ Parked[from] = "finished"
  <1>1. /\ preemption_enabled
        /\ UNCHANGED <<tproc, tkind, next_task_id, pstate, next_pid, halted>>
    BY DEF task_scheduler_tick
  <1>2. TickValid
    BY <1>1 DEF IInv, TickValid, ActiveSpaceAlive, PreemptionClosed, OneRunning, LiveTasks,
                TypeOK, process_is_alive
  <1>3. /\ Parked \in [AnyTask -> TaskState]
        /\ Parked[from] = IF from = BOOT \/ tstate[from] = "running" THEN "ready"
                          ELSE tstate[from]
        /\ Parked = [tstate EXCEPT ![from] = Parked[from]]
        /\ Parked[from] \in {"ready", "finished"}
        /\ from = BOOT => Parked[from] = "ready"
    BY DEF IInv, Parked, TypeOK, TaskState, OneRunning
  <1>4. fallback => boot_frame
    BY <1>1, <1>3 DEF IInv, PreemptionClosed
  <1>5. /\ boot_frame' = (boot_frame \/ from = BOOT)
        /\ UNCHANGED <<fault, preemption_enabled>>
        /\ \/ /\ none
              /\ ~fallback
              /\ tstate' = [tstate EXCEPT ![from] = "running"]
              /\ UNCHANGED <<current_task, current_process>>
           \/ /\ fallback
              /\ SwitchTo(BOOT, Parked)
           \/ \E next \in TaskId : IsNext(next, "preempt", from) /\ SwitchTo(next, Parked)
    BY <1>2, <1>4 DEF task_scheduler_tick
  <1>6. /\ from # BOOT => boot_frame'
        /\ from = BOOT => boot_frame'
        /\ boot_frame' \in BOOLEAN
    BY <1>1, <1>5 DEF IInv, PreemptionClosed, TypeOK
  <1>7. CASE /\ none
             /\ ~fallback
             /\ tstate' = [tstate EXCEPT ![from] = "running"]
             /\ UNCHANGED <<current_task, current_process>>
    <2>1. tstate[from] = "running"
      BY <1>3, <1>7 DEF IInv, OneRunning, BootstrapKept
    <2>2. UNCHANGED <<tstate, tproc, tkind, next_task_id, pstate, next_pid, halted, fault,
                      preemption_enabled, current_task, current_process>>
      BY <2>1, <1>1, <1>5, <1>7 DEF IInv, TypeOK
    <2>3. LiveTasks' = LiveTasks
      BY <2>2 DEF LiveTasks
    <2>4. TypeOK'
      BY <2>2, <1>6 DEF IInv, TypeOK
    <2>5. PreemptionClosed'
      BY <2>2, <2>3, <1>6 DEF IInv, PreemptionClosed
    <2> QED
      BY <2>2, <2>3, <2>4, <2>5
      DEF IInv, OneRunning, ActiveSpaceAlive, NoOrphanTask, NoIdleProcess, TasksOf, FreshIds,
          NoFaultNoHalt, BootstrapKept, OneTaskPerProcess, process_is_alive
  <1>8. CASE fallback /\ SwitchTo(BOOT, Parked)
    <2>1. from # BOOT
      BY <1>3, <1>8
    <2>2. tstate[BOOT] = "ready" /\ pstate[tproc[BOOT]] = "alive"
      BY <2>1 DEF IInv, BootstrapKept, OneRunning
    <2>3. SwitchTo(BOOT, [tstate EXCEPT ![current_task] = "finished"])
      BY <1>3, <1>8
    <2>4. BOOT \in AnyTask
      OBVIOUS
    <2> HIDE DEF AnyTask, TaskId, BOOT
    <2> QED
      BY <2>1, <2>2, <2>3, <2>4, <1>1, <1>5, <1>6, SwitchKeepsIInv
  <1>9. CASE \E next \in TaskId : IsNext(next, "preempt", from) /\ SwitchTo(next, Parked)
    <2>1. PICK next \in TaskId : IsNext(next, "preempt", from) /\ SwitchTo(next, Parked)
      BY <1>9
    <2>2. /\ next # from
          /\ tstate[next] = "ready"
          /\ pstate[tproc[next]] = "alive"
          /\ next \in AnyTask
      BY <2>1, SelectionSound
    <2>3. PICK s \in {"ready", "finished"} : Parked[from] = s
      BY <1>3
    <2>4. SwitchTo(next, [tstate EXCEPT ![current_task] = s])
      BY <2>1, <2>3, <1>3
    <2>5. from = BOOT => s = "ready"
      BY <2>3, <1>3
    <2> HIDE DEF AnyTask, TaskId, BOOT
    <2> QED
      BY <2>2, <2>3, <2>4, <2>5, <1>1, <1>5, <1>6, SwitchKeepsIInv
  <1> QED
    BY <1>5, <1>7, <1>8, <1>9

\* Every step keeps the inductive invariant.
LEMMA NextIInv == IInv /\ [Next]_vars => IInv'
  <1> SUFFICES ASSUME IInv, [Next]_vars PROVE IInv'
    OBVIOUS
  <1> USE BoundsAssumption DEF BoundsAssumption
  <1>1. ASSUME NEW kind \in ContextKind, spawn(kind) PROVE IInv'
    <2>1. next_pid \in AnyPid
      BY <1>1 DEF spawn, process_create, IInv, TypeOK, AnyPid
    <2> QED
      BY <1>1, <2>1, CreateKeepsIInv DEF spawn
  <1>2. ASSUME NEW kind \in ContextKind, task_create(kind) PROVE IInv'
    <2>1. UNCHANGED <<pstate, next_pid, current_task, current_process, modeVars>>
      BY <1>2 DEF task_create, procVars
    <2>2. task_create_internal(BOOT, kind, pstate')
      BY <1>2, <2>1 DEF task_create
    <2>3. BOOT \in AnyPid
      BY DEF BOOT, AnyPid
    <2> QED
      BY <2>1, <2>2, <2>3, CreateKeepsIInv
  <1>3. ASSUME NEW p \in Pid, m36_reap_record(p) PROVE IInv'
    <2>1. /\ TasksOf(p) \in SUBSET LiveTasks
          /\ \A t \in LiveTasks : t \in TasksOf(p) <=> tproc[t] = p
          /\ p # BOOT
      BY DEF TasksOf, Pid, BOOT
    <2>2. pstate' = [q \in AnyPid |-> IF q \in {p} THEN "none" ELSE pstate[q]]
      BY <1>3 DEF m36_reap_record, task_reap_finished_process, process_destroy, IInv, TypeOK
    <2>3. /\ \A t \in LiveTasks : t \in TasksOf(p) <=>
                (tproc[t] \in {p} \/ (t \in TasksOf(p) /\ tproc[t] = BOOT))
          /\ \A t \in TasksOf(p) : tstate[t] = "finished" /\ t # current_task
          /\ current_process \notin {p} /\ {p} \in SUBSET Pid
      BY <1>3, <2>1 DEF m36_reap_record, task_reap_finished_process
    <2>4. tstate' = [t \in AnyTask |-> IF t \in TasksOf(p) THEN "free" ELSE tstate[t]]
      BY <1>3 DEF m36_reap_record, task_reap_finished_process
    <2>5. UNCHANGED <<tproc, tkind, current_task, next_task_id, current_process, next_pid,
                      modeVars>>
      BY <1>3 DEF m36_reap_record
    <2> QED
      BY <2>1, <2>2, <2>3, <2>4, <2>5, FreeKeepsIInv
  <1>4. ASSUME BootTeardown PROVE IInv'
    <2>1. /\ current_process = BOOT
          /\ \A t \in LiveTasks : tstate[t] = "finished" /\ t # current_task
          /\ LiveProcs \in SUBSET Pid
          /\ BOOT \notin LiveProcs
      BY <1>4 DEF BootTeardown, task_cleanup_finished, BootstrapHasCpu, LiveTasks, LiveProcs,
                  TaskId, Pid, BOOT, IInv, BootstrapKept
    <2>2. \A t \in LiveTasks : tproc[t] \in LiveProcs \/ tproc[t] = BOOT
      BY DEF IInv, TypeOK, NoOrphanTask, LiveTasks, LiveProcs, TaskId, AnyTask, Pid, AnyPid, BOOT
    <2>3. \A p \in LiveProcs : process_destroy(p, process_mark_finished(p, pstate))[p] = "none"
      BY <2>1 DEF process_destroy, process_mark_finished, LiveProcs, IInv, TypeOK, ProcState, Pid,
                  AnyPid
    <2>4. pstate' = [p \in AnyPid |-> IF p \in LiveProcs THEN "none" ELSE pstate[p]]
      BY <1>4, <2>3 DEF BootTeardown
    <2>5. tstate' = [t \in AnyTask |-> IF t \in LiveTasks THEN "free" ELSE tstate[t]]
      BY <1>4 DEF BootTeardown, task_cleanup_finished
    <2> QED
      BY <1>4, <2>1, <2>2, <2>4, <2>5, FreeKeepsIInv DEF BootTeardown
  <1>5. ASSUME NEW p \in Pid, task_wake_process(p) PROVE IInv'
    BY <1>5, WakeKeepsIInv
  <1>8. ASSUME task_yield PROVE IInv'
    <2>1. PICK next \in TaskId : /\ IsNext(next, "coop", current_task)
                                 /\ SwitchTo(next, [tstate EXCEPT ![current_task] = "ready"])
      BY <1>8 DEF task_yield
    <2>2. /\ next # current_task
          /\ tstate[next] = "ready"
          /\ pstate[tproc[next]] = "alive"
          /\ next \in AnyTask
      BY <2>1, SelectionSound DEF TaskId, AnyTask
    <2> QED
      BY <1>8, <2>1, <2>2, SwitchKeepsIInv DEF task_yield, modeVars, IInv, TypeOK
  <1>9. ASSUME task_block_current PROVE IInv'
    <2>1. PICK next \in TaskId : /\ IsNext(next, "coop", current_task)
                                 /\ SwitchTo(next, [tstate EXCEPT ![current_task] = "blocked"])
      BY <1>9 DEF task_block_current
    <2>2. /\ next # current_task
          /\ tstate[next] = "ready"
          /\ pstate[tproc[next]] = "alive"
          /\ next \in AnyTask
      BY <2>1, SelectionSound DEF TaskId, AnyTask
    <2> QED
      BY <1>9, <2>1, <2>2, SwitchKeepsIInv DEF task_block_current, MayBlock, modeVars, IInv, TypeOK
  <1>10. ASSUME task_exit_current_process PROVE IInv'
    BY <1>10, ExitKeepsIInv
  <1>11. ASSUME task_finish_cooperative PROVE IInv'
    <2>1. PICK next \in AnyTask :
             /\ Heir(next, current_task)
             /\ SwitchTo(next, [tstate EXCEPT ![current_task] = "finished"])
      BY <1>11 DEF task_finish_cooperative
    <2>2. current_task # BOOT
      BY <1>11 DEF task_finish_cooperative, MayBlock
    <2>3. /\ next # current_task
          /\ tstate[next] = "ready"
          /\ pstate[tproc[next]] = "alive"
      <3>1. CASE IsNext(next, "coop", current_task)
        BY <3>1, SelectionSound
      <3>2. CASE next = BOOT
        BY <3>2, <2>2 DEF IInv, BootstrapKept, OneRunning, BOOT, AnyTask
      <3> QED
        BY <2>1, <3>1, <3>2 DEF Heir
    <2> QED
      BY <1>11, <2>1, <2>2, <2>3, SwitchKeepsIInv
      DEF task_finish_cooperative, MayBlock, modeVars, IInv, TypeOK
  <1>12. ASSUME task_finish_preemptive PROVE IInv'
    <2> USE DEF IInv, task_finish_preemptive, Executing, procVars, modeVars, AnyTask,
                TaskId, BOOT
    <2>1. /\ \A t \in AnyTask : t # current_task => tstate'[t] = tstate[t]
          /\ tstate'[current_task] = "finished"
          /\ tstate[current_task] = "running"
      BY <1>12 DEF TypeOK
    <2>2. LiveTasks' = LiveTasks
      BY <1>12, <2>1 DEF LiveTasks
    <2>3. TypeOK'
      BY <1>12 DEF TypeOK, TaskState
    <2>4. OneRunning'
      BY <1>12, <2>1 DEF OneRunning, TypeOK
    <2>5. ActiveSpaceAlive' /\ NoFaultNoHalt' /\ BootstrapKept'
      BY <1>12, <2>1 DEF ActiveSpaceAlive, NoFaultNoHalt, BootstrapKept, process_is_alive
    <2>6. NoOrphanTask' /\ NoIdleProcess' /\ FreshIds'
      BY <1>12, <2>1, <2>2
      DEF NoOrphanTask, NoIdleProcess, TasksOf, FreshIds, process_is_alive, LiveTasks
    <2>7. PreemptionClosed' /\ OneTaskPerProcess'
      BY <1>12, <2>1, <2>2 DEF PreemptionClosed, OneTaskPerProcess, LiveTasks
    <2> QED
      BY <2>3, <2>4, <2>5, <2>6, <2>7
  <1>14. ASSUME task_preemption_start PROVE IInv'
    <2> USE DEF IInv, task_preemption_start, BootstrapHasCpu, taskVars, procVars
    <2>1. LiveTasks' = LiveTasks
      BY <1>14 DEF LiveTasks
    <2>2. TypeOK'
      BY <1>14 DEF TypeOK
    <2>3. PreemptionClosed'
      BY <1>14, <2>1 DEF PreemptionClosed
    <2> QED
      BY <1>14, <2>1, <2>2, <2>3
      DEF OneRunning, ActiveSpaceAlive, NoOrphanTask, NoIdleProcess, TasksOf, FreshIds,
          NoFaultNoHalt, BootstrapKept, OneTaskPerProcess, process_is_alive
  <1>15. ASSUME task_preemption_stop PROVE IInv'
    <2> USE DEF IInv, task_preemption_stop, BootstrapHasCpu, taskVars, procVars
    <2>1. LiveTasks' = LiveTasks
      BY <1>15 DEF LiveTasks
    <2>2. TypeOK'
      BY <1>15 DEF TypeOK
    <2> QED
      BY <1>15, <2>1, <2>2
      DEF OneRunning, ActiveSpaceAlive, NoOrphanTask, NoIdleProcess, TasksOf, FreshIds,
          NoFaultNoHalt, BootstrapKept, OneTaskPerProcess, PreemptionClosed, process_is_alive
  <1>16. ASSUME task_scheduler_tick PROVE IInv'
    BY <1>16, TickKeepsIInv
  <1>17. ASSUME UNCHANGED vars PROVE IInv'
    <2> USE <1>17 DEF vars, taskVars, procVars, modeVars, IInv
    <2>1. LiveTasks' = LiveTasks
      BY DEF LiveTasks
    <2> QED
      BY <2>1 DEF TypeOK, OneRunning, ActiveSpaceAlive, NoOrphanTask, NoIdleProcess, TasksOf,
                  FreshIds, NoFaultNoHalt, PreemptionClosed, BootstrapKept, OneTaskPerProcess,
                  process_is_alive
  <1> QED
    BY <1>1, <1>2, <1>3, <1>4, <1>5, <1>8, <1>9, <1>10, <1>11, <1>12, <1>14, <1>15, <1>16,
       <1>17 DEF Next

----------------------------------------------------------------------------

\* The inductive invariant holds in every reachable state.
THEOREM InductiveInvariant == Spec => []IInv
  BY InitIInv, NextIInv, PTL DEF Spec

\* Type correctness of the scheduler's state.
THEOREM TypeCorrect == Spec => []TypeOK
  BY InductiveInvariant, PTL DEF IInv

\* At most one task runs, and it is the one task.c calls current.
THEOREM OneRunningAlways == Spec => []OneRunning
  BY InductiveInvariant, PTL DEF IInv

\* The active address space is the running task's and is never a dead one.
THEOREM ActiveSpaceAliveAlways == Spec => []ActiveSpaceAlive
  BY InductiveInvariant, PTL DEF IInv

\* The task and the process registry agree: no task's process is gone, and the
\* reaper of a FINISHED process is never refused.
THEOREM RegistriesAgreeAlways == Spec => []RegistriesAgree
  <1>1. IInv => RegistriesAgree
    <2> SUFFICES ASSUME IInv PROVE RegistriesAgree
      OBVIOUS
    <2>1. \A t \in LiveTasks : pstate[tproc[t]] # "none"
      BY DEF IInv, NoOrphanTask
    <2>2. \A p \in Pid : pstate[p] # "none" => TasksOf(p) # {}
      BY DEF IInv, NoIdleProcess
    <2>3. ASSUME NEW p \in Pid, pstate[p] = "finished"
          PROVE  /\ p # current_process
                 /\ \A t \in TasksOf(p) : t # current_task /\ tstate[t] = "finished"
      BY <2>3 DEF IInv, NoOrphanTask, ActiveSpaceAlive, process_is_alive, TasksOf
    <2> QED
      BY <2>1, <2>2, <2>3 DEF RegistriesAgree
  <1> QED
    BY <1>1, InductiveInvariant, PTL

\* No identifier of a live object is handed out again.
THEOREM FreshIdsAlways == Spec => []FreshIds
  BY InductiveInvariant, PTL DEF IInv

\* The halting branch of task_exit_current_process and the fault branches of
\* task_scheduler_tick are dead code under the callers' discipline.
THEOREM NoFaultNoHaltAlways == Spec => []NoFaultNoHalt
  BY InductiveInvariant, PTL DEF IInv

\* Preemptive mode holds preemptive, unblocked tasks only.
THEOREM PreemptionClosedAlways == Spec => []PreemptionClosed
  BY InductiveInvariant, PTL DEF IInv

\* A switch to a READY task is a ReadyStep when the task left behind was the
\* running one.
LEMMA SwitchIsReadyStep ==
    ASSUME IInv, NEW next \in AnyTask, NEW s \in TaskState,
           next # current_task, tstate[next] = "ready",
           tstate[current_task] = "running" \/ s = tstate[current_task],
           SwitchTo(next, [tstate EXCEPT ![current_task] = s])
    PROVE  ReadyStep
  BY BoundsAssumption
  DEF BoundsAssumption, IInv, TypeOK, OneRunning, SwitchTo, ReadyStep, AnyTask, TaskId

\* Every step is a ReadyStep.
LEMMA NextReadyStep == IInv /\ [Next]_vars => [ReadyStep]_vars
  <1> SUFFICES ASSUME IInv, Next PROVE ReadyStep
    OBVIOUS
  <1> USE BoundsAssumption DEF BoundsAssumption
  <1>1. ASSUME UNCHANGED <<tstate, current_task>> PROVE ReadyStep
    BY <1>1 DEF ReadyStep
  <1>2. ASSUME NEW p \in Pid, task_wake_process(p) PROVE ReadyStep
    BY <1>2 DEF task_wake_process, Woken, ReadyStep, AnyTask, TaskId
  <1>3. ASSUME NEW S \in SUBSET LiveTasks,
               \A t \in S : tstate[t] = "finished",
               tstate' = [t \in AnyTask |-> IF t \in S THEN "free" ELSE tstate[t]],
               UNCHANGED current_task
        PROVE  ReadyStep
    BY <1>3 DEF ReadyStep, AnyTask, TaskId
  <1>4. ASSUME NEW kind \in ContextKind, spawn(kind) \/ task_create(kind) PROVE ReadyStep
    BY <1>4 DEF spawn, task_create, task_create_internal, ReadyStep, IInv, FreshIds, TypeOK,
                AnyTask, TaskId
  <1>5. ASSUME NEW next, NEW kind, IsNext(next, kind, current_task), NEW s \in TaskState,
               tstate[current_task] = "running" \/ s = tstate[current_task],
               SwitchTo(next, [tstate EXCEPT ![current_task] = s])
        PROVE  ReadyStep
    <2>1. /\ next \in AnyTask
          /\ next # current_task
          /\ tstate[next] = "ready"
      BY <1>5, SelectionSound DEF TaskId, AnyTask
    <2> QED
      BY <1>5, <2>1, SwitchIsReadyStep
  <1>6. ASSUME NEW s \in TaskState, current_task # BOOT,
               tstate[current_task] = "running" \/ s = tstate[current_task],
               SwitchTo(BOOT, [tstate EXCEPT ![current_task] = s])
        PROVE  ReadyStep
    <2>1. BOOT \in AnyTask /\ tstate[BOOT] = "ready"
      BY <1>6 DEF IInv, BootstrapKept, OneRunning, BOOT, AnyTask
    <2> QED
      BY <1>6, <2>1, SwitchIsReadyStep
  <1>7. ASSUME task_yield \/ task_block_current PROVE ReadyStep
    BY <1>7, <1>5 DEF task_yield, task_block_current, MayBlock, Executing, TaskState
  <1>8. ASSUME task_exit_current_process PROVE ReadyStep
    <2>1. NoFaultNoHalt'
      BY <1>8, ExitKeepsIInv DEF IInv
    <2>2. PICK next \in AnyTask : /\ Heir(next, current_task)
                                  /\ SwitchTo(next, [tstate EXCEPT ![current_task] = "finished"])
      BY <1>8, <2>1 DEF task_exit_current_process, NoFaultNoHalt
    <2> QED
      BY <1>8, <2>2, <1>5, <1>6
      DEF Heir, task_exit_current_process, MayBlock, Executing, TaskState
  <1>9. ASSUME task_finish_cooperative PROVE ReadyStep
    BY <1>9, <1>5, <1>6 DEF task_finish_cooperative, Heir, MayBlock, Executing, TaskState
  <1>10. ASSUME task_finish_preemptive PROVE ReadyStep
    BY <1>10 DEF task_finish_preemptive, Executing, ReadyStep, IInv, TypeOK, AnyTask, TaskId
  <1>11. ASSUME task_scheduler_tick PROVE ReadyStep
    <2> DEFINE from == current_task
               none == Candidates("preempt", from) = {}
               fallback == none /\ Parked[from] = "finished"
    <2>1. /\ Parked = [tstate EXCEPT ![from] = Parked[from]]
          /\ Parked[from] \in TaskState
          /\ tstate[from] = "running" \/ Parked[from] = tstate[from]
          /\ from = BOOT => Parked[from] = "ready"
      BY DEF IInv, Parked, TypeOK, TaskState, OneRunning, AnyTask, BootstrapKept
    <2>2. \/ UNCHANGED <<tstate, current_task>>
          \/ /\ none
             /\ ~fallback
             /\ tstate' = [tstate EXCEPT ![from] = "running"]
             /\ UNCHANGED current_task
          \/ fallback /\ SwitchTo(BOOT, Parked)
          \/ \E next \in TaskId : IsNext(next, "preempt", from) /\ SwitchTo(next, Parked)
      BY <1>11 DEF task_scheduler_tick
    <2>3. CASE none /\ ~fallback /\ tstate' = [tstate EXCEPT ![from] = "running"]
               /\ UNCHANGED current_task
      <3>1. tstate[from] = "running"
        BY <2>1, <2>3 DEF IInv, OneRunning, BootstrapKept
      <3>2. UNCHANGED <<tstate, current_task>>
        BY <2>3, <3>1 DEF IInv, TypeOK
      <3> QED
        BY <3>2, <1>1
    <2>4. CASE fallback /\ SwitchTo(BOOT, Parked)
      <3>1. SwitchTo(BOOT, [tstate EXCEPT ![current_task] = Parked[from]])
        BY <2>1, <2>4
      <3>2. current_task # BOOT
        BY <2>1, <2>4
      <3> HIDE DEF from
      <3> QED
        BY <3>1, <3>2, <2>1, <1>6 DEF from
    <2>5. CASE \E next \in TaskId : IsNext(next, "preempt", from) /\ SwitchTo(next, Parked)
      <3>1. PICK next \in TaskId : IsNext(next, "preempt", from) /\ SwitchTo(next, Parked)
        BY <2>5
      <3>2. SwitchTo(next, [tstate EXCEPT ![current_task] = Parked[from]])
        BY <2>1, <3>1
      <3> QED
        BY <3>1, <3>2, <2>1, <1>5
    <2> QED
      BY <1>1, <2>2, <2>3, <2>4, <2>5
  <1>12. ASSUME NEW p \in Pid, m36_reap_record(p) PROVE ReadyStep
    <2>1. TasksOf(p) \in SUBSET LiveTasks
      BY DEF TasksOf
    <2> QED
      BY <1>12, <2>1, <1>3 DEF m36_reap_record, task_reap_finished_process
  <1>13. ASSUME BootTeardown PROVE ReadyStep
    <2>1. LiveTasks \in SUBSET LiveTasks
      OBVIOUS
    <2> QED
      BY <1>13, <2>1, <1>3 DEF BootTeardown, task_cleanup_finished
  <1>14. ASSUME task_preemption_start \/ task_preemption_stop PROVE ReadyStep
    <2>1. UNCHANGED taskVars
      BY <1>14 DEF task_preemption_start, task_preemption_stop
    <2> QED
      BY <2>1, <1>1 DEF taskVars
  <1> QED
    BY <1>2, <1>4, <1>7, <1>8, <1>9, <1>10, <1>11, <1>12, <1>13, <1>14 DEF Next

\* The CPU passes to READY tasks only; BLOCKED and FINISHED tasks never run.
THEOREM RunsOnlyWhenReadyAlways == Spec => RunsOnlyWhenReady
  BY InductiveInvariant, NextReadyStep, PTL DEF Spec, RunsOnlyWhenReady

----------------------------------------------------------------------------
(* SPAWN, EXIT and WAITPID: the inductive invariant                       *)

\* The scheduler under SPAWN, EXIT and WAITPID: tasks are cooperative, each
\* has a process of its own, and the CPU can always go back to the boot code.
SchedOK ==
    /\ TypeOK
    /\ OneRunning
    /\ ActiveSpaceAlive
    /\ NoOrphanTask
    /\ FreshIds
    /\ ~preemption_enabled
    /\ tproc[BOOT] = BOOT /\ pstate[BOOT] = "alive" /\ tstate[BOOT] \in {"ready", "running"}
    /\ \A t \in AnyTask : tkind[t] = "coop"
    /\ \A t \in LiveTasks : tproc[t] \in Pid
    /\ \A t, u \in LiveTasks : tproc[t] = tproc[u] => t = u

\* boring-init has no record and never exits; every other process has one, and
\* it says whether the process has exited.
RecordsKept ==
    /\ pstate[1] = "alive" /\ rec[1] = NoRecord
    /\ \A c \in Pid \ {1} :
          /\ active(c) <=> pstate[c] # "none"
          /\ active(c) => (rec[c].exited <=> pstate[c] = "finished")

\* Who is inside WAITPID is alive, and the child it asked for is still its own.
WaitersKept ==
    \A p \in AnyPid : wait[p] # NotWaiting =>
        /\ p \in Pid /\ pstate[p] = "alive"
        /\ \A c \in Pid : wait[p] = c => m36_record_waitable(c, p)

\* A child that a BLOCKED process waits for runs and has parent_waiting raised.
SleepersServed ==
    \A t \in LiveTasks :
        tstate[t] = "blocked" /\ wait[tproc[t]] # NotWaiting =>
            \A c \in Selected(tproc[t], wait[tproc[t]]) :
                pstate[c] # "finished" /\ rec[c].parent_waiting

SpawnInv == SpawnTypeOK /\ SchedOK /\ RecordsKept /\ WaitersKept /\ SleepersServed

----------------------------------------------------------------------------
(* The scheduler                                                           *)

\* Identifiers of tasks and processes are apart from the markers.
LEMMA Ids ==
    /\ 1 \in Pid /\ BOOT \notin Pid /\ BOOT \in AnyPid /\ Pid \subseteq AnyPid
    /\ \A p \in AnyPid : p = BOOT \/ p \in Pid
    /\ BOOT \notin TaskId /\ BOOT \in AnyTask /\ TaskId \subseteq AnyTask
    /\ \A t \in AnyTask : t = BOOT \/ t \in TaskId
    /\ NotWaiting \notin AnyPid /\ NotWaiting # ANY
BY BoundsAssumption, InitFitsAssumption DEF Pid, AnyPid, BOOT, TaskId, AnyTask, NotWaiting, ANY

\* The processes of a set are finished: what m36_reap_record may take.
Finished(D) == D \subseteq Pid /\ \A c \in D : pstate[c] = "finished"

\* The task of a finished process is finished, and its slot alone is freed.
LEMMA ReapFacts ==
    ASSUME SchedOK, NEW D, Finished(D)
    PROVE  /\ ReapedTasks(D) \in [AnyTask -> TaskState]
           /\ ReapedProcs(D) \in [AnyPid -> ProcState]
           /\ BOOT \notin D /\ current_process \notin D /\ D \subseteq AnyPid
           /\ \A t \in AnyTask :
                 /\ ReapedTasks(D)[t] =
                      IF t # BOOT /\ tproc[t] \in D THEN "free" ELSE tstate[t]
                 /\ t # BOOT /\ tproc[t] \in D => tstate[t] \in {"free", "finished"}
           /\ \A p \in AnyPid : ReapedProcs(D)[p] = IF p \in D THEN "none" ELSE pstate[p]
<1> USE Ids
<1>1. ReapedTasks(D) \in [AnyTask -> TaskState] /\ ReapedProcs(D) \in [AnyPid -> ProcState]
  BY DEF SchedOK, TypeOK, ReapedTasks, ReapedProcs, TaskState, ProcState
<1>2. BOOT \notin D /\ current_process \notin D /\ D \subseteq AnyPid
  BY DEF SchedOK, ActiveSpaceAlive, Finished, process_is_alive
<1>3. ASSUME NEW t \in AnyTask, t # BOOT, tproc[t] \in D PROVE tstate[t] \in {"free", "finished"}
  <2>1. t \in TaskId /\ pstate[tproc[t]] = "finished" BY <1>3 DEF Finished
  <2> QED BY <2>1 DEF SchedOK, NoOrphanTask, LiveTasks, process_is_alive
<1> QED BY <1>1, <1>2, <1>3 DEF ReapedTasks, ReapedProcs

\* Reaping, and a switch of the CPU or none, keep the scheduler in order.
LEMMA ReapKeeps ==
    ASSUME SchedOK, NEW D, Finished(D),
           tstate' = ReapedTasks(D), pstate' = ReapedProcs(D),
           UNCHANGED <<tproc, tkind, next_task_id, next_pid, modeVars, current_task,
                       current_process>>
    PROVE  SchedOK'
<1> USE Ids DEF SchedOK, modeVars
<1>1. TypeOK' BY ReapFacts DEF TypeOK
<1>2. OneRunning' BY ReapFacts DEF OneRunning, TypeOK, ActiveSpaceAlive
<1>3. ActiveSpaceAlive' BY ReapFacts DEF ActiveSpaceAlive, process_is_alive, TypeOK
<1>4. LiveTasks' = {t \in LiveTasks : tproc[t] \notin D} BY ReapFacts DEF LiveTasks
<1>5. NoOrphanTask' BY <1>4, ReapFacts DEF NoOrphanTask, process_is_alive, LiveTasks, TypeOK
<1>6. FreshIds' BY ReapFacts DEF FreshIds
<1>7. tproc'[BOOT] = BOOT /\ pstate'[BOOT] = "alive" /\ tstate'[BOOT] \in {"ready", "running"}
  BY ReapFacts
<1> QED BY <1>1, <1>2, <1>3, <1>4, <1>5, <1>6, <1>7

\* The states of the tasks when the current one leaves the CPU.
Leaving(D, s) == [ReapedTasks(D) EXCEPT ![current_task] = s]

\* A switch of tasks after finished children were reaped keeps the scheduler's
\* invariant.
LEMMA SwitchKeeps ==
    ASSUME SchedOK, NEW D, Finished(D), NEW next, IsNext(next, "coop", current_task),
           NEW s \in {"ready", "blocked"}, current_task = BOOT => s = "ready",
           SwitchTo(next, Leaving(D, s)),
           pstate' = ReapedProcs(D),
           UNCHANGED <<tproc, tkind, next_task_id, next_pid, modeVars>>
    PROVE  /\ SchedOK'
           /\ \A t \in AnyTask :
                 tstate'[t] = IF t = next THEN "running" ELSE IF t = current_task THEN s
                              ELSE ReapedTasks(D)[t]
<1> USE Ids DEF SchedOK, modeVars
<1>0. /\ next \in TaskId /\ next # current_task /\ tstate[next] = "ready"
      /\ pstate[tproc[next]] = "alive" /\ tproc[next] \in AnyPid
  BY DEF IsNext, Candidates, process_is_alive, TypeOK
<1>1. /\ tstate' \in [AnyTask -> TaskState]
      /\ \A t \in AnyTask :
             tstate'[t] = IF t = next THEN "running" ELSE IF t = current_task THEN s
                          ELSE ReapedTasks(D)[t]
  BY <1>0, ReapFacts DEF SwitchTo, Leaving, TypeOK, TaskState
<1>2. tproc[next] \notin D /\ current_task' = next /\ current_process' = tproc[next]
  BY <1>0 DEF Finished, SwitchTo
<1>3. TypeOK' BY <1>0, <1>1, <1>2, ReapFacts DEF TypeOK
<1>4. OneRunning' BY <1>0, <1>1, <1>2, ReapFacts DEF OneRunning, TypeOK
<1>5. ActiveSpaceAlive' BY <1>0, <1>2, ReapFacts DEF ActiveSpaceAlive, process_is_alive
<1>6. LiveTasks' = {t \in LiveTasks : tproc[t] \notin D}
  <2>1. \A t \in TaskId : tstate'[t] # "free" <=> tstate[t] # "free" /\ tproc[t] \notin D
    BY <1>0, <1>1, <1>2, ReapFacts DEF OneRunning, ActiveSpaceAlive
  <2> QED BY <2>1 DEF LiveTasks
<1>7. NoOrphanTask'
  BY <1>0, <1>1, <1>2, <1>6, ReapFacts
     DEF NoOrphanTask, process_is_alive, LiveTasks, TypeOK, ActiveSpaceAlive
<1>8. FreshIds'
  <2>1. \A t \in TaskId : t >= next_task_id => tstate'[t] = "free"
    BY <1>0, <1>1, ReapFacts DEF FreshIds, OneRunning
  <2>2. \A p \in Pid : p >= next_pid => pstate'[p] = "none" BY ReapFacts DEF FreshIds
  <2> QED BY <2>1, <2>2 DEF FreshIds
<1>9. tproc'[BOOT] = BOOT /\ pstate'[BOOT] = "alive" /\ tstate'[BOOT] \in {"ready", "running"}
  BY <1>0, <1>1, ReapFacts
<1> QED BY <1>1, <1>3, <1>4, <1>5, <1>6, <1>7, <1>8, <1>9

----------------------------------------------------------------------------
(* Records and waiters                                                     *)

\* What the three invariants say, with the records and the calls spelled out.
Waitable(r, c, p) == r[c] # NoRecord /\ ~r[c].detached /\ r[c].parent = p

\* Two parts of the invariant, with the waiting call and the record spelled out.
LEMMA Spelled ==
    /\ WaitersKept <=>
          \A p \in AnyPid : wait[p] # NotWaiting =>
              /\ p \in Pid /\ pstate[p] = "alive"
              /\ \A c \in Pid : wait[p] = c => Waitable(rec, c, p)
    /\ SleepersServed <=>
          \A t \in TaskId :
              tstate[t] = "blocked" /\ wait[tproc[t]] # NotWaiting =>
                  \A c \in Pid : Waitable(rec, c, tproc[t]) /\ wait[tproc[t]] \in {ANY, c} =>
                      pstate[c] # "finished" /\ rec[c].parent_waiting
BY DEF WaitersKept, SleepersServed, m36_record_waitable, active, Waitable, LiveTasks, Selected

\* The same after a step.
LEMMA SpelledNext ==
    /\ WaitersKept' <=>
          \A p \in AnyPid : wait'[p] # NotWaiting =>
              /\ p \in Pid /\ pstate'[p] = "alive"
              /\ \A c \in Pid : wait'[p] = c => Waitable(rec', c, p)
    /\ SleepersServed' <=>
          \A t \in TaskId :
              tstate'[t] = "blocked" /\ wait'[tproc'[t]] # NotWaiting =>
                  \A c \in Pid : Waitable(rec', c, tproc'[t]) /\ wait'[tproc'[t]] \in {ANY, c} =>
                      pstate'[c] # "finished" /\ rec'[c].parent_waiting
BY DEF WaitersKept, SleepersServed, m36_record_waitable, active, Waitable, LiveTasks, Selected

\* A record is known by its parent.
LEMMA RecordFacts ==
    /\ NoRecord \notin Record
    /\ \A r \in Record : r # NoRecord /\ r.parent \in Pid /\ r.exited \in BOOLEAN
                          /\ r.detached \in BOOLEAN
<1>1. NoRecord.parent \notin Pid BY Ids DEF NoRecord
<1>2. \A r \in Record : r.parent \in Pid /\ r.exited \in BOOLEAN /\ r.detached \in BOOLEAN
  BY DEF Record
<1>3. \A r \in Record : r # NoRecord BY <1>1, <1>2
<1> QED BY <1>2, <1>3

\* The records as a step of p leaves them: those of D are gone, those of other
\* parents are as they were, those of p differ in parent_waiting at most.
RecordsAfter(p, D) ==
    /\ rec' \in [Pid -> Record \cup {NoRecord}]
    /\ \A c \in D : rec'[c] = NoRecord
    /\ \A c \in Pid \ D :
          \/ rec'[c] = rec[c]
          \/ /\ rec[c] # NoRecord /\ rec'[c] # NoRecord /\ rec[c].parent = p
             /\ rec'[c].parent = rec[c].parent /\ rec'[c].detached = rec[c].detached
             /\ rec'[c].exited = rec[c].exited

\* A step of p that reaps D and leaves p in the call w.
LEMMA RecordStep ==
    ASSUME SpawnInv, NEW p \in AnyPid, p = current_process, NEW D, Finished(D),
           \A c \in D : rec[c] # NoRecord /\ (rec[c].detached \/ rec[c].parent = p),
           SchedOK', pstate' = ReapedProcs(D), RecordsAfter(p, D), UNCHANGED tproc,
           NEW w \in AnyPid \cup {NotWaiting}, wait' = [wait EXCEPT ![p] = w],
           ret' \in Result,
           w # NotWaiting => p \in Pid /\ \A c \in Pid : w = c => Waitable(rec', c, p),
           \A t \in TaskId : tstate'[t] = "blocked" =>
               \/ tstate[t] = "blocked"
               \/ t = current_task,
           tstate'[current_task] = "blocked" /\ w # NotWaiting =>
               \A c \in Pid : Waitable(rec', c, p) /\ w \in {ANY, c} =>
                   pstate'[c] # "finished" /\ rec'[c].parent_waiting
    PROVE  SpawnInv'
<1> USE Ids
<1>0. SchedOK /\ TypeOK /\ p = tproc[current_task] /\ pstate[p] = "alive" /\ p \notin D
      /\ D \subseteq Pid
  BY ReapFacts DEF SpawnInv, SchedOK, ActiveSpaceAlive, process_is_alive, Finished
<1>1. /\ rec \in [Pid -> Record \cup {NoRecord}] /\ wait \in [AnyPid -> AnyPid \cup {NotWaiting}]
  BY DEF SpawnInv, SpawnTypeOK
<1>2. \A q \in AnyPid : wait'[q] = IF q = p THEN w ELSE wait[q] BY <1>1
<1>3. SpawnTypeOK'
  <2>1. wait' \in [AnyPid -> AnyPid \cup {NotWaiting}] BY <1>1
  <2>2. TypeOK' BY DEF SchedOK
  <2> QED BY <2>1, <2>2 DEF SpawnTypeOK, RecordsAfter
<1>4. \A q \in AnyPid : pstate'[q] = IF q \in D THEN "none" ELSE pstate[q] BY <1>0, ReapFacts
<1>5. RecordsKept'
  <2>1. RecordsKept BY DEF SpawnInv
  <2>2. 1 \notin D BY <2>1 DEF RecordsKept
  <2>3. pstate'[1] = "alive" /\ rec'[1] = NoRecord
    BY <1>4, <2>1, <2>2 DEF RecordsKept, RecordsAfter
  <2>4. ASSUME NEW c \in Pid \ {1}
        PROVE  /\ rec'[c] # NoRecord <=> pstate'[c] # "none"
               /\ rec'[c] # NoRecord => (rec'[c].exited <=> pstate'[c] = "finished")
    BY <1>4, <2>1 DEF RecordsKept, RecordsAfter, active
  <2> QED BY <2>3, <2>4 DEF RecordsKept, active
<1>6. \A q \in AnyPid, c \in Pid : q # p => (Waitable(rec', c, q) <=> Waitable(rec, c, q) /\ c \notin D)
  BY DEF Waitable, RecordsAfter
<1>7. WaitersKept'
  <2> SUFFICES ASSUME NEW q \in AnyPid, wait'[q] # NotWaiting
               PROVE  /\ q \in Pid /\ pstate'[q] = "alive"
                      /\ \A c \in Pid : wait'[q] = c => Waitable(rec', c, q)
    BY SpelledNext
  <2>1. CASE q = p BY <1>0, <1>2, <1>4, <2>1
  <2>2. CASE q # p
    <3>1. /\ q \in Pid /\ pstate[q] = "alive"
          /\ \A c \in Pid : wait[q] = c => Waitable(rec, c, q)
      BY <1>2, <2>2, Spelled DEF SpawnInv
    <3>2. q \notin D BY <3>1 DEF Finished
    <3>3. \A c \in Pid : Waitable(rec, c, q) => c \notin D BY <2>2 DEF Waitable
    <3> QED BY <1>2, <1>4, <1>6, <2>2, <3>1, <3>2, <3>3
  <2> QED BY <2>1, <2>2
<1>8. SleepersServed'
  <2> SUFFICES ASSUME NEW t \in TaskId, tstate'[t] = "blocked", wait'[tproc[t]] # NotWaiting,
                      NEW c \in Pid, Waitable(rec', c, tproc[t]), wait'[tproc[t]] \in {ANY, c}
               PROVE  pstate'[c] # "finished" /\ rec'[c].parent_waiting
    BY SpelledNext
  <2>0. tproc[t] \in AnyPid BY <1>0 DEF TypeOK
  <2>1. CASE t = current_task BY <1>0, <1>2, <2>1
  <2>2. CASE t # current_task
    <3>1. tstate[t] = "blocked" BY <2>2
    <3>2. tproc[t] # p
      <4>1. tstate[current_task] = "running" BY <1>0 DEF SchedOK, OneRunning
      <4>2. current_task # BOOT => current_task \in TaskId BY <1>0 DEF TypeOK
      <4>3. tproc[t] \in Pid BY <1>0, <3>1 DEF SchedOK, LiveTasks
      <4>4. p # BOOT => current_task # BOOT BY <1>0 DEF SchedOK
      <4> QED BY <1>0, <2>2, <3>1, <4>1, <4>2, <4>3, <4>4 DEF SchedOK, LiveTasks
    <3>3. Waitable(rec, c, tproc[t]) /\ c \notin D BY <1>6, <2>0, <3>2
    <3>4. wait[tproc[t]] # NotWaiting /\ wait[tproc[t]] \in {ANY, c} BY <1>2, <2>0, <3>2
    <3>5. pstate[c] # "finished" /\ rec[c].parent_waiting
      BY <3>1, <3>3, <3>4, Spelled DEF SpawnInv
    <3>6. rec'[c] = rec[c] BY <3>2, <3>3 DEF RecordsAfter, Waitable
    <3> QED BY <1>4, <3>3, <3>5, <3>6
  <2> QED BY <2>1, <2>2
<1> QED BY <1>3, <1>5, <1>7, <1>8 DEF SpawnInv

\* m36_set_parent_waiting changes that flag of the children it concerns.
LEMMA SetWaitingFacts ==
    ASSUME SpawnInv, NEW p \in Pid, NEW sel, NEW b \in BOOLEAN, NEW c \in Pid
    PROVE  LET r == m36_set_parent_waiting(p, sel, b)[c]
           IN  /\ r \in Record \cup {NoRecord}
               /\ \/ r = rec[c] /\ ~(Waitable(rec, c, p) /\ sel \in {ANY, c})
                  \/ /\ Waitable(rec, c, p) /\ sel \in {ANY, c} /\ r # NoRecord
                     /\ r.parent = rec[c].parent /\ r.detached = rec[c].detached
                     /\ r.exited = rec[c].exited /\ r.parent_waiting = b
<1>0. rec[c] \in Record \cup {NoRecord} BY DEF SpawnInv, SpawnTypeOK
<1>1. c \in Selected(p, sel) <=> Waitable(rec, c, p) /\ sel \in {ANY, c}
  BY DEF Selected, m36_record_waitable, active, Waitable
<1>2. CASE c \notin Selected(p, sel) BY <1>0, <1>1, <1>2 DEF m36_set_parent_waiting
<1>3. CASE c \in Selected(p, sel)
  <2> DEFINE r == [rec[c] EXCEPT !.parent_waiting = b]
  <2>1. rec[c] \in Record BY <1>0, <1>1, <1>3 DEF Waitable
  <2>2. /\ r \in Record /\ r.parent = rec[c].parent /\ r.detached = rec[c].detached
        /\ r.exited = rec[c].exited /\ r.parent_waiting = b
    BY <2>1 DEF Record
  <2>3. m36_set_parent_waiting(p, sel, b)[c] = r BY <1>3 DEF m36_set_parent_waiting
  <2> HIDE DEF r
  <2> QED BY <1>1, <1>3, <2>2, <2>3, RecordFacts
<1> QED BY <1>2, <1>3

RecordsWith(p, sel, b, D) ==
    [c \in Pid |-> IF c \in D THEN NoRecord ELSE m36_set_parent_waiting(p, sel, b)[c]]

\* WAITPID marks or unmarks the records of the children it selects, and reaps detached
\* ones.
LEMMA WaitingRecords ==
    ASSUME SpawnInv, NEW p \in Pid, NEW sel, NEW b \in BOOLEAN, NEW D, D \subseteq Pid,
           rec' = RecordsWith(p, sel, b, D)
    PROVE  /\ RecordsAfter(p, D)
           /\ \A c \in Pid \ D : Waitable(rec, c, p) /\ sel \in {ANY, c} =>
                                     rec'[c].parent_waiting = b
<1> DEFINE R(c) == m36_set_parent_waiting(p, sel, b)[c]
<1>1. \A c \in Pid :
         /\ R(c) \in Record \cup {NoRecord}
         /\ \/ R(c) = rec[c] /\ ~(Waitable(rec, c, p) /\ sel \in {ANY, c})
            \/ /\ Waitable(rec, c, p) /\ sel \in {ANY, c} /\ R(c) # NoRecord
               /\ R(c).parent = rec[c].parent /\ R(c).detached = rec[c].detached
               /\ R(c).exited = rec[c].exited /\ R(c).parent_waiting = b
  BY SetWaitingFacts
<1>2. rec' = [c \in Pid |-> IF c \in D THEN NoRecord ELSE R(c)] BY DEF RecordsWith
<1> HIDE DEF R
<1> QED BY <1>1, <1>2 DEF RecordsAfter, Waitable

\* Reaping removes records of finished children and changes no other.
LEMMA ReapedRecords ==
    ASSUME SpawnInv, NEW p, NEW D, D \subseteq Pid, rec' = ReapedRecs(D)
    PROVE  RecordsAfter(p, D)
BY DEF RecordsAfter, ReapedRecs, SpawnInv, SpawnTypeOK

\* m36_reap_detached reaps finished, detached children only.
LEMMA DetachedFacts ==
    /\ Finished(m36_reap_detached)
    /\ \A c \in m36_reap_detached : rec[c] # NoRecord /\ rec[c].detached
BY DEF Finished, m36_reap_detached, active

\* Who executes is alive, with the only task of its process.
LEMMA CallerFacts ==
    ASSUME SpawnInv, NEW p \in Pid, current_process = p
    PROVE  /\ current_task \in TaskId /\ tproc[current_task] = p /\ pstate[p] = "alive"
           /\ tstate[current_task] = "running"
           /\ \A t \in TaskId : tproc[t] = p /\ tstate[t] # "free" => t = current_task
<1> USE Ids DEF SpawnInv, SchedOK
<1>1. tproc[current_task] = p /\ pstate[p] = "alive"
  BY DEF ActiveSpaceAlive, process_is_alive
<1>2. current_task \in TaskId BY <1>1 DEF TypeOK
<1>3. tstate[current_task] = "running" BY DEF OneRunning
<1> QED BY <1>1, <1>2, <1>3 DEF LiveTasks

\* A turn of WAITPID that returns with nothing reaped.
LEMMA ErrorStep ==
    ASSUME SpawnInv, NEW p \in Pid, current_process = p, NEW D, Finished(D),
           \A c \in D : rec[c] # NoRecord /\ rec[c].detached,
           NEW e \in Result, ReturnError(p, e, D),
           UNCHANGED <<tproc, tkind, next_task_id, next_pid, modeVars>>
    PROVE  SpawnInv'
<1> USE Ids
<1>1. /\ tstate' = ReapedTasks(D) /\ pstate' = ReapedProcs(D) /\ rec' = ReapedRecs(D)
      /\ wait' = [wait EXCEPT ![p] = NotWaiting] /\ ret' = e
      /\ UNCHANGED <<current_task, current_process>>
  BY DEF ReturnError
<1>2. SchedOK BY DEF SpawnInv
<1>3. SchedOK' BY <1>1, <1>2, ReapKeeps
<1>4. RecordsAfter(p, D) BY <1>1, ReapedRecords DEF Finished
<1>5. \A t \in TaskId : tstate'[t] = "blocked" => tstate[t] = "blocked"
  BY <1>1, <1>2, ReapFacts
<1>6. tstate'[current_task] # "blocked" BY <1>5, CallerFacts
<1> QED BY <1>1, <1>3, <1>4, <1>5, <1>6, RecordStep

\* A turn of WAITPID that reaps c.
LEMMA ReapedStep ==
    ASSUME SpawnInv, NEW p \in Pid, current_process = p, NEW D, Finished(D),
           \A c \in D : rec[c] # NoRecord /\ rec[c].detached,
           NEW sel, NEW c \in Pid, m36_record_any_finished(p, sel, c), ReturnReaped(p, c, D),
           UNCHANGED <<tproc, tkind, next_task_id, next_pid, modeVars>>
    PROVE  SpawnInv'
<1> USE Ids
<1> DEFINE G == D \cup {c}
<1>1. /\ tstate' = ReapedTasks(G) /\ pstate' = ReapedProcs(G)
      /\ rec' = RecordsWith(p, wait[p], FALSE, G)
      /\ wait' = [wait EXCEPT ![p] = NotWaiting] /\ ret' = "reaped"
      /\ UNCHANGED <<current_task, current_process>>
  BY DEF ReturnReaped, RecordsWith
<1>2. SchedOK BY DEF SpawnInv
<1>3. rec[c] # NoRecord /\ rec[c].parent = p /\ pstate[c] = "finished"
  BY DEF m36_record_any_finished, Selected, m36_record_waitable, active
<1>4. Finished(G) /\ G \subseteq Pid BY <1>3 DEF Finished
<1>5. \A d \in G : rec[d] # NoRecord /\ (rec[d].detached \/ rec[d].parent = p) BY <1>3
<1> HIDE DEF G
<1>6. SchedOK' BY <1>1, <1>2, <1>4, ReapKeeps
<1>7. RecordsAfter(p, G) BY <1>1, <1>4, WaitingRecords
<1>8. \A t \in TaskId : tstate'[t] = "blocked" => tstate[t] = "blocked"
  BY <1>1, <1>2, <1>4, ReapFacts
<1>9. tstate'[current_task] # "blocked" BY <1>8, CallerFacts
<1>10. "reaped" \in Result BY DEF Result
<1> QED BY <1>1, <1>4, <1>5, <1>6, <1>7, <1>8, <1>9, <1>10, RecordStep

\* A turn of WAITPID that goes to sleep, or finds nothing to switch to.
LEMMA BlockStep ==
    ASSUME SpawnInv, NEW p \in Pid, current_process = p, NEW D, Finished(D),
           \A c \in D : rec[c] # NoRecord /\ rec[c].detached,
           NEW sel \in AnyPid, BlockInWait(p, sel, D),
           Selected(p, sel) # {},
           \A c \in Selected(p, sel) : pstate[c] # "finished",
           UNCHANGED <<tproc, tkind, next_task_id, next_pid, modeVars>>
    PROVE  SpawnInv'
<1> USE Ids
<1>0. SchedOK /\ D \subseteq Pid BY DEF SpawnInv, Finished
<1>1. CASE /\ Candidates("coop", current_task) = {}
           /\ tstate' = ReapedTasks(D) /\ pstate' = ReapedProcs(D)
           /\ rec' = RecordsWith(p, sel, FALSE, D)
           /\ wait' = [wait EXCEPT ![p] = NotWaiting]
           /\ ret' = "EBUSY"
           /\ UNCHANGED <<current_task, current_process>>
  <2>1. SchedOK' BY <1>0, <1>1, ReapKeeps
  <2>2. RecordsAfter(p, D) BY <1>0, <1>1, WaitingRecords
  <2>3. \A t \in TaskId : tstate'[t] = "blocked" => tstate[t] = "blocked"
    BY <1>0, <1>1, ReapFacts
  <2>4. tstate'[current_task] # "blocked" BY <2>3, CallerFacts
  <2>5. "EBUSY" \in Result BY DEF Result
  <2> QED BY <1>1, <2>1, <2>2, <2>3, <2>4, <2>5, RecordStep
<1>2. ASSUME NEW next \in TaskId, IsNext(next, "coop", current_task),
             SwitchTo(next, Leaving(D, "blocked")),
             pstate' = ReapedProcs(D),
             rec' = RecordsWith(p, sel, TRUE, D),
             wait' = [wait EXCEPT ![p] = sel], UNCHANGED ret
      PROVE  SpawnInv'
  <2>1. current_task # BOOT BY CallerFacts
  <2>2. /\ SchedOK'
        /\ \A t \in AnyTask :
              tstate'[t] = IF t = next THEN "running" ELSE IF t = current_task THEN "blocked"
                           ELSE ReapedTasks(D)[t]
    BY <1>0, <1>2, <2>1, SwitchKeeps
  <2>3. RecordsAfter(p, D) /\ \A c \in Pid \ D : Waitable(rec, c, p) /\ sel \in {ANY, c} =>
                                     rec'[c].parent_waiting = TRUE
    BY <1>0, <1>2, WaitingRecords
  <2>4. \A t \in TaskId : tstate'[t] = "blocked" => tstate[t] = "blocked" \/ t = current_task
    BY <1>0, <2>2, ReapFacts
  <2>5. \A c \in Pid : Waitable(rec', c, p) <=> Waitable(rec, c, p)
    BY <2>3 DEF Waitable, RecordsAfter
  <2>6. \A c \in Pid : c \in Selected(p, sel) <=> Waitable(rec, c, p) /\ sel \in {ANY, c}
    BY DEF Selected, m36_record_waitable, active, Waitable
  <2>7. \A c \in Pid : sel = c => Waitable(rec', c, p)
    <3>1. PICK d \in Pid : Waitable(rec, d, p) /\ sel \in {ANY, d} BY <2>6 DEF Selected
    <3>2. ANY \notin Pid BY DEF ANY, Pid
    <3> QED BY <2>5, <3>1, <3>2
  <2>8. \A c \in Pid : Waitable(rec', c, p) /\ sel \in {ANY, c} =>
                             pstate'[c] # "finished" /\ rec'[c].parent_waiting
    <3> SUFFICES ASSUME NEW c \in Pid, Waitable(rec, c, p), sel \in {ANY, c}
                 PROVE  pstate'[c] # "finished" /\ rec'[c].parent_waiting
      BY <2>5
    <3>1. c \notin D BY DEF Waitable
    <3>2. pstate[c] # "finished" BY <2>6
    <3>3. pstate'[c] = pstate[c] BY <1>0, <1>2, <3>1, ReapFacts
    <3>4. rec'[c].parent_waiting = TRUE BY <2>3, <3>1
    <3> QED BY <3>2, <3>3, <3>4
  <2>9. ret' \in Result BY <1>2 DEF SpawnInv, SpawnTypeOK
  <2> QED BY <1>2, <2>2, <2>3, <2>4, <2>7, <2>8, <2>9, RecordStep
<1> QED BY <1>1, <1>2 DEF BlockInWait, RecordsWith, Leaving

----------------------------------------------------------------------------
(* SPAWN and EXIT                                                          *)

\* A new process, its task and its record.
LEMMA SpawnStep ==
    ASSUME SpawnInv, NEW p \in Pid, NEW d \in BOOLEAN, m36_spawn(p, d)
    PROVE  SpawnInv'
<1> USE Ids
<1> DEFINE D == m36_reap_detached
           c == next_pid
           n == next_task_id
           new == [parent |-> p, detached |-> d, exited |-> FALSE, parent_waiting |-> FALSE]
<1>1. /\ current_process = p /\ wait[p] = NotWaiting /\ next_pid <= PidMax
      /\ next_task_id <= TaskIdMax
      /\ pstate' = [ReapedProcs(D) EXCEPT ![c] = "alive"] /\ next_pid' = c + 1
      /\ tstate' = [ReapedTasks(D) EXCEPT ![n] = "ready"]
      /\ tproc' = [tproc EXCEPT ![n] = c] /\ next_task_id' = n + 1
      /\ rec' = [ReapedRecs(D) EXCEPT ![c] = new]
      /\ UNCHANGED <<tkind, current_task, current_process, modeVars, wait, ret>>
  BY DEF m36_spawn, InUser
<1>2. SchedOK /\ TypeOK /\ RecordsKept BY DEF SpawnInv, SchedOK
<1>3. c \in Pid /\ n \in TaskId /\ c \in Nat /\ n \in Nat
  BY <1>1, <1>2, BoundsAssumption DEF TypeOK, Pid, TaskId
<1>4. pstate[c] = "none" /\ tstate[n] = "free"
  BY <1>2, <1>3 DEF SchedOK, FreshIds
<1>5. Finished(D) /\ \A b \in D : rec[b] # NoRecord /\ rec[b].detached BY DetachedFacts
<1>6. /\ ReapedTasks(D) \in [AnyTask -> TaskState] /\ ReapedProcs(D) \in [AnyPid -> ProcState]
      /\ BOOT \notin D /\ p \notin D /\ D \subseteq Pid
      /\ \A t \in AnyTask :
           /\ ReapedTasks(D)[t] = IF t # BOOT /\ tproc[t] \in D THEN "free" ELSE tstate[t]
           /\ t # BOOT /\ tproc[t] \in D => tstate[t] \in {"free", "finished"}
      /\ \A q \in AnyPid : ReapedProcs(D)[q] = IF q \in D THEN "none" ELSE pstate[q]
  BY <1>1, <1>2, <1>5, ReapFacts DEF Finished
<1>7. c \notin D /\ c # p /\ c # 1 /\ c # BOOT
  BY <1>1, <1>2, <1>3, <1>4, <1>5, CallerFacts DEF Finished, RecordsKept
<1> HIDE DEF D, c, n
<1>8. /\ tstate' \in [AnyTask -> TaskState] /\ tproc' \in [AnyTask -> AnyPid]
      /\ pstate' \in [AnyPid -> ProcState]
      /\ \A t \in AnyTask : /\ tproc'[t] = IF t = n THEN c ELSE tproc[t]
                            /\ tstate'[t] = IF t = n THEN "ready" ELSE ReapedTasks(D)[t]
      /\ \A q \in AnyPid : pstate'[q] = IF q = c THEN "alive" ELSE ReapedProcs(D)[q]
  BY <1>1, <1>2, <1>3, <1>6 DEF TypeOK, TaskState, ProcState
<1>9. /\ current_task \in TaskId /\ tproc[current_task] = p /\ pstate[p] = "alive"
      /\ tstate[current_task] = "running" /\ current_task # n
  BY <1>1, <1>4, CallerFacts
<1>10. LiveTasks' = {t \in LiveTasks : tproc[t] \notin D} \cup {n}
  <2>1. \A t \in TaskId :
          tstate'[t] # "free" <=> (tstate[t] # "free" /\ tproc[t] \notin D) \/ t = n
    BY <1>6, <1>8
  <2> QED BY <1>3, <2>1 DEF LiveTasks
<1>11. \A t \in LiveTasks : t # n /\ tproc[t] # c /\ tproc[t] \in Pid
  BY <1>2, <1>4 DEF SchedOK, NoOrphanTask, LiveTasks
<1>12. SchedOK'
  <2>1. TypeOK' BY <1>1, <1>2, <1>3, <1>8, BoundsAssumption DEF TypeOK, modeVars, c, n
  <2>2. OneRunning' BY <1>1, <1>2, <1>6, <1>8, <1>9 DEF SchedOK, OneRunning
  <2>3. ActiveSpaceAlive'
    BY <1>1, <1>2, <1>6, <1>7, <1>8, <1>9 DEF ActiveSpaceAlive, process_is_alive
  <2>4. NoOrphanTask'
    <3> SUFFICES ASSUME NEW t \in LiveTasks'
                 PROVE  /\ pstate'[tproc'[t]] # "none"
                        /\ tstate'[t] # "finished" => pstate'[tproc'[t]] = "alive"
      BY DEF NoOrphanTask, process_is_alive
    <3>1. CASE t = n BY <1>3, <1>8, <3>1
    <3>2. CASE t \in LiveTasks /\ tproc[t] \notin D
      <4>1. t # n /\ t \in TaskId /\ tproc[t] # c /\ tproc[t] \in Pid BY <1>11, <3>2 DEF LiveTasks
      <4>2. /\ pstate[tproc[t]] # "none"
            /\ tstate[t] # "finished" => pstate[tproc[t]] = "alive"
        BY <1>2, <3>2 DEF SchedOK, NoOrphanTask, process_is_alive
      <4>3. tstate'[t] = tstate[t] /\ tproc'[t] = tproc[t] /\ pstate'[tproc[t]] = pstate[tproc[t]]
        BY <1>6, <1>8, <3>2, <4>1
      <4> QED BY <4>2, <4>3
    <3> QED BY <1>10, <3>1, <3>2
  <2>5. FreshIds'
    <3>1. \A t \in TaskId : t >= n + 1 => t # n /\ tstate[t] = "free"
      BY <1>2, <1>3 DEF SchedOK, FreshIds, TaskId, n
    <3>2. \A q \in Pid : q >= c + 1 => q # c /\ pstate[q] = "none"
      BY <1>2, <1>3 DEF SchedOK, FreshIds, Pid, c
    <3> QED BY <1>1, <1>6, <1>8, <3>1, <3>2 DEF FreshIds
  <2>6. tproc'[BOOT] = BOOT /\ pstate'[BOOT] = "alive" /\ tstate'[BOOT] \in {"ready", "running"}
    BY <1>2, <1>3, <1>6, <1>7, <1>8 DEF SchedOK
  <2>7. ~preemption_enabled' /\ \A t \in AnyTask : tkind'[t] = "coop"
    BY <1>1, <1>2 DEF SchedOK, modeVars
  <2>8. \A t \in LiveTasks' : tproc'[t] \in Pid BY <1>3, <1>8, <1>10, <1>11 DEF LiveTasks
  <2>9. \A t, u \in LiveTasks' : tproc'[t] = tproc'[u] => t = u
    <3>1. \A t, u \in LiveTasks : tproc[t] = tproc[u] => t = u BY <1>2 DEF SchedOK
    <3>2. \A t \in LiveTasks : tproc'[t] = tproc[t] /\ tproc'[t] # c
      BY <1>8, <1>11 DEF LiveTasks
    <3>3. tproc'[n] = c BY <1>3, <1>8
    <3> QED BY <1>10, <3>1, <3>2, <3>3
  <2> QED BY <2>1, <2>2, <2>3, <2>4, <2>5, <2>6, <2>7, <2>8, <2>9 DEF SchedOK
<1>13. /\ new \in Record /\ new.parent = p /\ new.exited = FALSE /\ new # NoRecord
  <2>1. new \in Record BY DEF Record
  <2> QED BY <2>1, RecordFacts
<1> HIDE DEF new
<1>14. /\ rec' \in [Pid -> Record \cup {NoRecord}] /\ rec'[c] = new
       /\ \A b \in Pid \ {c} : rec'[b] = IF b \in D THEN NoRecord ELSE rec[b]
  BY <1>1, <1>3, <1>13 DEF ReapedRecs, SpawnInv, SpawnTypeOK
<1>15. SpawnTypeOK'
  <2>1. TypeOK' BY <1>12 DEF SchedOK
  <2> QED BY <1>1, <1>14, <2>1 DEF SpawnInv, SpawnTypeOK
<1>16. RecordsKept'
  <2>1. 1 \notin D BY <1>2, <1>5 DEF RecordsKept
  <2>2. pstate'[1] = "alive" /\ rec'[1] = NoRecord
    BY <1>2, <1>6, <1>7, <1>8, <1>14, <2>1 DEF RecordsKept
  <2>3. ASSUME NEW b \in Pid \ {1}
        PROVE  /\ rec'[b] # NoRecord <=> pstate'[b] # "none"
               /\ rec'[b] # NoRecord => (rec'[b].exited <=> pstate'[b] = "finished")
    <3>1. CASE b = c BY <1>8, <1>13, <1>14, <3>1
    <3>2. CASE b # c BY <1>2, <1>6, <1>8, <1>14, <3>2 DEF RecordsKept, active
    <3> QED BY <3>1, <3>2
  <2> QED BY <2>2, <2>3 DEF RecordsKept, active
<1>17. rec[c] = NoRecord BY <1>2, <1>3, <1>4, <1>7 DEF RecordsKept, active
<1>18. \A q, b : q # p /\ b \in Pid =>
          (Waitable(rec', b, q) <=> Waitable(rec, b, q)) /\ (Waitable(rec, b, q) => b \notin D /\ b # c)
  BY <1>5, <1>13, <1>14, <1>17 DEF Waitable
<1>19. WaitersKept'
  <2> SUFFICES ASSUME NEW q \in AnyPid, wait[q] # NotWaiting
               PROVE  /\ q \in Pid /\ pstate'[q] = "alive"
                      /\ \A b \in Pid : wait[q] = b => Waitable(rec', b, q)
    BY <1>1, SpelledNext
  <2>1. /\ q \in Pid /\ pstate[q] = "alive"
        /\ \A b \in Pid : wait[q] = b => Waitable(rec, b, q)
    BY Spelled DEF SpawnInv
  <2>2. q \notin D /\ q # c /\ q # p BY <1>1, <1>4, <1>5, <2>1 DEF Finished
  <2> QED BY <1>6, <1>8, <1>18, <2>1, <2>2
<1>20. SleepersServed'
  <2> SUFFICES ASSUME NEW t \in TaskId, tstate'[t] = "blocked", wait[tproc'[t]] # NotWaiting,
                      NEW b \in Pid, Waitable(rec', b, tproc'[t]), wait[tproc'[t]] \in {ANY, b}
               PROVE  pstate'[b] # "finished" /\ rec'[b].parent_waiting
    BY <1>1, SpelledNext
  <2>1. t # n /\ tproc'[t] = tproc[t] /\ tstate[t] = "blocked" BY <1>6, <1>8
  <2>2. tproc[t] # p BY <1>1, <2>1
  <2>3. Waitable(rec, b, tproc[t]) /\ b \notin D /\ b # c BY <1>18, <2>1, <2>2
  <2>4. pstate[b] # "finished" /\ rec[b].parent_waiting BY <2>1, <2>3, Spelled DEF SpawnInv
  <2> QED BY <1>6, <1>8, <1>14, <2>3, <2>4
<1> QED BY <1>12, <1>15, <1>16, <1>19, <1>20 DEF SpawnInv

\* The waiting parent is READY before the CPU leaves the child.
LEMMA ExitStep ==
    ASSUME SpawnInv, NEW p \in Pid, m36_exit(p)
    PROVE  SpawnInv'
<1> USE Ids
<1> DEFINE W == ParentWoken(p)
<1>1. /\ current_process = p /\ wait[p] = NotWaiting /\ rec[p] # NoRecord
      /\ rec' = [rec EXCEPT ![p].exited = TRUE] /\ pstate' = [pstate EXCEPT ![p] = "finished"]
      /\ UNCHANGED <<tproc, tkind, next_task_id, next_pid, preemption_enabled, boot_frame,
                     fault, wait, ret>>
  BY DEF m36_exit, InUser, active
<1>2. PICK next \in AnyTask : /\ ExitHeir(next, W)
                              /\ SwitchTo(next, [W EXCEPT ![current_task] = "finished"])
                              /\ halted' = (next = BOOT)
  BY DEF m36_exit
<1>3. SchedOK /\ TypeOK /\ RecordsKept BY DEF SpawnInv, SchedOK
<1>4. /\ current_task \in TaskId /\ tproc[current_task] = p /\ pstate[p] = "alive"
      /\ tstate[current_task] = "running"
      /\ \A t \in TaskId : tproc[t] = p /\ tstate[t] # "free" => t = current_task
  BY <1>1, CallerFacts
<1>5. /\ W \in [AnyTask -> TaskState]
      /\ \A t \in AnyTask :
            /\ W[t] = tstate[t] \/ (t # BOOT /\ tstate[t] = "blocked" /\ W[t] = "ready")
            /\ t # BOOT /\ rec[p].parent_waiting /\ tproc[t] = rec[p].parent => W[t] # "blocked"
  BY <1>3 DEF ParentWoken, Woken, SchedOK, TypeOK, TaskState
<1> HIDE DEF W
<1>6. /\ next # current_task
      /\ next # BOOT => next \in TaskId /\ W[next] = "ready" /\ pstate[tproc[next]] = "alive"
  BY <1>2, <1>4 DEF ExitHeir, process_is_alive
<1>7. /\ tstate' \in [AnyTask -> TaskState] /\ pstate' \in [AnyPid -> ProcState]
      /\ current_task' = next /\ current_process' = tproc[next]
      /\ \A t \in AnyTask : tstate'[t] = IF t = next THEN "running"
                                          ELSE IF t = current_task THEN "finished" ELSE W[t]
      /\ \A q \in AnyPid : pstate'[q] = IF q = p THEN "finished" ELSE pstate[q]
  BY <1>1, <1>2, <1>3, <1>4, <1>5 DEF SwitchTo, TypeOK, TaskState, ProcState
<1>8. tproc[next] # p /\ pstate[tproc[next]] = "alive" /\ tproc[next] \in AnyPid
  <2>1. CASE next = BOOT BY <1>3, <2>1 DEF SchedOK
  <2>2. CASE next # BOOT
    <3>1. tstate[next] # "free" BY <1>5, <1>6, <2>2
    <3> QED BY <1>3, <1>4, <1>6, <2>2, <3>1 DEF TypeOK
  <2> QED BY <2>1, <2>2
<1>9. LiveTasks' = LiveTasks
  <2>1. \A t \in TaskId : tstate'[t] # "free" <=> tstate[t] # "free" BY <1>4, <1>5, <1>6, <1>7
  <2> QED BY <2>1 DEF LiveTasks
<1>10. SchedOK'
  <2>1. halted' \in BOOLEAN BY <1>2
  <2>2. TypeOK' BY <1>1, <1>3, <1>7, <1>8, <2>1 DEF TypeOK
  <2>3. OneRunning'
    <3>1. \A t \in AnyTask : tstate[t] = "running" => t = current_task BY <1>3 DEF SchedOK, OneRunning
    <3>2. \A t \in AnyTask : W[t] = "running" => t = current_task BY <1>5, <3>1
    <3> QED BY <1>7, <3>2 DEF OneRunning
  <2>4. ActiveSpaceAlive' BY <1>1, <1>7, <1>8 DEF ActiveSpaceAlive, process_is_alive
  <2>5. NoOrphanTask'
    <3> SUFFICES ASSUME NEW t \in LiveTasks
                 PROVE  /\ pstate'[tproc[t]] # "none"
                        /\ tstate'[t] # "finished" => pstate'[tproc[t]] = "alive"
      BY <1>1, <1>9 DEF NoOrphanTask, process_is_alive
    <3>1. /\ pstate[tproc[t]] # "none" /\ t \in TaskId /\ tproc[t] \in AnyPid
          /\ tstate[t] # "finished" => pstate[tproc[t]] = "alive"
      BY <1>3 DEF SchedOK, NoOrphanTask, process_is_alive, LiveTasks, TypeOK
    <3>2. CASE t = current_task BY <1>4, <1>6, <1>7, <3>1, <3>2
    <3>3. CASE t # current_task
      <4>1. tproc[t] # p BY <1>4, <3>1, <3>3 DEF LiveTasks
      <4>2. pstate'[tproc[t]] = pstate[tproc[t]] BY <1>7, <3>1, <4>1
      <4>3. tstate[t] = "finished" => tstate'[t] = "finished" BY <1>5, <1>6, <1>7, <3>1, <3>3
      <4> QED BY <3>1, <4>2, <4>3
    <3> QED BY <3>2, <3>3
  <2>6. FreshIds'
    <3>1. \A t \in TaskId : tstate'[t] = "free" <=> tstate[t] = "free" BY <1>4, <1>5, <1>6, <1>7
    <3>2. \A q \in Pid : pstate'[q] = "none" <=> pstate[q] = "none" BY <1>4, <1>7
    <3> QED BY <1>1, <1>3, <3>1, <3>2 DEF SchedOK, FreshIds
  <2>7. tproc'[BOOT] = BOOT /\ pstate'[BOOT] = "alive" /\ tstate'[BOOT] \in {"ready", "running"}
    BY <1>1, <1>3, <1>4, <1>5, <1>7 DEF SchedOK
  <2>8. ~preemption_enabled' /\ \A t \in AnyTask : tkind'[t] = "coop"
    BY <1>1, <1>3 DEF SchedOK
  <2>9. /\ \A t \in LiveTasks' : tproc'[t] \in Pid
        /\ \A t, u \in LiveTasks' : tproc'[t] = tproc'[u] => t = u
    BY <1>1, <1>3, <1>9 DEF SchedOK
  <2> QED BY <2>2, <2>3, <2>4, <2>5, <2>6, <2>7, <2>8, <2>9 DEF SchedOK
<1>11. /\ rec' \in [Pid -> Record \cup {NoRecord}]
       /\ \A b \in Pid \ {p} : rec'[b] = rec[b]
       /\ rec'[p] # NoRecord /\ rec'[p].exited = TRUE /\ rec'[p].parent = rec[p].parent
       /\ rec'[p].detached = rec[p].detached
  <2> DEFINE r == [rec[p] EXCEPT !.exited = TRUE]
  <2>1. rec \in [Pid -> Record \cup {NoRecord}] BY DEF SpawnInv, SpawnTypeOK
  <2>2. rec[p] \in Record BY <1>1, <2>1
  <2>3. /\ r \in Record /\ r.exited = TRUE /\ r.parent = rec[p].parent
        /\ r.detached = rec[p].detached
    BY <2>2 DEF Record
  <2>4. rec' = [rec EXCEPT ![p] = r] BY <1>1, <2>1
  <2> HIDE DEF r
  <2> QED BY <2>1, <2>3, <2>4, RecordFacts
<1>12. SpawnTypeOK'
  <2>1. TypeOK' BY <1>10 DEF SchedOK
  <2> QED BY <1>1, <1>11, <2>1 DEF SpawnInv, SpawnTypeOK
<1>13. RecordsKept'
  <2>1. p # 1 BY <1>1, <1>3 DEF RecordsKept
  <2>2. pstate'[1] = "alive" /\ rec'[1] = NoRecord BY <1>3, <1>7, <1>11, <2>1 DEF RecordsKept
  <2>3. ASSUME NEW b \in Pid \ {1}
        PROVE  /\ rec'[b] # NoRecord <=> pstate'[b] # "none"
               /\ rec'[b] # NoRecord => (rec'[b].exited <=> pstate'[b] = "finished")
    <3>1. CASE b = p BY <1>7, <1>11, <3>1
    <3>2. CASE b # p BY <1>3, <1>7, <1>11, <3>2 DEF RecordsKept, active
    <3> QED BY <3>1, <3>2
  <2> QED BY <2>2, <2>3 DEF RecordsKept, active
<1>14. \A q : \A b \in Pid : Waitable(rec', b, q) <=> Waitable(rec, b, q)
  BY <1>1, <1>11 DEF Waitable
<1>15. WaitersKept'
  <2> SUFFICES ASSUME NEW q \in AnyPid, wait[q] # NotWaiting
               PROVE  /\ q \in Pid /\ pstate'[q] = "alive"
                      /\ \A b \in Pid : wait[q] = b => Waitable(rec', b, q)
    BY <1>1, SpelledNext
  <2>1. /\ q \in Pid /\ pstate[q] = "alive" /\ q # p
        /\ \A b \in Pid : wait[q] = b => Waitable(rec, b, q)
    BY <1>1, Spelled DEF SpawnInv
  <2> QED BY <1>7, <1>14, <2>1
<1>16. SleepersServed'
  <2> SUFFICES ASSUME NEW t \in TaskId, tstate'[t] = "blocked", wait[tproc[t]] # NotWaiting,
                      NEW b \in Pid, Waitable(rec', b, tproc[t]), wait[tproc[t]] \in {ANY, b}
               PROVE  pstate'[b] # "finished" /\ rec'[b].parent_waiting
    BY <1>1, SpelledNext
  <2>1. tstate[t] = "blocked" /\ W[t] = "blocked" BY <1>5, <1>7
  <2>2. Waitable(rec, b, tproc[t]) BY <1>14
  <2>3. pstate[b] # "finished" /\ rec[b].parent_waiting BY <2>1, <2>2, Spelled DEF SpawnInv
  <2>4. b # p
    <3> SUFFICES ASSUME b = p PROVE FALSE OBVIOUS
    <3>1. rec[p].parent_waiting /\ rec[p].parent = tproc[t] BY <2>2, <2>3 DEF Waitable
    <3> QED BY <1>5, <2>1, <3>1
  <2> QED BY <1>7, <1>11, <2>3, <2>4
<1> QED BY <1>10, <1>12, <1>13, <1>15, <1>16 DEF SpawnInv

----------------------------------------------------------------------------
(* The other steps                                                         *)

\* When no child is reaped, tasks and processes stay.
LEMMA NothingReaped ==
    ASSUME TypeOK
    PROVE  Finished({}) /\ ReapedTasks({}) = tstate /\ ReapedProcs({}) = pstate
BY DEF Finished, ReapedTasks, ReapedProcs, TypeOK

\* The first turn of WAITPID.
LEMMA WaitpidStep ==
    ASSUME SpawnInv, NEW p \in Pid, NEW sel \in AnyPid, m36_waitpid(p, sel)
    PROVE  SpawnInv'
<1>1. /\ current_process = p
      /\ UNCHANGED <<tproc, tkind, next_task_id, next_pid, modeVars>>
  BY DEF m36_waitpid, InUser
<1>2. /\ Finished(m36_reap_detached)
      /\ \A c \in m36_reap_detached : rec[c] # NoRecord /\ rec[c].detached
  BY DetachedFacts
<1>3. "EINVAL" \in Result BY DEF Result
<1>4. CASE ReturnError(p, "EINVAL", m36_reap_detached) BY <1>1, <1>2, <1>3, <1>4, ErrorStep
<1>5. ASSUME NEW c \in Pid, m36_record_any_finished(p, sel, c),
             ReturnReaped(p, c, m36_reap_detached)
      PROVE  SpawnInv'
  BY <1>1, <1>2, <1>5, ReapedStep
<1>6. CASE /\ Selected(p, sel) # {}
           /\ \A c \in Selected(p, sel) : pstate[c] # "finished"
           /\ BlockInWait(p, sel, m36_reap_detached)
  BY <1>1, <1>2, <1>6, BlockStep
<1> QED BY <1>4, <1>5, <1>6 DEF m36_waitpid

\* A later turn: the detached ones are not looked at.
LEMMA ResumeStep ==
    ASSUME SpawnInv, NEW p \in Pid, WaitpidResume(p)
    PROVE  SpawnInv'
<1>1. /\ current_process = p /\ wait[p] # NotWaiting
      /\ UNCHANGED <<tproc, tkind, next_task_id, next_pid, modeVars>>
  BY DEF WaitpidResume
<1>2. wait[p] \in AnyPid BY <1>1, Ids DEF SpawnInv, SpawnTypeOK
<1>3. Finished({}) /\ "EIO" \in Result BY NothingReaped DEF SpawnInv, SpawnTypeOK, Result
<1>4. CASE ReturnError(p, "EIO", {}) BY <1>1, <1>3, <1>4, ErrorStep
<1>5. ASSUME NEW c \in Pid, m36_record_any_finished(p, wait[p], c), ReturnReaped(p, c, {})
      PROVE  SpawnInv'
  BY <1>1, <1>3, <1>5, ReapedStep
<1>6. CASE /\ Selected(p, wait[p]) # {}
           /\ \A c \in Selected(p, wait[p]) : pstate[c] # "finished"
           /\ BlockInWait(p, wait[p], {})
  BY <1>1, <1>2, <1>3, <1>6, BlockStep
<1> QED BY <1>4, <1>5, <1>6 DEF WaitpidResume

\* The steps that leave the records and the calls alone.
LEMMA QuietStep ==
    ASSUME SpawnInv, NEW D, Finished(D),
           \A c \in D : rec[c] # NoRecord /\ rec[c].detached,
           SchedOK', pstate' = ReapedProcs(D), rec' = ReapedRecs(D),
           UNCHANGED <<tproc, wait, ret>>,
           \A t \in TaskId : tstate'[t] = "blocked" =>
               \/ tstate[t] = "blocked"
               \/ t = current_task /\ wait[current_process] = NotWaiting
    PROVE  SpawnInv'
<1> DEFINE p == current_process
<1>1. p \in AnyPid /\ wait \in [AnyPid -> AnyPid \cup {NotWaiting}] /\ ret' \in Result
  BY DEF SpawnInv, SpawnTypeOK, TypeOK
<1>2. wait' = [wait EXCEPT ![p] = wait[p]] /\ wait[p] \in AnyPid \cup {NotWaiting} BY <1>1
<1>3. RecordsAfter(p, D) BY ReapedRecords DEF Finished
<1>4. ASSUME wait[p] # NotWaiting
      PROVE  /\ p \in Pid /\ \A c \in Pid : wait[p] = c => Waitable(rec', c, p)
             /\ tstate'[current_task] # "blocked"
  <2>1. p \in Pid /\ \A c \in Pid : wait[p] = c => Waitable(rec, c, p)
    BY <1>1, <1>4, Spelled DEF SpawnInv
  <2>2. \A c \in Pid : Waitable(rec, c, p) => Waitable(rec', c, p)
    BY DEF Waitable, ReapedRecs
  <2>3. current_task \in TaskId /\ tstate[current_task] # "blocked" BY <2>1, CallerFacts
  <2> QED BY <1>4, <2>1, <2>2, <2>3
<1>5. p = current_process OBVIOUS
<1> HIDE DEF p
<1> QED BY <1>1, <1>2, <1>3, <1>4, <1>5, RecordStep

\* Any other system call, which reaps detached children on its way.
LEMMA OtherSyscallStep ==
    ASSUME SpawnInv, NEW p \in Pid, OtherSyscall(p)
    PROVE  SpawnInv'
<1>1. SchedOK BY DEF SpawnInv
<1>2. /\ tstate' = ReapedTasks(m36_reap_detached) /\ pstate' = ReapedProcs(m36_reap_detached)
      /\ rec' = ReapedRecs(m36_reap_detached)
      /\ UNCHANGED <<tproc, tkind, current_task, next_task_id, current_process, next_pid,
                     modeVars, wait, ret>>
  BY DEF OtherSyscall
<1>3. /\ Finished(m36_reap_detached)
      /\ \A c \in m36_reap_detached : rec[c] # NoRecord /\ rec[c].detached
  BY DetachedFacts
<1>4. SchedOK' BY <1>1, <1>2, <1>3, ReapKeeps
<1>5. \A t \in TaskId : tstate'[t] = "blocked" => tstate[t] = "blocked"
  BY <1>1, <1>2, <1>3, ReapFacts, Ids
<1> QED BY <1>2, <1>3, <1>4, <1>5, QuietStep

\* A switch that reaps nobody.
LEMMA PlainSwitch ==
    ASSUME SpawnInv, NEW s \in {"ready", "blocked"}, current_task = BOOT => s = "ready",
           s = "blocked" => wait[current_process] = NotWaiting,
           NEW next \in TaskId, IsNext(next, "coop", current_task),
           SwitchTo(next, [tstate EXCEPT ![current_task] = s]),
           UNCHANGED <<tproc, tkind, next_task_id, pstate, next_pid, modeVars, spawnVars>>
    PROVE  SpawnInv'
<1> USE Ids
<1>1. SchedOK /\ TypeOK BY DEF SpawnInv, SchedOK
<1>2. Finished({}) /\ ReapedTasks({}) = tstate /\ ReapedProcs({}) = pstate BY <1>1, NothingReaped
<1>3. SwitchTo(next, Leaving({}, s)) BY <1>2 DEF Leaving
<1>4. /\ SchedOK'
      /\ \A t \in AnyTask :
            tstate'[t] = IF t = next THEN "running" ELSE IF t = current_task THEN s
                         ELSE ReapedTasks({})[t]
  BY <1>1, <1>2, <1>3, SwitchKeeps
<1>5. ASSUME NEW t \in TaskId, tstate'[t] = "blocked"
      PROVE  \/ tstate[t] = "blocked"
             \/ t = current_task /\ wait[current_process] = NotWaiting
  <2>1. CASE t = current_task BY <1>4, <1>5, <2>1
  <2>2. CASE t # current_task BY <1>2, <1>4, <1>5, <2>2
  <2> QED BY <2>1, <2>2
<1>6. rec' = ReapedRecs({}) BY DEF ReapedRecs, spawnVars, SpawnInv, SpawnTypeOK
<1> QED BY <1>2, <1>4, <1>5, <1>6, QuietStep DEF spawnVars

\* A call that blocks for another reason.
LEMMA OtherBlockStep ==
    ASSUME SpawnInv, NEW p \in Pid, OtherBlock(p)
    PROVE  SpawnInv'
<1>1. /\ wait[current_process] = NotWaiting /\ current_task # BOOT
      /\ UNCHANGED <<tproc, tkind, next_task_id, pstate, next_pid, modeVars, spawnVars>>
      /\ \E next \in TaskId : /\ IsNext(next, "coop", current_task)
                              /\ SwitchTo(next, [tstate EXCEPT ![current_task] = "blocked"])
  BY DEF OtherBlock, InUser, task_block_current, MayBlock
<1> QED BY <1>1, PlainSwitch

\* A process yields.
LEMMA YieldStep ==
    ASSUME SpawnInv, Yield
    PROVE  SpawnInv'
<1>1. /\ UNCHANGED <<tproc, tkind, next_task_id, pstate, next_pid, modeVars, spawnVars>>
      /\ \E next \in TaskId : /\ IsNext(next, "coop", current_task)
                              /\ SwitchTo(next, [tstate EXCEPT ![current_task] = "ready"])
  BY DEF Yield, task_yield
<1> QED BY <1>1, PlainSwitch

\* A spurious wake-up.
LEMMA WakeStep ==
    ASSUME SpawnInv, NEW p \in Pid, Wake(p)
    PROVE  SpawnInv'
<1> USE Ids
<1>1. SchedOK /\ TypeOK BY DEF SpawnInv, SchedOK
<1>2. /\ tstate' = Woken(p) /\ pstate[p] = "alive"
      /\ UNCHANGED <<tproc, tkind, current_task, next_task_id, procVars, modeVars, spawnVars>>
  BY DEF Wake, task_wake_process, process_is_alive
<1>3. /\ tstate' \in [AnyTask -> TaskState]
      /\ \A t \in AnyTask : \/ tstate'[t] = tstate[t]
                            \/ t # BOOT /\ tstate[t] = "blocked" /\ tstate'[t] = "ready"
  BY <1>1, <1>2 DEF Woken, TypeOK, TaskState
<1>4. LiveTasks' = LiveTasks BY <1>3 DEF LiveTasks
<1>5. SchedOK'
  <2> USE <1>1, <1>2, <1>3 DEF SchedOK, procVars, modeVars
  <2>1. TypeOK' BY DEF TypeOK
  <2>2. OneRunning' BY DEF OneRunning, TypeOK
  <2>3. ActiveSpaceAlive' BY DEF ActiveSpaceAlive, process_is_alive
  <2>4. NoOrphanTask' BY <1>4 DEF NoOrphanTask, process_is_alive, LiveTasks
  <2>5. FreshIds' BY DEF FreshIds
  <2> QED BY <1>4, <2>1, <2>2, <2>3, <2>4, <2>5
<1>6. Finished({}) /\ ReapedProcs({}) = pstate BY <1>1, NothingReaped
<1>7. rec' = ReapedRecs({}) BY <1>2 DEF ReapedRecs, spawnVars, SpawnInv, SpawnTypeOK
<1>8. \A t \in TaskId : tstate'[t] = "blocked" => tstate[t] = "blocked" BY <1>3
<1> QED BY <1>2, <1>5, <1>6, <1>7, <1>8, QuietStep DEF spawnVars, procVars

\* The invariant holds when the session starts.
LEMMA SpawnInitOK == SpawnInit => SpawnInv
<1> SUFFICES ASSUME SpawnInit PROVE SpawnInv OBVIOUS
<1> USE Ids DEF SpawnInit
<1>1. TypeOK
  <2>1. tstate \in [AnyTask -> TaskState] /\ pstate \in [AnyPid -> ProcState]
        /\ tproc \in [AnyTask -> AnyPid] /\ tkind \in [AnyTask -> ContextKind]
    BY DEF TaskState, ProcState, ContextKind
  <2>2. /\ current_task \in AnyTask /\ current_process \in AnyPid OBVIOUS
  <2>3. next_task_id \in 1 .. TaskIdMax + 1 /\ next_pid \in 1 .. PidMax + 1
    BY BoundsAssumption, InitFitsAssumption
  <2>4. /\ preemption_enabled \in BOOLEAN /\ boot_frame \in BOOLEAN
        /\ fault \in BOOLEAN /\ halted \in BOOLEAN
    BY Zenon
  <2> QED BY <2>1, <2>2, <2>3, <2>4 DEF TypeOK
<1>2. \A t \in TaskId : tstate[t] # "free" <=> t = 1 BY DEF TaskId, AnyTask, BOOT
<1>3. LiveTasks \subseteq {1} BY <1>2 DEF LiveTasks
<1>4. SchedOK
  <2>1. OneRunning BY DEF OneRunning
  <2>2. ActiveSpaceAlive BY DEF ActiveSpaceAlive, process_is_alive, BOOT, AnyPid
  <2>3. NoOrphanTask
    BY <1>3, BoundsAssumption DEF NoOrphanTask, process_is_alive, AnyPid, Pid, LiveTasks, TaskId, AnyTask
  <2>4. FreshIds
    BY BoundsAssumption DEF FreshIds, AnyPid, Pid, TaskId, AnyTask, BOOT
  <2>5. pstate[BOOT] = "alive" BY DEF BOOT, AnyPid
  <2>6. tproc[BOOT] = BOOT BY DEF BOOT, AnyTask
  <2>7. \A t \in LiveTasks : tproc[t] \in Pid BY <1>3 DEF LiveTasks
  <2> QED BY <1>1, <1>3, <2>1, <2>2, <2>3, <2>4, <2>5, <2>6, <2>7 DEF SchedOK
<1>5. SpawnTypeOK BY <1>1 DEF SpawnTypeOK, Result
<1>6. RecordsKept
  BY BoundsAssumption DEF RecordsKept, active, Pid, AnyPid
<1>7. WaitersKept /\ SleepersServed BY <1>4 DEF WaitersKept, SleepersServed, SchedOK
<1> QED BY <1>4, <1>5, <1>6, <1>7 DEF SpawnInv

\* Every call, wake-up and switch keeps the invariant.
LEMMA SpawnStepOK == SpawnInv /\ [SpawnNext]_allVars => SpawnInv'
<1> SUFFICES ASSUME SpawnInv, [SpawnNext]_allVars PROVE SpawnInv' OBVIOUS
<1>1. CASE UNCHANGED allVars
  <2> USE <1>1 DEF allVars, vars, taskVars, procVars, modeVars, spawnVars, SpawnInv
  <2>1. SpawnTypeOK' BY DEF SpawnTypeOK, TypeOK
  <2>2. SchedOK'
    BY DEF SchedOK, TypeOK, OneRunning, ActiveSpaceAlive, NoOrphanTask, FreshIds, LiveTasks,
           process_is_alive
  <2>3. RecordsKept' BY DEF RecordsKept, active
  <2>4. WaitersKept' /\ SleepersServed' BY Spelled, SpelledNext
  <2> QED BY <2>1, <2>2, <2>3, <2>4
<1>2. ASSUME NEW p \in Pid, NEW d \in BOOLEAN, m36_spawn(p, d) PROVE SpawnInv'
  BY <1>2, SpawnStep
<1>3. ASSUME NEW p \in Pid, m36_exit(p) PROVE SpawnInv' BY <1>3, ExitStep
<1>4. ASSUME NEW p \in Pid, NEW sel \in AnyPid, m36_waitpid(p, sel) PROVE SpawnInv'
  BY <1>4, WaitpidStep
<1>5. ASSUME NEW p \in Pid, WaitpidResume(p) PROVE SpawnInv' BY <1>5, ResumeStep
<1>6. ASSUME NEW p \in Pid, OtherSyscall(p) PROVE SpawnInv' BY <1>6, OtherSyscallStep
<1>7. ASSUME NEW p \in Pid, OtherBlock(p) PROVE SpawnInv' BY <1>7, OtherBlockStep
<1>8. ASSUME NEW p \in Pid, Wake(p) PROVE SpawnInv' BY <1>8, WakeStep
<1>9. CASE Yield BY <1>9, YieldStep
<1> QED BY <1>1, <1>2, <1>3, <1>4, <1>5, <1>6, <1>7, <1>8, <1>9 DEF SpawnNext

----------------------------------------------------------------------------
(* Theorems                                                                *)

\* Every record, call and scheduler variable stays within its type.
THEOREM SpawnTypes == SpawnSpec => []SpawnTypeOK
<1>1. SpawnInv => SpawnTypeOK BY DEF SpawnInv
<1> QED BY <1>1, SpawnInitOK, SpawnStepOK, PTL DEF SpawnSpec

\* m36_waitpid never sleeps through the exit of a child it would take, and the
\* record it still points at when it wakes up is that child's, for any number of
\* processes and whatever else wakes them.
THEOREM NoLostExitAlways == SpawnSpec => []NoLostExit
<1>1. SpawnInv => NoLostExit
  <2> SUFFICES ASSUME SpawnInv PROVE NoLostExit OBVIOUS
  <2>1. RecordsTrue
    <3>1. RecordsKept /\ WaitersKept BY DEF SpawnInv
    <3>2. Pid \subseteq AnyPid /\ NotWaiting \notin AnyPid BY Ids
    <3>3. \A p, c \in Pid : wait[p] = c => m36_record_waitable(c, p)
      BY <3>1, <3>2 DEF WaitersKept
    <3> QED BY <3>1, <3>3 DEF RecordsTrue, RecordsKept
  <2>2. SleepersServed BY DEF SpawnInv
  <2> QED BY <2>1, <2>2 DEF NoLostExit, SleepersServed
<1> QED BY <1>1, SpawnInitOK, SpawnStepOK, PTL DEF SpawnSpec

\* The CPU stays with one task in a live address space also across SPAWN, EXIT
\* and WAITPID, which compose the operations of task.c.
THEOREM SpawnKeepsScheduler == SpawnSpec => [](OneRunning /\ ActiveSpaceAlive /\ NoOrphanTask)
<1>1. SpawnInv => OneRunning /\ ActiveSpaceAlive /\ NoOrphanTask BY DEF SpawnInv, SchedOK
<1> QED BY <1>1, SpawnInitOK, SpawnStepOK, PTL DEF SpawnSpec

\* What one step may do to the record of c.
Rightly(c) ==
    active(c) /\ rec'[c] = NoRecord =>
        /\ pstate[c] = "finished"
        /\ \/ rec[c].detached
           \/ /\ rec[c].parent = current_process
              /\ ret' = "reaped"
              /\ \A d \in Pid : active(d) /\ rec'[d] = NoRecord /\ ~rec[d].detached => d = c
              /\ wait[current_process] \notin {NotWaiting, ANY} => wait[current_process] = c
              /\ wait[current_process] = ANY =>
                    \A d \in Pid : /\ active(d)
                                   /\ rec[d].parent = current_process
                                   /\ ~rec[d].detached
                                   /\ pstate[d] = "finished"
                                   => c <= d

\* A step that forgets only detached records of finished children.
LEMMA OnlyDetached ==
    ASSUME SpawnInv, NEW p, NEW D, Finished(D), \A d \in D : rec[d].detached, RecordsAfter(p, D),
           NEW c \in Pid
    PROVE  Rightly(c)
BY DEF Rightly, RecordsAfter, active, Finished

\* ReturnReaped takes the one child that was asked for.
LEMMA ReapedRightly ==
    ASSUME SpawnInv, NEW p \in Pid, current_process = p, NEW D, Finished(D),
           \A d \in D : rec[d].detached,
           NEW sel, wait[p] \in {NotWaiting, sel}, NEW b \in Pid,
           m36_record_any_finished(p, sel, b), ReturnReaped(p, b, D), NEW c \in Pid
    PROVE  Rightly(c)
<1>1. /\ rec' = RecordsWith(p, wait[p], FALSE, D \cup {b}) /\ ret' = "reaped"
  BY DEF ReturnReaped, RecordsWith
<1>2. /\ Waitable(rec, b, p) /\ sel \in {ANY, b} /\ pstate[b] = "finished"
      /\ \A d \in Pid : Waitable(rec, d, p) /\ sel \in {ANY, d} /\ pstate[d] = "finished" => b <= d
  BY DEF m36_record_any_finished, Selected, m36_record_waitable, active, Waitable
<1>3. RecordsAfter(p, D \cup {b})
  <2>1. D \cup {b} \subseteq Pid BY DEF Finished
  <2> QED BY <1>1, <2>1, WaitingRecords
<1>4. \A d \in Pid : rec[d] # NoRecord /\ rec'[d] = NoRecord => d \in D \cup {b}
  BY <1>3 DEF RecordsAfter
<1> SUFFICES ASSUME active(c), rec'[c] = NoRecord, ~rec[c].detached
             PROVE  Rightly(c)
  BY <1>2, <1>4 DEF Rightly, active, Finished
<1>5. c = b BY <1>4 DEF active
<1>6. \A d \in Pid : active(d) /\ rec'[d] = NoRecord /\ ~rec[d].detached => d = c
  BY <1>4, <1>5 DEF active
<1>7. rec[c].parent = current_process /\ pstate[c] = "finished" BY <1>2, <1>5 DEF Waitable
<1>8. wait[p] \notin {NotWaiting, ANY} => wait[p] = c BY <1>2, <1>5
<1>9. wait[p] = ANY =>
        \A d \in Pid : active(d) /\ rec[d].parent = p /\ ~rec[d].detached /\ pstate[d] = "finished"
                       => c <= d
  <2>1. ANY # NotWaiting BY Ids
  <2> QED BY <1>2, <1>5, <2>1 DEF Waitable, active
<1> QED BY <1>1, <1>6, <1>7, <1>8, <1>9 DEF Rightly

\* A step that leaves the records alone forgets none.
LEMMA NoneForgotten ==
    ASSUME UNCHANGED rec, NEW c \in Pid
    PROVE  Rightly(c)
BY DEF Rightly, active

\* A WAITPID that goes to sleep reaps detached children only.
LEMMA BlockRightly ==
    ASSUME SpawnInv, NEW p \in Pid, NEW sel, NEW D, Finished(D), \A d \in D : rec[d].detached,
           BlockInWait(p, sel, D), NEW c \in Pid
    PROVE  Rightly(c)
<1>1. \E b \in BOOLEAN : rec' = RecordsWith(p, sel, b, D) BY DEF BlockInWait, RecordsWith
<1>2. D \subseteq Pid BY DEF Finished
<1>3. RecordsAfter(p, D) BY <1>1, <1>2, WaitingRecords
<1> QED BY <1>3, OnlyDetached

\* Every step that removes a record is by the caller entitled to it.
LEMMA RightlyStep ==
    ASSUME SpawnInv, [SpawnNext]_allVars, NEW c \in Pid
    PROVE  Rightly(c)
<1>0. /\ Finished(m36_reap_detached) /\ m36_reap_detached \subseteq Pid
      /\ \A d \in m36_reap_detached : rec[d].detached
      /\ Finished({}) /\ {} \subseteq Pid
  BY DetachedFacts, NothingReaped DEF SpawnInv, SpawnTypeOK, Finished
<1>1. CASE UNCHANGED allVars BY <1>1, NoneForgotten DEF allVars, spawnVars
<1>2. ASSUME NEW p \in Pid, NEW d \in BOOLEAN, m36_spawn(p, d) PROVE Rightly(c)
  <2> DEFINE new == [parent |-> p, detached |-> d, exited |-> FALSE, parent_waiting |-> FALSE]
  <2>1. rec' = [ReapedRecs(m36_reap_detached) EXCEPT ![next_pid] = new] BY <1>2 DEF m36_spawn
  <2>2. new # NoRecord
    <3>1. new.parent = p OBVIOUS
    <3> HIDE DEF new
    <3> QED BY <3>1, Ids DEF NoRecord
  <2> HIDE DEF new
  <2>3. rec'[c] = NoRecord => c \in m36_reap_detached \/ rec[c] = NoRecord
    BY <2>1, <2>2 DEF ReapedRecs
  <2> QED BY <1>0, <2>3 DEF Rightly, active, Finished
<1>3. ASSUME NEW p \in Pid, m36_exit(p) PROVE Rightly(c)
  <2>1. /\ rec' = [rec EXCEPT ![p].exited = TRUE] /\ rec[p] # NoRecord
        /\ rec \in [Pid -> Record \cup {NoRecord}]
    BY <1>3 DEF m36_exit, active, SpawnInv, SpawnTypeOK
  <2>2. rec[p] \in Record BY <2>1
  <2>3. [rec[p] EXCEPT !.exited = TRUE] \in Record BY <2>2 DEF Record
  <2>4. rec'[c] = NoRecord => rec[c] = NoRecord
    <3>1. CASE c = p
      <4>1. rec'[c] = [rec[p] EXCEPT !.exited = TRUE] BY <2>1, <3>1
      <4> QED BY <2>3, <4>1, RecordFacts
    <3>2. CASE c # p BY <2>1, <3>2
    <3> QED BY <3>1, <3>2
  <2> QED BY <2>4 DEF Rightly, active
<1>4. ASSUME NEW p \in Pid, NEW sel \in AnyPid, m36_waitpid(p, sel) PROVE Rightly(c)
  <2>1. current_process = p /\ wait[p] = NotWaiting BY <1>4 DEF m36_waitpid, InUser
  <2>2. CASE ReturnError(p, "EINVAL", m36_reap_detached)
    <3>1. rec' = ReapedRecs(m36_reap_detached) BY <2>2 DEF ReturnError
    <3>2. RecordsAfter(p, m36_reap_detached) BY <1>0, <3>1, ReapedRecords
    <3> QED BY <1>0, <3>2, OnlyDetached
  <2>3. ASSUME NEW b \in Pid, m36_record_any_finished(p, sel, b),
               ReturnReaped(p, b, m36_reap_detached)
        PROVE  Rightly(c)
    BY <1>0, <2>1, <2>3, ReapedRightly
  <2>4. CASE BlockInWait(p, sel, m36_reap_detached) BY <1>0, <2>4, BlockRightly
  <2> QED BY <1>4, <2>2, <2>3, <2>4 DEF m36_waitpid
<1>5. ASSUME NEW p \in Pid, WaitpidResume(p) PROVE Rightly(c)
  <2>1. current_process = p BY <1>5 DEF WaitpidResume
  <2>2. CASE ReturnError(p, "EIO", {})
    <3>1. rec' = ReapedRecs({}) BY <2>2 DEF ReturnError
    <3>2. RecordsAfter(p, {}) BY <1>0, <3>1, ReapedRecords
    <3> QED BY <1>0, <3>2, OnlyDetached
  <2>3. ASSUME NEW b \in Pid, m36_record_any_finished(p, wait[p], b), ReturnReaped(p, b, {})
        PROVE  Rightly(c)
    BY <1>0, <2>1, <2>3, ReapedRightly
  <2>4. CASE BlockInWait(p, wait[p], {}) BY <1>0, <2>4, BlockRightly
  <2> QED BY <1>5, <2>2, <2>3, <2>4 DEF WaitpidResume
<1>6. ASSUME NEW p \in Pid, OtherSyscall(p) PROVE Rightly(c)
  <2>1. rec' = ReapedRecs(m36_reap_detached) BY <1>6 DEF OtherSyscall
  <2>2. RecordsAfter(p, m36_reap_detached) BY <1>0, <2>1, ReapedRecords
  <2> QED BY <1>0, <2>2, OnlyDetached
<1>7. ASSUME NEW p \in Pid, OtherBlock(p) \/ Wake(p) PROVE Rightly(c)
  BY <1>7, NoneForgotten DEF OtherBlock, Wake, spawnVars
<1>8. CASE Yield BY <1>8, NoneForgotten DEF Yield, spawnVars
<1> QED BY <1>1, <1>2, <1>3, <1>4, <1>5, <1>6, <1>7, <1>8 DEF SpawnNext

\* m36_reap_record is reached only for a FINISHED child, by m36_reap_detached or
\* by the WAITPID of its own parent that asked for it, and one child per call: no
\* step of any process forgets another record.
THEOREM ReapedByRightCallerAlways == SpawnSpec => ReapedByRightCaller
<1>1. SpawnInv /\ [SpawnNext]_allVars => [\A c \in Pid : Rightly(c)]_allVars BY RightlyStep
<1>2. (\A c \in Pid : Rightly(c)) =>
         \A c \in Pid :
           active(c) /\ rec'[c] = NoRecord =>
            /\ pstate[c] = "finished"
            /\ \/ rec[c].detached
               \/ /\ rec[c].parent = current_process
                  /\ ret' = "reaped"
                  /\ \A d \in Pid :
                        /\ active(d) /\ rec'[d] = NoRecord /\ ~rec[d].detached
                        => d = c
                  /\ wait[current_process] \notin {NotWaiting, ANY}
                       => wait[current_process] = c
                  /\ wait[current_process] = ANY =>
                        \A d \in Pid : /\ active(d)
                                       /\ rec[d].parent = current_process
                                       /\ ~rec[d].detached
                                       /\ pstate[d] = "finished"
                                       => c <= d
  BY DEF Rightly
<1> QED BY <1>1, <1>2, SpawnInitOK, SpawnStepOK, PTL DEF SpawnSpec, ReapedByRightCaller

=============================================================================
