------------------------------- MODULE Sched -------------------------------
(***************************************************************************)
(* The kernel's task scheduler and process registry                        *)
(* (src/kernel/core/task.c, src/kernel/core/process.c).                    *)
(*                                                                         *)
(* One CPU, cooperative tasks that leave the CPU only by yielding,         *)
(* blocking, finishing or exiting, and a preemptive mode in which the      *)
(* timer interrupt moves the CPU between preemptive tasks.  Every          *)
(* operation of task.c runs with interrupts disabled, so each is one       *)
(* atomic action of whoever holds the CPU.                                 *)
(*                                                                         *)
(* The registry is a list to which task_create_internal appends; task      *)
(* identifiers are handed out in increasing order and never reused, so     *)
(* list order is identifier order and the list is the set of identifiers   *)
(* whose state is not "free".  Task 0 is bootstrap_task, which is not in   *)
(* the list; process 0 is the bootstrap process.                           *)
(***************************************************************************)
EXTENDS Naturals, FiniteSets

CONSTANTS
    TaskIdMax,      \* bound on next_task_id (UINT64_MAX in the code)
    PidMax,         \* bound on next_pid (UINT64_MAX in the code)
    TaskLimit,      \* KERNEL_TASK_POLICY_LIMIT
    ProcessLimit    \* KERNEL_PROCESS_POLICY_LIMIT

ASSUME BoundsAssumption ==
    /\ TaskIdMax \in Nat
    /\ PidMax \in Nat
    /\ TaskLimit \in Nat
    /\ ProcessLimit \in Nat

BOOT == 0                       \* KERNEL_BOOTSTRAP_TASK_ID, KERNEL_BOOTSTRAP_PID
TaskId == 1 .. TaskIdMax
AnyTask == 0 .. TaskIdMax
Pid == 1 .. PidMax
AnyPid == 0 .. PidMax

TaskState == {"free", "ready", "running", "blocked", "finished"}
ContextKind == {"coop", "preempt"}
ProcState == {"none", "alive", "finished"}

VARIABLES
    tstate,             \* task->state, "free" while the identifier has no task object
    tproc,              \* task->process
    tkind,              \* task->context_kind
    pstate,             \* process->state, "none" while the pid has no process object
    current_task,
    current_process,
    next_task_id,
    next_pid,
    preemption_enabled,
    boot_frame,         \* bootstrap_task.preempt_frame # NULL
    fault,              \* scheduler_fault_count # 0
    halted              \* x86_64_halt_forever was reached

taskVars == <<tstate, tproc, tkind, current_task, next_task_id>>
procVars == <<pstate, current_process, next_pid>>
modeVars == <<preemption_enabled, boot_frame, fault, halted>>
vars == <<taskVars, procVars, modeVars>>

----------------------------------------------------------------------------
(* State                                                                   *)

LiveTasks == {t \in TaskId : tstate[t] # "free"}
LiveProcs == {p \in Pid : pstate[p] # "none"}
TasksOf(p) == {t \in LiveTasks : tproc[t] = p}
process_is_alive(p) == pstate[p] = "alive"

\* Kernel code of the current task is executing: the machine has not halted
\* and the current task is not a FINISHED one parked in its hlt loop.
Executing == ~halted /\ tstate[current_task] = "running"

\* task_init: the bootstrap task runs in the bootstrap process, no registry.
Init ==
    /\ tstate = [t \in AnyTask |-> IF t = BOOT THEN "running" ELSE "free"]
    /\ tproc = [t \in AnyTask |-> BOOT]
    /\ tkind = [t \in AnyTask |-> "coop"]
    /\ pstate = [p \in AnyPid |-> IF p = BOOT THEN "alive" ELSE "none"]
    /\ current_task = BOOT
    /\ current_process = BOOT
    /\ next_task_id = 1
    /\ next_pid = 1
    /\ preemption_enabled = FALSE
    /\ boot_frame = FALSE
    /\ fault = FALSE
    /\ halted = FALSE

----------------------------------------------------------------------------
(* Selection and switching                                                 *)

\* Mutant: the READY test accepts a task that still waits.
CandidatesBlockedToo(kind, from) ==
    {t \in TaskId \ {from} : /\ tstate[t] \in {"ready", "blocked"}
                             /\ tkind[t] = kind
                             /\ process_is_alive(tproc[t])}

\* What task_select_next_cooperative / _preemptive accept as a candidate.
Candidates(kind, from) ==
    {t \in TaskId \ {from} : /\ tstate[t] = "ready"
                             /\ tkind[t] = kind
                             /\ process_is_alive(tproc[t])}

\* Mutant: the walk always starts at the head of the registry.
IsNextFromHead(next, kind, from) ==
    /\ next \in Candidates(kind, from)
    /\ \A t \in Candidates(kind, from) : next <= t

\* The first candidate met walking the registry cyclically from the
\* successor of from; the head of the list when from is the bootstrap task.
IsNext(next, kind, from) ==
    LET C == Candidates(kind, from)
        later == {t \in C : t > from}
    IN  /\ next \in C
        /\ later # {} => next \in later
        /\ \A t \in IF later # {} THEN later ELSE C : next <= t

\* Mutant: the switch leaves the old address space active.
SwitchToNoActivate(next, states) ==
    /\ tstate' = [states EXCEPT ![next] = "running"]
    /\ current_task' = next
    /\ current_process' = current_process

\* The common tail of every switch: process_activate(next->process), then
\* next becomes RUNNING and current.  states is tstate with the old task's
\* new state already written.
SwitchTo(next, states) ==
    /\ tstate' = [states EXCEPT ![next] = "running"]
    /\ current_task' = next
    /\ current_process' = tproc[next]

----------------------------------------------------------------------------
(* Processes and tasks come and go in pairs of calls.  process.c knows no   *)
(* task and task.c neither creates nor destroys processes: that the two     *)
(* registries agree is up to the order in which the callers call them.      *)
(* A caller keeps the CPU from the first call to the last, so each action   *)
(* of this section is a caller's sequence of calls.                         *)

process_create ==
    /\ next_pid <= PidMax
    /\ Cardinality(LiveProcs) < ProcessLimit
    /\ pstate' = [pstate EXCEPT ![next_pid] = "alive"]
    /\ next_pid' = next_pid + 1

\* The states of the processes procs once p was marked, unless it is refused.
process_mark_finished(p, procs) ==
    IF procs[p] = "alive" /\ current_process # p
      THEN [procs EXCEPT ![p] = "finished"]
      ELSE procs

\* The same for process_destroy.
process_destroy(p, procs) ==
    IF procs[p] = "finished" /\ current_process # p
      THEN [procs EXCEPT ![p] = "none"]
      ELSE procs

\* A task for a process that is alive in procs.
task_create_internal(p, kind, procs) ==
    /\ ~preemption_enabled
    /\ procs[p] = "alive"
    /\ next_task_id <= TaskIdMax
    /\ Cardinality(LiveTasks) < TaskLimit
    /\ tstate' = [tstate EXCEPT ![next_task_id] = "ready"]
    /\ tproc' = [tproc EXCEPT ![next_task_id] = p]
    /\ tkind' = [tkind EXCEPT ![next_task_id] = kind]
    /\ next_task_id' = next_task_id + 1

\* The boot code gives the bootstrap process another task.
task_create(kind) ==
    /\ Executing
    /\ task_create_internal(BOOT, kind, pstate)
    /\ UNCHANGED <<current_task, procVars, modeVars>>

\* m36_spawn, and the boot code for the processes it starts itself: a new
\* process, then its only task.  When the task is refused m36_spawn takes the
\* process back with process_discard_unstarted, which also hands the pid out
\* again: nothing has changed by the time anybody else looks.
spawn(kind) ==
    /\ Executing
    /\ process_create
    /\ task_create_internal(next_pid, kind, pstate')
    /\ UNCHANGED <<current_task, current_process, modeVars>>

\* Frees every task of a FINISHED process, or none.
task_reap_finished_process(p) ==
    /\ ~preemption_enabled
    /\ p # current_process
    /\ pstate[p] = "finished"
    /\ TasksOf(p) # {}
    /\ \A t \in TasksOf(p) : t # current_task /\ tstate[t] = "finished"
    /\ tstate' = [t \in AnyTask |->
                     IF t \in TasksOf(p) THEN "free" ELSE tstate[t]]

\* Mutant: the process goes first.  task_reap_finished_process then finds no
\* FINISHED process and refuses.
ReapDestroysFirst(p) ==
    /\ Executing
    /\ pstate[p] = "finished"
    /\ pstate' = process_destroy(p, pstate)
    /\ UNCHANGED <<taskVars, current_process, next_pid, modeVars>>

\* A finished child: its tasks, then the process.  A refusal of the first
\* leaves both for another time ("reap deferred").
m36_reap_record(p) ==
    /\ Executing
    /\ task_reap_finished_process(p)
    /\ pstate' = process_destroy(p, pstate)
    /\ UNCHANGED <<tproc, tkind, current_task, next_task_id, current_process, next_pid,
                   modeVars>>

BootstrapHasCpu ==
    /\ current_task = BOOT
    /\ tstate[BOOT] = "running"
    /\ current_process = tproc[BOOT]

task_cleanup_finished ==
    /\ ~preemption_enabled
    /\ BootstrapHasCpu
    /\ \A t \in LiveTasks : tstate[t] = "finished"
    /\ tstate' = [t \in AnyTask |-> IF t \in LiveTasks THEN "free" ELSE tstate[t]]

\* The end of a boot test (process_test.c, ipc_test.c): all tasks, then each
\* process it created, which its task left FINISHED (task_exit_current_process)
\* or alive (its entry returned).
BootTeardown ==
    /\ Executing
    /\ LiveTasks # {}
    /\ task_cleanup_finished
    /\ pstate' = [p \in AnyPid |->
                     IF p \in LiveProcs
                       THEN process_destroy(p, process_mark_finished(p, pstate))[p]
                       ELSE pstate[p]]
    /\ UNCHANGED <<tproc, tkind, current_task, next_task_id, current_process, next_pid,
                   modeVars>>

----------------------------------------------------------------------------
(* Yielding, blocking, waking, finishing                                   *)

\* Mutant: the yielding task is not put back to READY.
YieldStaysRunning ==
    /\ Executing
    /\ ~preemption_enabled
    /\ \E next \in TaskId :
         /\ IsNext(next, "coop", current_task)
         /\ SwitchTo(next, tstate)
    /\ UNCHANGED <<tproc, tkind, next_task_id, pstate, next_pid, modeVars>>

\* With no other READY cooperative task the caller simply keeps running.
task_yield ==
    /\ Executing
    /\ ~preemption_enabled
    /\ \E next \in TaskId :
         /\ IsNext(next, "coop", current_task)
         /\ SwitchTo(next, [tstate EXCEPT ![current_task] = "ready"])
    /\ UNCHANGED <<tproc, tkind, next_task_id, pstate, next_pid, modeVars>>

\* The guard of task_block_current: what must hold for it to try at all.
MayBlock ==
    /\ Executing
    /\ ~preemption_enabled
    /\ current_task # BOOT
    /\ tkind[current_task] = "coop"

\* task_block_current returning true.  It returns false, with nothing
\* changed, when no other cooperative task is READY.
task_block_current ==
    /\ MayBlock
    /\ \E next \in TaskId :
         /\ IsNext(next, "coop", current_task)
         /\ SwitchTo(next, [tstate EXCEPT ![current_task] = "blocked"])
    /\ UNCHANGED <<tproc, tkind, next_task_id, pstate, next_pid, modeVars>>

\* task_wake_process: every BLOCKED cooperative task of a live process.
Woken(p) ==
    [t \in AnyTask |->
        IF /\ t # BOOT
           /\ tproc[t] = p
           /\ tkind[t] = "coop"
           /\ tstate[t] = "blocked"
        THEN "ready"
        ELSE tstate[t]]

task_wake_process(p) ==
    /\ ~halted
    /\ process_is_alive(p)
    /\ \E t \in TasksOf(p) : tstate[t] = "blocked"
    /\ tstate' = Woken(p)
    /\ UNCHANGED <<tproc, tkind, current_task, next_task_id, procVars, modeVars>>

\* The task a finishing task hands the CPU to.
Heir(next, from) ==
    \/ IsNext(next, "coop", from)
    \/ next = BOOT /\ Candidates("coop", from) = {}

\* Mutant: the process is marked before the heir's address space is active;
\* process_mark_finished refuses the current process and the machine halts.
ExitMarksFirst ==
    /\ MayBlock
    /\ current_process # BOOT
    /\ tstate' = [tstate EXCEPT ![current_task] = "finished"]
    /\ halted' = TRUE
    /\ UNCHANGED <<tproc, tkind, current_task, next_task_id, procVars,
                   preemption_enabled, boot_frame, fault>>

\* task_exit_current_process.  process_mark_finished refuses the bootstrap
\* process and the process that has just been activated: then the machine
\* halts.  Callers run it for spawned processes only.
task_exit_current_process ==
    /\ MayBlock
    /\ current_process # BOOT
    /\ \E next \in AnyTask :
         /\ Heir(next, current_task)
         /\ IF process_is_alive(current_process) /\ tproc[next] # current_process
              THEN /\ pstate' = [pstate EXCEPT ![current_process] = "finished"]
                   /\ SwitchTo(next, [tstate EXCEPT ![current_task] = "finished"])
                   /\ halted' = FALSE
              ELSE /\ tstate' = [tstate EXCEPT ![current_task] = "finished"]
                   /\ halted' = TRUE
                   /\ UNCHANGED <<pstate, current_task, current_process>>
    /\ UNCHANGED <<tproc, tkind, next_task_id, next_pid, preemption_enabled,
                   boot_frame, fault>>

\* task_finish_current of a cooperative task: its entry function returned.
task_finish_cooperative ==
    /\ MayBlock
    /\ \E next \in AnyTask :
         /\ Heir(next, current_task)
         /\ SwitchTo(next, [tstate EXCEPT ![current_task] = "finished"])
    /\ UNCHANGED <<tproc, tkind, next_task_id, pstate, next_pid, modeVars>>

\* task_finish_current under preemption: FINISHED, then hlt until a tick
\* takes the CPU away.
task_finish_preemptive ==
    /\ Executing
    /\ preemption_enabled
    /\ current_task # BOOT
    /\ tstate' = [tstate EXCEPT ![current_task] = "finished"]
    /\ UNCHANGED <<tproc, tkind, current_task, next_task_id, procVars, modeVars>>

----------------------------------------------------------------------------
(* Preemption                                                              *)

task_preemption_start ==
    /\ ~halted
    /\ ~preemption_enabled
    /\ BootstrapHasCpu
    /\ LiveTasks # {}
    /\ \A t \in LiveTasks : /\ tstate[t] = "ready"
                            /\ process_is_alive(tproc[t])
                            /\ tkind[t] = "preempt"
    /\ boot_frame' = FALSE
    /\ fault' = FALSE
    /\ preemption_enabled' = TRUE
    /\ UNCHANGED <<taskVars, procVars, halted>>

task_preemption_stop ==
    /\ ~halted
    /\ preemption_enabled
    /\ BootstrapHasCpu
    /\ preemption_enabled' = FALSE
    /\ boot_frame' = FALSE
    /\ UNCHANGED <<taskVars, procVars, fault, halted>>

\* What task_scheduler_tick demands of the task it interrupted.
TickValid ==
    /\ process_is_alive(tproc[current_task])
    /\ current_process = tproc[current_task]
    /\ current_task # BOOT => /\ tkind[current_task] = "preempt"
                              /\ tstate[current_task] \in {"running", "finished"}

\* The interrupted task's state once its trap frame is saved.
Parked ==
    [tstate EXCEPT ![current_task] =
        IF current_task = BOOT \/ @ = "running" THEN "ready" ELSE @]

\* One timer interrupt.  A FINISHED task with no successor falls back to the
\* bootstrap task, whose trap frame must have been saved by an earlier tick;
\* an unfinished one keeps the CPU.
task_scheduler_tick ==
    /\ ~halted
    /\ preemption_enabled
    /\ LET from == current_task
           none == Candidates("preempt", from) = {}
           fallback == none /\ Parked[from] = "finished"
       IN  IF ~TickValid \/ (fallback /\ ~boot_frame)
             THEN /\ fault' = TRUE
                  /\ preemption_enabled' = FALSE
                  /\ UNCHANGED <<tstate, current_task, current_process, boot_frame>>
             ELSE /\ boot_frame' = (boot_frame \/ from = BOOT)
                  /\ UNCHANGED <<fault, preemption_enabled>>
                  /\ \/ /\ none
                        /\ ~fallback
                        /\ tstate' = [tstate EXCEPT ![from] = "running"]
                        /\ UNCHANGED <<current_task, current_process>>
                     \/ /\ fallback
                        /\ SwitchTo(BOOT, Parked)
                     \/ /\ \E next \in TaskId : IsNext(next, "preempt", from)
                                                /\ SwitchTo(next, Parked)
    /\ UNCHANGED <<tproc, tkind, next_task_id, pstate, next_pid, halted>>

----------------------------------------------------------------------------
Next ==
    \/ \E kind \in ContextKind : spawn(kind) \/ task_create(kind)
    \/ \E p \in Pid : m36_reap_record(p) \/ task_wake_process(p)
    \/ BootTeardown
    \/ task_yield
    \/ task_block_current
    \/ task_exit_current_process
    \/ task_finish_cooperative
    \/ task_finish_preemptive
    \/ task_preemption_start
    \/ task_preemption_stop
    \/ task_scheduler_tick

Spec == Init /\ [][Next]_vars

\* The cooperative contract (a task that runs eventually calls into the
\* scheduler while another one is READY) and a periodic timer.
FairSpec == Spec /\ WF_vars(task_yield) /\ WF_vars(task_scheduler_tick)

----------------------------------------------------------------------------
(* Properties                                                              *)

\* Type invariant.
TypeOK ==
    /\ tstate \in [AnyTask -> TaskState]
    /\ tproc \in [AnyTask -> AnyPid]
    /\ tkind \in [AnyTask -> ContextKind]
    /\ pstate \in [AnyPid -> ProcState]
    /\ current_task \in AnyTask
    /\ current_process \in AnyPid
    /\ next_task_id \in 1 .. TaskIdMax + 1
    /\ next_pid \in 1 .. PidMax + 1
    /\ preemption_enabled \in BOOLEAN
    /\ boot_frame \in BOOLEAN
    /\ fault \in BOOLEAN
    /\ halted \in BOOLEAN

\* The CPU belongs to exactly one task: no task but current_task is RUNNING,
\* and current_task is RUNNING unless it is a preemptive task that finished
\* and waits for the tick that takes the CPU from it (task_finish_current).
OneRunning ==
    /\ \A t \in AnyTask : tstate[t] = "running" => t = current_task
    /\ \/ tstate[current_task] = "running"
       \/ tstate[current_task] = "finished" /\ preemption_enabled

\* The active address space is the running task's, and it still exists: a
\* switch never leaves CR3 on the tables of a process that finished or was
\* destroyed (process_activate before process_mark_finished in
\* task_exit_current_process).
ActiveSpaceAlive ==
    /\ current_process = tproc[current_task]
    /\ process_is_alive(current_process)

\* The two registries agree although neither module looks at the other's: no
\* task object points at a process that is gone (the walks of task.c read
\* task->process of every task), and a FINISHED process is one the reaper will
\* not be refused: it has tasks, all of them are FINISHED and none has the CPU.
\* A process without a task, or with one that still runs, could never be
\* reaped: task_reap_finished_process would refuse it at every attempt.
RegistriesAgree ==
    /\ \A t \in LiveTasks : pstate[tproc[t]] # "none"
    /\ \A p \in Pid :
          /\ pstate[p] # "none" => TasksOf(p) # {}
          /\ pstate[p] = "finished" =>
                /\ p # current_process
                /\ \A t \in TasksOf(p) : t # current_task /\ tstate[t] = "finished"

\* Identifiers are fresh: no task has an id that task_create_internal will
\* still hand out, and no process a pid that process_create will.
FreshIds ==
    /\ \A t \in TaskId : t >= next_task_id => tstate[t] = "free"
    /\ \A p \in Pid : p >= next_pid => pstate[p] = "none"

\* No defensive branch is reachable: task_exit_current_process never halts
\* the machine and task_scheduler_tick never records a scheduler fault
\* (process_test.c asserts scheduler_fault_count = 0).
NoFaultNoHalt == ~fault /\ ~halted

\* While preemption is on every task is preemptive and unblocked, and once
\* the CPU has left the bootstrap task its trap frame is there to return to.
PreemptionClosed ==
    preemption_enabled =>
        /\ \A t \in LiveTasks :
              tkind[t] = "preempt" /\ tstate[t] \in {"ready", "running", "finished"}
        /\ current_task # BOOT => boot_frame

\* What a step may do to the states of registered tasks.
ReadyStep ==
    /\ current_task' # current_task => tstate[current_task'] = "ready"
    /\ \A t \in TaskId : tstate[t] = "blocked" => tstate'[t] \in {"blocked", "ready"}
    /\ \A t \in TaskId : tstate[t] = "finished" => tstate'[t] \in {"finished", "free"}

\* The CPU never passes to a task that is not READY: not to a BLOCKED one
\* nobody woke, nor to a FINISHED one (finished_resume_count stays 0); and a
\* BLOCKED task leaves that state only to READY.
RunsOnlyWhenReady == [][ReadyStep]_vars

\* Round robin starves nobody: a cooperative task that is READY runs, however
\* the others yield, block, wake, exit and are reaped meanwhile; under
\* preemption the tick reaches every READY task, or preemption ends.
ReadyRuns ==
    \A t \in TaskId :
        /\ (tstate[t] = "ready" /\ tkind[t] = "coop") ~> (tstate[t] = "running")
        /\ (preemption_enabled /\ tstate[t] = "ready")
              ~> (tstate[t] = "running" \/ ~preemption_enabled)
=============================================================================
