------------------------------- MODULE Spawn -------------------------------
(***************************************************************************)
(* SPAWN, EXIT and WAITPID of scheduled processes                          *)
(* (src/kernel/core/m36_syscall.c) on top of the scheduler of Sched.       *)
(*                                                                         *)
(* A system call runs without leaving the CPU except where it blocks, so   *)
(* an action is a call, or the part of WAITPID from one wake-up to the     *)
(* next block or return.  Process 1 is boring-init, which the boot code    *)
(* creates without a spawn record.  What processes do besides is the       *)
(* environment: they may yield or block in any other call (OtherBlock),    *)
(* and any process may be woken at any time by an IPC peer, a PTY writer   *)
(* or an interrupt (task_wake_process), which for a process in WAITPID is  *)
(* a spurious wake-up.                                                     *)
(***************************************************************************)
EXTENDS Sched

\* There is room for boring-init.
ASSUME InitFitsAssumption == PidMax > 0 /\ TaskIdMax > 0

VARIABLES
    rec,        \* the spawn record of a child, by the child's pid
    wait,       \* the WAITPID selector a process is inside, or NotWaiting
    ret         \* how the last WAITPID to return ended

spawnVars == <<rec, wait, ret>>
allVars == <<vars, spawnVars>>

ANY == 0                        \* WAITPID(0, status)
NotWaiting == PidMax + 1
NoRecord == [parent |-> BOOT]
Record == [parent : Pid, detached : BOOLEAN, exited : BOOLEAN,
           parent_waiting : BOOLEAN]
Result == {"none", "reaped", "EINVAL", "EBUSY", "EIO"}

active(c) == rec[c] # NoRecord

\* boring-init exists and its task is READY; the boot code has the CPU.
SpawnInit ==
    /\ tstate = [t \in AnyTask |-> IF t = BOOT THEN "running"
                                   ELSE IF t = 1 THEN "ready" ELSE "free"]
    /\ tproc = [t \in AnyTask |-> IF t = 1 THEN 1 ELSE BOOT]
    /\ tkind = [t \in AnyTask |-> "coop"]
    /\ pstate = [p \in AnyPid |-> IF p <= 1 THEN "alive" ELSE "none"]
    /\ current_task = BOOT
    /\ current_process = BOOT
    /\ next_task_id = 2
    /\ next_pid = 2
    /\ preemption_enabled = FALSE
    /\ boot_frame = FALSE
    /\ fault = FALSE
    /\ halted = FALSE
    /\ rec = [c \in Pid |-> NoRecord]
    /\ wait = [p \in AnyPid |-> NotWaiting]
    /\ ret = "none"

----------------------------------------------------------------------------
(* Records                                                                 *)

m36_record_waitable(c, p) == active(c) /\ ~rec[c].detached /\ rec[c].parent = p

\* The children of p that a WAITPID with this selector concerns.
Selected(p, sel) ==
    {c \in Pid : m36_record_waitable(c, p) /\ sel \in {ANY, c}}

\* Mutant: the last finished child found wins, not the lowest pid.
HighestFinished(p, sel, c) ==
    LET F == {d \in Selected(p, sel) : pstate[d] = "finished"}
    IN  c \in F /\ \A d \in F : d <= c

\* The child WAITPID takes: the exact one, or the finished one of lowest pid.
m36_record_any_finished(p, sel, c) ==
    LET F == {d \in Selected(p, sel) : pstate[d] = "finished"}
    IN  c \in F /\ \A d \in F : c <= d

\* parent_waiting of every child the selector concerns.
m36_set_parent_waiting(p, sel, waiting) ==
    [c \in Pid |-> IF c \in Selected(p, sel)
                   THEN [rec[c] EXCEPT !.parent_waiting = waiting]
                   ELSE rec[c]]

\* m36_reap_record for each child of a set: task_reap_finished_process, then
\* process_destroy, then the record itself.

ReapedTasks(D) ==
    [t \in AnyTask |-> IF t # BOOT /\ tproc[t] \in D THEN "free" ELSE tstate[t]]
ReapedProcs(D) == [p \in AnyPid |-> IF p \in D THEN "none" ELSE pstate[p]]
ReapedRecs(D) == [c \in Pid |-> IF c \in D THEN NoRecord ELSE rec[c]]

\* Mutant: nobody reaps.
ReapNobody == {}

\* What m36_reap_detached reaps on every system call of any process.
m36_reap_detached ==
    {c \in Pid : /\ active(c)
                 /\ rec[c].detached
                 /\ rec[c].exited
                 /\ pstate[c] = "finished"}

\* The current process is a Ring 3 program about to make a system call.
InUser(p) ==
    /\ Executing
    /\ current_process = p
    /\ wait[p] = NotWaiting

----------------------------------------------------------------------------
(* SPAWN                                                                   *)

\* Every failure of m36_spawn undoes what it did (m36_spawn_rollback) and
\* leaves the state as m36_reap_detached left it: that is OtherSyscall.
m36_spawn(p, isDetached) ==
    LET D == m36_reap_detached
        child == next_pid
    IN  /\ InUser(p)
        /\ Cardinality({c \in Pid \ D : active(c)}) < ProcessLimit
        /\ next_pid <= PidMax
        /\ Cardinality(LiveProcs \ D) < ProcessLimit
        /\ next_task_id <= TaskIdMax
        /\ Cardinality({t \in LiveTasks : tproc[t] \notin D}) < TaskLimit
        /\ pstate' = [ReapedProcs(D) EXCEPT ![child] = "alive"]
        /\ next_pid' = next_pid + 1
        /\ tstate' = [ReapedTasks(D) EXCEPT ![next_task_id] = "ready"]
        /\ tproc' = [tproc EXCEPT ![next_task_id] = child]
        /\ next_task_id' = next_task_id + 1
        /\ rec' = [ReapedRecs(D) EXCEPT ![child] =
                     [parent |-> p, detached |-> isDetached, exited |-> FALSE,
                      parent_waiting |-> FALSE]]
        /\ UNCHANGED <<tkind, current_task, current_process, modeVars, wait, ret>>

----------------------------------------------------------------------------
(* EXIT                                                                    *)

\* Mutant: the parent is not woken.
ParentNotWoken(p) == tstate

\* The states after the wake-up of the parent, if it is waiting.
ParentWoken(p) == IF rec[p].parent_waiting THEN Woken(rec[p].parent) ELSE tstate

\* The heir of the exiting task once the parent has been woken.
ExitHeir(next, states) ==
    LET C == {t \in TaskId \ {current_task} :
                  states[t] = "ready" /\ process_is_alive(tproc[t])}
        later == {t \in C : t > current_task}
    IN  IF C = {} THEN next = BOOT
        ELSE /\ next \in C
             /\ later # {} => next \in later
             /\ \A t \in IF later # {} THEN later ELSE C : next <= t

\* m36_exit: the process gives up its devices, IPC handles, memory and image,
\* the waiting parent becomes READY, and task_exit_current_process makes the
\* process FINISHED and switches away.  With no READY task the CPU goes back
\* to the boot code, which takes its return from task_yield for an error and
\* halts the machine.
m36_exit(p) ==
    /\ InUser(p)
    /\ active(p)
    /\ rec' = [rec EXCEPT ![p].exited = TRUE]
    /\ pstate' = [pstate EXCEPT ![p] = "finished"]
    /\ \E next \in AnyTask :
         /\ ExitHeir(next, ParentWoken(p))
         /\ SwitchTo(next, [ParentWoken(p) EXCEPT ![current_task] = "finished"])
         /\ halted' = (next = BOOT)
    /\ UNCHANGED <<tproc, tkind, next_task_id, next_pid, preemption_enabled,
                   boot_frame, fault, wait, ret>>

----------------------------------------------------------------------------
(* WAITPID                                                                 *)

\* Return from WAITPID with nothing reaped.  D is what m36_reap_detached
\* reaped when the call began.
ReturnError(p, error, D) ==
    /\ tstate' = ReapedTasks(D)
    /\ pstate' = ReapedProcs(D)
    /\ rec' = ReapedRecs(D)
    /\ wait' = [wait EXCEPT ![p] = NotWaiting]
    /\ ret' = error
    /\ UNCHANGED <<current_task, current_process>>

\* The status is copied out and the child's task, process and record go.
ReturnReaped(p, c, D) ==
    /\ tstate' = ReapedTasks(D \cup {c})
    /\ pstate' = ReapedProcs(D \cup {c})
    /\ rec' = [d \in Pid |->
                 IF d \in D \cup {c} THEN NoRecord
                 ELSE m36_set_parent_waiting(p, wait[p], FALSE)[d]]
    /\ wait' = [wait EXCEPT ![p] = NotWaiting]
    /\ ret' = "reaped"
    /\ UNCHANGED <<current_task, current_process>>

\* parent_waiting is raised, then task_block_current switches away; with no
\* other READY task it refuses, and WAITPID gives up with EBUSY.
BlockInWait(p, sel, D) ==
    \/ \E next \in TaskId :
         /\ IsNext(next, "coop", current_task)
         /\ SwitchTo(next, [ReapedTasks(D) EXCEPT ![current_task] = "blocked"])
         /\ pstate' = ReapedProcs(D)
         /\ rec' = [c \in Pid |-> IF c \in D THEN NoRecord
                                  ELSE m36_set_parent_waiting(p, sel, TRUE)[c]]
         /\ wait' = [wait EXCEPT ![p] = sel]
         /\ UNCHANGED ret
    \/ /\ Candidates("coop", current_task) = {}
       /\ tstate' = ReapedTasks(D)
       /\ pstate' = ReapedProcs(D)
       /\ rec' = [c \in Pid |-> IF c \in D THEN NoRecord
                                ELSE m36_set_parent_waiting(p, sel, FALSE)[c]]
       /\ wait' = [wait EXCEPT ![p] = NotWaiting]
       /\ ret' = "EBUSY"
       /\ UNCHANGED <<current_task, current_process>>

\* The call, up to its first block or its return.
m36_waitpid(p, sel) ==
    LET D == m36_reap_detached
    IN  /\ InUser(p)
        /\ \/ /\ Selected(p, sel) = {}
              /\ ReturnError(p, "EINVAL", D)
           \/ \E c \in Pid : /\ m36_record_any_finished(p, sel, c)
                             /\ ReturnReaped(p, c, D)
           \/ /\ Selected(p, sel) # {}
              /\ \A c \in Selected(p, sel) : pstate[c] # "finished"
              /\ BlockInWait(p, sel, D)
        /\ UNCHANGED <<tproc, tkind, next_task_id, next_pid, modeVars>>

\* The call after a wake-up: it lowers parent_waiting and looks again.
WaitpidResume(p) ==
    LET sel == wait[p]
    IN  /\ Executing
        /\ current_process = p
        /\ sel # NotWaiting
        /\ \/ \E c \in Pid : /\ m36_record_any_finished(p, sel, c)
                             /\ ReturnReaped(p, c, {})
           \/ /\ \A c \in Selected(p, sel) : pstate[c] # "finished"
              /\ IF Selected(p, sel) = {}
                   THEN ReturnError(p, "EIO", {})
                   ELSE BlockInWait(p, sel, {})
        /\ UNCHANGED <<tproc, tkind, next_task_id, next_pid, modeVars>>

----------------------------------------------------------------------------
(* The rest of the system                                                  *)

\* Any other system call: x86_64_syscall_dispatch_m36 reaps detached children.
OtherSyscall(p) ==
    /\ InUser(p)
    /\ m36_reap_detached # {}
    /\ tstate' = ReapedTasks(m36_reap_detached)
    /\ pstate' = ReapedProcs(m36_reap_detached)
    /\ rec' = ReapedRecs(m36_reap_detached)
    /\ UNCHANGED <<tproc, tkind, current_task, next_task_id, current_process, next_pid,
                   modeVars, wait, ret>>

\* A process blocks in another call (EVENT_WAIT, IPC_RECEIVE, a PTY read).
OtherBlock(p) ==
    /\ InUser(p)
    /\ task_block_current
    /\ UNCHANGED spawnVars

\* EVENT_WAIT and the boot code yield.
Yield ==
    /\ wait[current_process] = NotWaiting
    /\ task_yield
    /\ UNCHANGED spawnVars

Wake(p) == task_wake_process(p) /\ UNCHANGED spawnVars

SpawnNext ==
    \/ \E p \in Pid :
         \/ \E d \in BOOLEAN : m36_spawn(p, d)
         \/ m36_exit(p)
         \/ \E sel \in AnyPid : m36_waitpid(p, sel)
         \/ WaitpidResume(p)
         \/ OtherSyscall(p)
         \/ OtherBlock(p)
         \/ Wake(p)
    \/ Yield

SpawnSpec == SpawnInit /\ [][SpawnNext]_allVars

\* The cooperative contract: a running program yields while another task is
\* READY, makes system calls, and a WAITPID that has the CPU goes on.
SpawnFairSpec ==
    /\ SpawnSpec
    /\ WF_allVars(Yield)
    /\ \A p \in Pid : /\ WF_allVars(WaitpidResume(p))
                      /\ SF_allVars(OtherSyscall(p))

----------------------------------------------------------------------------
(* Properties                                                              *)

\* Type invariant.
SpawnTypeOK ==
    /\ TypeOK
    /\ rec \in [Pid -> Record \cup {NoRecord}]
    /\ wait \in [AnyPid -> AnyPid \cup {NotWaiting}]
    /\ ret \in Result

\* A spawned process has its record exactly as long as its process object,
\* and the record says "exited" exactly when the process is FINISHED; the
\* record a blocked exact WAITPID still points at when it wakes up has not
\* been freed meanwhile.
RecordsTrue ==
    /\ \A c \in Pid \ {1} :
         /\ active(c) <=> pstate[c] # "none"
         /\ active(c) => (rec[c].exited <=> pstate[c] = "finished")
    /\ \A p, c \in Pid :
         wait[p] = c /\ process_is_alive(p) => m36_record_waitable(c, p)

\* No child exit is lost: a process BLOCKED inside WAITPID has no finished
\* child that the call would take, whatever else woke it and in whichever
\* order children exited (set parent_waiting, block, recheck); and the records
\* tell the truth while they are read.
NoLostExit ==
    /\ RecordsTrue
    /\ \A t \in LiveTasks :
          LET p == tproc[t]
          IN  /\ p # BOOT
              /\ tstate[t] = "blocked"
              /\ wait[p] # NotWaiting
              => \A c \in Selected(p, wait[p]) : pstate[c] # "finished"

\* A record goes away only once, by a WAITPID of the child's own parent that
\* asked for it and took the lowest finished pid, or by the detached reaper;
\* and only when the child is FINISHED.
ReapedByRightCaller ==
    [][\A c \in Pid :
         active(c) /\ rec'[c] = NoRecord =>
            /\ pstate[c] = "finished"
            /\ \/ rec[c].detached
               \/ /\ rec[c].parent = current_process
                  /\ ret' = "reaped"
                  /\ \A d \in Pid :
                        /\ active(d) /\ rec'[d] = NoRecord /\ ~rec[d].detached
                        => d = c
                  /\ wait[current_process] \notin {NotWaiting, ANY}
                       => wait[current_process] = c
                  /\ wait[current_process] = ANY =>
                        \A d \in Pid : /\ active(d)
                                       /\ rec[d].parent = current_process
                                       /\ ~rec[d].detached
                                       /\ pstate[d] = "finished"
                                       => c <= d]_allVars

\* A process in WAITPID gets the child it waits for once that child exited.
WaiterServed ==
    \A p, c \in Pid :
        (wait[p] = c /\ pstate[c] = "finished" /\ active(c)) ~> ~active(c)

\* Every live process sleeps in a call.
Asleep ==
    \A t \in TaskId : tstate[t] \in {"ready", "running"} => wait[tproc[t]] # NotWaiting

\* A detached child does not stay a zombie as long as somebody makes system
\* calls: it is reaped, unless every process sleeps or the machine has halted.
DetachedReaped ==
    \A c \in Pid :
        (active(c) /\ rec[c].detached /\ pstate[c] = "finished")
            ~> (~active(c) \/ halted \/ Asleep)

\* What the boot code asserts: once PID 1 runs, the CPU never comes back to it
\* ("PID 1 unexpectedly returned to bootstrap", m38_desktop_test.c).
NeverBackToBoot == ~halted
=============================================================================
