------------------------------ MODULE MCSched ------------------------------
(* Small instances of Sched and of Input for TLC.  A behaviour exercises    *)
(* the one that focus names.                                               *)
EXTENDS Sched, Input

VARIABLE focus

SuiteInit ==
    /\ Init /\ InputInit
    /\ focus \in {"sched", "input"}
    /\ focus = "sched" => cpu = CHOOSE p \in Process : TRUE

SuiteNext ==
    \/ focus = "sched" /\ Next /\ UNCHANGED <<inputVars, focus>>
    \/ focus = "input" /\ InputNext /\ UNCHANGED <<vars, focus>>

\* The fairness of FairSpec for the scheduler.  Under Input the kernel goes on,
\* the timer ticks, and the round robin reaches a READY task as long as the
\* others yield or block.
SuiteSpec ==
    /\ SuiteInit
    /\ [][SuiteNext]_<<vars, inputVars, focus>>
    /\ WF_vars(focus = "sched" /\ task_yield)
    /\ WF_vars(focus = "sched" /\ task_scheduler_tick)
    /\ WF_inputVars(focus = "input" /\ timer_handle_irq)
    /\ \A p \in Process : /\ WF_inputVars(focus = "input" /\ KernelStep(p))
                          /\ SF_inputVars(focus = "input" /\ GivenCpu(p))
                          /\ WF_inputVars(focus = "input" /\ yield(p))
=============================================================================
