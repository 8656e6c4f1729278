------------------------------- MODULE Input -------------------------------
(***************************************************************************)
(* The input stream: src/kernel/core/input.c, the PS/2 interrupts that     *)
(* fill it (i8042.c, irq.c), INPUT_READ (syscall.c) and the input watch of *)
(* EVENT_WAIT (event_syscall.c).                                           *)
(*                                                                         *)
(* One CPU: cpu is the process whose task runs.  The kernel runs with      *)
(* interrupts off except where it halts, so an interrupt arrives between   *)
(* two instructions of a program or at a HLT.  The two waiting loops are   *)
(* cut at the point between the test of the queue and the sleep.           *)
(***************************************************************************)
EXTENDS Integers, Sequences

CONSTANTS
    Process,
    NoProcess,          \* pid 0; as cpu: the boot code
    Key,                \* the keys of the keyboard, by name
    ButtonMax,          \* the number of mouse buttons
    QueueCapacity,      \* BORING_INPUT_QUEUE_CAPACITY
    ReadMax,            \* BORING_INPUT_READ_MAX
    DroppedMax          \* UINT64_MAX, where the counter saturates

ASSUME InputAssumption ==
    /\ NoProcess \notin Process
    /\ {QueueCapacity, ReadMax, DroppedMax} \subseteq Nat \ {0}
    /\ ButtonMax \in Nat

Button == 1..ButtonMax          \* by the place of their bit in bits[]

\* The keys of each modifier bit.
Modifier == [shift |-> {"left_shift", "right_shift"},
             ctrl |-> {"left_ctrl", "right_ctrl"},
             alt |-> {"left_alt", "right_alt"},
             super |-> {"left_super", "right_super"}]

VARIABLES
    alive, blocked, cpu,
    pc,             \* where a process is: in Ring 3 or inside a waiting loop
    owner,          \* owner_pid, NoProcess when not owned
    owner_waiting,
    queue,          \* the events, oldest first, each with its owner (history)
    held, modifiers,
    dropped_events,
    buttons,        \* the buttons the mouse decoder believes down
    glitched,       \* the mouse decoder has been reset by an error (history)
    ret             \* how the last INPUT_READ ended

mouseVars == <<buttons, glitched>>
stateVars == <<owner, owner_waiting, queue, held, modifiers, dropped_events>>
inputVars == <<alive, blocked, cpu, pc, stateVars, mouseVars, ret>>

InputInit ==
    /\ alive = Process
    /\ blocked = {}
    /\ cpu \in Process
    /\ pc = [p \in Process |-> "user"]
    /\ owner = NoProcess
    /\ owner_waiting = FALSE
    /\ queue = <<>>
    /\ held = {}
    /\ modifiers = {}
    /\ dropped_events = 0
    /\ buttons = {}
    /\ glitched = FALSE
    /\ ret = "none"

----------------------------------------------------------------------------
(* The stream                                                              *)

input_modifier_mask(h) == {m \in DOMAIN Modifier : Modifier[m] \cap h # {}}

\* Pushing threads the part of the state that several events of one interrupt
\* change in turn.
Current == [queue |-> queue, dropped |-> dropped_events, waiting |-> owner_waiting]

\* A full queue drops the event.
input_push(st, e) ==
    IF Len(st.queue) = QueueCapacity
      THEN [st EXCEPT !.dropped = IF @ = DroppedMax THEN @ ELSE @ + 1]
      ELSE [st EXCEPT !.queue = Append(@, e), !.waiting = FALSE]

Apply(st) ==
    /\ queue' = st.queue
    /\ dropped_events' = st.dropped
    /\ owner_waiting' = st.waiting

Owned == owner # NoProcess

KeyEvent(k, down, mods, repeat) ==
    [type |-> "key", code |-> k, down |-> down, modifiers |-> mods,
     repeat |-> repeat, for |-> owner]

\* Mutant: the repeat flag is computed after the key has been marked.
SubmitKeyMarksFirst(k, down) ==
    /\ held' = IF down THEN held \cup {k} ELSE held \ {k}
    /\ modifiers' = input_modifier_mask(held')
    /\ Apply(input_push(Current, KeyEvent(k, down, modifiers', down /\ k \in held')))

boring_input_submit_key(k, down) ==
    /\ held' = IF down THEN held \cup {k} ELSE held \ {k}
    /\ modifiers' = input_modifier_mask(held')
    /\ Apply(input_push(Current, KeyEvent(k, down, modifiers', down /\ k \in held)))

boring_input_submit_mouse_move(st) ==
    input_push(st, [type |-> "move", modifiers |-> modifiers, for |-> owner])

boring_input_submit_mouse_button(st, b, down) ==
    input_push(st, [type |-> "button", code |-> b, down |-> down,
                    modifiers |-> modifiers, for |-> owner])

\* A packet: its movement first, then each button that changed.
i8042_emit_mouse_packet(moved, down) ==
    LET sent[i \in 0..ButtonMax] ==
            IF i = 0 THEN IF moved THEN boring_input_submit_mouse_move(Current) ELSE Current
            ELSE IF (i \in down) # (i \in buttons)
                   THEN boring_input_submit_mouse_button(sent[i - 1], i, i \in down)
                   ELSE sent[i - 1]
    IN  sent[ButtonMax]

\* input_clear_queue and input_clear_keys, and the new owner.
Handover(p) ==
    /\ owner' = p
    /\ owner_waiting' = FALSE
    /\ queue' = <<>>
    /\ held' = {}
    /\ modifiers' = {}
    /\ UNCHANGED dropped_events

----------------------------------------------------------------------------
(* Scheduling                                                              *)

Ready == alive \ blocked
Running(p) == cpu = p /\ p \in Ready
Calling(p) == Running(p) /\ pc[p] = "user"

yield(p) ==
    /\ Calling(p)
    /\ cpu' \in Ready
    /\ UNCHANGED <<alive, blocked, pc, stateVars, mouseVars, ret>>

----------------------------------------------------------------------------
(* Interrupts                                                              *)

\* Mutant: the loops test the queue with interrupts on.
EnabledInLoops == cpu # NoProcess

x86_64_interrupts_enabled ==
    /\ cpu # NoProcess
    /\ pc[cpu] \in {"user", "read_halted", "event_halted"}

\* Mutant: nobody is woken.
WakeNobody == UNCHANGED blocked

boring_event_input_irq ==
    blocked' = IF owner # NoProcess /\ queue' # <<>> THEN blocked \ {owner} ELSE blocked

\* A halted CPU goes on after the interrupt.
AfterHalt == pc' = [pc EXCEPT ![cpu] = CASE @ = "read_halted" -> "read_woken"
                                         [] @ = "event_halted" -> "event_woken"
                                         [] OTHER -> @]

\* IRQ 1 completes a key transition.  Keys of a keyboard that nobody owns are
\* not even remembered.
KeyboardIrq(k, down) ==
    /\ x86_64_interrupts_enabled
    /\ Owned
    /\ boring_input_submit_key(k, down)
    /\ boring_event_input_irq
    /\ AfterHalt
    /\ UNCHANGED <<alive, cpu, owner, mouseVars, ret>>

\* IRQ 12 completes a packet; the decoder runs with or without an owner.
MouseIrq(moved, down) ==
    /\ x86_64_interrupts_enabled
    /\ Apply(IF Owned THEN i8042_emit_mouse_packet(moved, down) ELSE Current)
    /\ buttons' = down
    /\ boring_event_input_irq
    /\ AfterHalt
    /\ UNCHANGED <<alive, cpu, owner, held, modifiers, glitched, ret>>

\* A byte with a parity or timeout error resets the mouse decoder.
MouseErrorIrq ==
    /\ x86_64_interrupts_enabled
    /\ buttons' = {}
    /\ glitched' = TRUE
    /\ UNCHANGED <<alive, cpu, stateVars, ret>>
    /\ boring_event_input_irq
    /\ AfterHalt

i8042_handle_irq ==
    \/ \E k \in Key, down \in BOOLEAN : KeyboardIrq(k, down)
    \/ \E moved \in BOOLEAN, down \in SUBSET Button : MouseIrq(moved, down)
    \/ MouseErrorIrq

\* The timer, or a byte that completes nothing.
timer_handle_irq ==
    /\ x86_64_interrupts_enabled
    /\ pc[cpu] # "user"
    /\ AfterHalt
    /\ UNCHANGED <<alive, blocked, cpu, stateVars, mouseVars, ret>>

----------------------------------------------------------------------------
(* System calls                                                            *)

boring_input_claim(p) ==
    /\ Calling(p)
    /\ ~Owned
    /\ Handover(p)
    /\ UNCHANGED <<alive, blocked, cpu, pc, mouseVars, ret>>

boring_input_release(p) ==
    /\ Calling(p)
    /\ owner = p
    /\ Handover(NoProcess)
    /\ UNCHANGED <<alive, blocked, cpu, pc, mouseVars, ret>>

\* EXIT: boring_input_process_teardown, then another task or the boot code.
m36_exit(p) ==
    /\ Calling(p)
    /\ IF owner = p THEN Handover(NoProcess) ELSE UNCHANGED stateVars
    /\ alive' = alive \ {p}
    /\ cpu' \in IF Ready = {p} THEN {NoProcess} ELSE Ready \ {p}
    /\ UNCHANGED <<blocked, pc, mouseVars, ret>>

\* A turn of INPUT_READ: up to ReadMax events, as many as the caller has room
\* for, or on to the sleep.
ReadTurn(p) ==
    /\ owner = p
    /\ IF queue # <<>>
         THEN \E n \in 1..ReadMax :
                /\ queue' = SubSeq(queue, n + 1, Len(queue))
                /\ pc' = [pc EXCEPT ![p] = "user"]
                /\ ret' = "events"
         ELSE /\ pc' = [pc EXCEPT ![p] = "read_empty"]
              /\ UNCHANGED <<queue, ret>>
    /\ UNCHANGED <<alive, blocked, cpu, owner, held, modifiers, dropped_events,
                   mouseVars>>

syscall_input_read(p) ==
    /\ Calling(p)
    /\ ReadTurn(p)
    /\ UNCHANGED owner_waiting

\* boring_input_wait_prepare and x86_64_enable_and_halt; an event that came in
\* between would make the call fail.
ReadSleep(p) ==
    /\ Running(p)
    /\ pc[p] = "read_empty"
    /\ IF queue = <<>>
         THEN /\ owner_waiting' = TRUE
              /\ pc' = [pc EXCEPT ![p] = "read_halted"]
              /\ UNCHANGED ret
         ELSE /\ pc' = [pc EXCEPT ![p] = "user"]
              /\ ret' = "EIO"
              /\ UNCHANGED owner_waiting
    /\ UNCHANGED <<alive, blocked, cpu, owner, queue, held, modifiers, dropped_events,
                   mouseVars>>

\* boring_input_wait_cancel, and the next turn.
ReadWoken(p) ==
    /\ Running(p)
    /\ pc[p] = "read_woken"
    /\ ReadTurn(p)
    /\ owner_waiting' = FALSE

\* A turn of EVENT_WAIT with an input watch.
EventTurn(p) ==
    /\ pc' = [pc EXCEPT ![p] = IF owner # p \/ queue # <<>> THEN "user"
                               ELSE "event_polled"]
    /\ UNCHANGED <<alive, blocked, cpu, stateVars, mouseVars, ret>>

event_wait(p) == Calling(p) /\ EventTurn(p)

\* task_block_current, or the halt when there is no task to switch to.
EventSleep(p) ==
    /\ Running(p)
    /\ pc[p] = "event_polled"
    /\ IF Ready # {p}
         THEN /\ blocked' = blocked \cup {p}
              /\ cpu' \in Ready \ {p}
              /\ pc' = [pc EXCEPT ![p] = "event_woken"]
         ELSE /\ pc' = [pc EXCEPT ![p] = "event_halted"]
              /\ UNCHANGED <<blocked, cpu>>
    /\ UNCHANGED <<alive, stateVars, mouseVars, ret>>

\* The task was woken, or the halt ended.
EventWoken(p) ==
    /\ Running(p)
    /\ pc[p] = "event_woken"
    /\ EventTurn(p)

\* Another watch of the call, or a child's exit, wakes the process.
SpuriousWake(p) ==
    /\ p \in blocked
    /\ blocked' = blocked \ {p}
    /\ UNCHANGED <<alive, cpu, pc, stateVars, mouseVars, ret>>

KernelStep(p) == ReadSleep(p) \/ ReadWoken(p) \/ EventSleep(p) \/ EventWoken(p)

InputNext ==
    \/ i8042_handle_irq
    \/ timer_handle_irq
    \/ \E p \in Process :
         \/ yield(p)
         \/ boring_input_claim(p)
         \/ boring_input_release(p)
         \/ m36_exit(p)
         \/ syscall_input_read(p)
         \/ event_wait(p)
         \/ KernelStep(p)
         \/ SpuriousWake(p)

InputSpec == InputInit /\ [][InputNext]_inputVars

\* The round robin of Sched reaches p when another process yields or blocks.
GivenCpu(p) ==
    \E q \in Process \ {p} : (yield(q) \/ EventSleep(q) \/ m36_exit(q)) /\ cpu' = p

----------------------------------------------------------------------------
(* Properties                                                              *)

\* What was typed for one owner never reaches the next: the queue holds only
\* events that arrived for the present owner, who is alive, and the wait flag
\* is up only while that owner sleeps in INPUT_READ.
OwnerIsolation ==
    /\ owner_waiting => Owned /\ pc[owner] \in {"read_halted", "read_woken"}
    /\ \A i \in DOMAIN queue : queue[i].for = owner
    /\ owner \in alive \cup {NoProcess}
    /\ ~Owned => queue = <<>> /\ held = {}

\* No event comes between the test of the queue and the sleep: nobody sleeps
\* in EVENT_WAIT on a queue with events, and INPUT_READ never fails for one.
NoLostWakeup ==
    /\ \A p \in blocked : owner = p => queue = <<>>
    /\ \A p \in alive : pc[p] = "read_halted" => queue = <<>>
    /\ ret # "EIO"

\* Two events of the same key or button that follow each other in the queue.
Successive(i, j) ==
    LET Same(k) == queue[k].type = queue[i].type /\ queue[k].code = queue[i].code
    IN  /\ i < j
        /\ queue[i].type \in {"key", "button"}
        /\ Same(j)
        /\ \A k \in (i + 1)..(j - 1) : queue[k].type = "move" \/ ~Same(k)

\* The stream is true to the devices, and to the owner it was typed for: the modifier bits are those of the keys
\* held, also while both keys of a modifier are down and one goes up; unless an
\* event had to be dropped, the repeat flag tells a second press from a press
\* that was never released; and unless a line error reset the decoder a button
\* goes down and up in turn.
StreamTrue ==
    /\ OwnerIsolation
    /\ modifiers = input_modifier_mask(held)
    /\ dropped_events = 0 =>
         \A i, j \in DOMAIN queue : Successive(i, j) =>
            IF queue[i].type = "key"
              THEN queue[j].repeat = (queue[i].down /\ queue[j].down)
              ELSE glitched \/ queue[j].down # queue[i].down

\* An owner that waits while there are events gets back to Ring 3.
OwnerReturns ==
    \A p \in Process :
        (owner = p /\ pc[p] # "user" /\ queue # <<>>) ~> pc[p] = "user"
=============================================================================
