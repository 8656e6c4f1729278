-------------------------------- MODULE Pty --------------------------------
(***************************************************************************)
(* Pseudo terminals and the descriptor tables that hold them:              *)
(* src/kernel/core/pty.c, src/kernel/core/fd.c, PTY_CREATE and the stdio   *)
(* of SPAWN (m36_syscall.c), FD_READ and FD_WRITE on a PTY (syscall.c) and *)
(* the descriptor watches of EVENT_WAIT (event_syscall.c).                 *)
(*                                                                         *)
(* A call runs to its return or to task_block_current without another task *)
(* running; any process that is not BLOCKED may be the one that runs.  A   *)
(* call that fails undoes what it did and is left out, except for a read   *)
(* that cannot block.  Of the bytes in a ring only their number is kept    *)
(* (their order is the business of Ring), of a handle its pair and its end *)
(* (its generation is the business of Handles).  Descriptors of regular    *)
(* files are not modelled here.                                            *)
(***************************************************************************)
EXTENDS Integers, FiniteSets, SequencesExt

CONSTANTS
    Process,            \* processes; a pid is never used twice
    FirstProcess,       \* the one that exists from the start
    NoProcess,          \* pid 0
    PairMax,            \* KERNEL_PTY_MAX
    FirstRegular,       \* KERNEL_FD_FIRST_REGULAR
    FdMax,              \* KERNEL_FD_MAX
    RingCapacity,       \* KERNEL_PTY_RING_CAPACITY
    ExclusiveReaders    \* whether programs keep to one reader per endpoint

ASSUME PtyAssumption ==
    /\ FirstProcess \in Process /\ NoProcess \notin Process /\ IsFiniteSet(Process)
    /\ {PairMax, FirstRegular, FdMax, RingCapacity} \subseteq Nat \ {0}
    /\ FirstRegular <= FdMax
    /\ ExclusiveReaders \in BOOLEAN

Pair == 1..PairMax
End == {"master", "slave"}
peer_endpoint(e) == CHOOSE f \in End : f # e
Fd == 0..(FdMax - 1)
STDIN == 0
Stdio == 0..(FirstRegular - 1)

Unused == [kind |-> "unused", access |-> {}]
Console(f) == IF f = STDIN THEN [kind |-> "console_input", access |-> {"read"}]
              ELSE [kind |-> "console_output", access |-> {"write"}]
PtySlot(k, e, acc) == [kind |-> "pty", access |-> acc, pair |-> k, end |-> e]
InUser == [op |-> "user"]

VARIABLES
    state,      \* of a process: "new", "alive" or "finished"
    fd,         \* the descriptor table of each process
    used,       \* used of a pair
    refs,       \* refs[] of a pair
    queued,     \* the bytes waiting to be read at an end
    waiter,     \* read_waiter_pid[] of a pair
    blocked,    \* the processes whose task is BLOCKED
    call,       \* the blocking call a process is inside, or InUser
    ret         \* how the last blocking call ended

pairVars == <<used, refs, queued, waiter>>
vars == <<state, fd, pairVars, blocked, call, ret>>

kernel_fd_table_init == [f \in Fd |-> IF f \in Stdio THEN Console(f) ELSE Unused]

Init ==
    /\ state = [p \in Process |-> IF p = FirstProcess THEN "alive" ELSE "new"]
    /\ fd = [p \in Process |-> IF p = FirstProcess THEN kernel_fd_table_init
                               ELSE [f \in Fd |-> Unused]]
    /\ used = [k \in Pair |-> FALSE]
    /\ refs = [k \in Pair |-> [e \in End |-> 0]]
    /\ queued = [k \in Pair |-> [e \in End |-> 0]]
    /\ waiter = [k \in Pair |-> [e \in End |-> NoProcess]]
    /\ blocked = {}
    /\ call = [p \in Process |-> InUser]
    /\ ret = "none"

----------------------------------------------------------------------------
(* Pairs.  pty_close threads the state that closing several descriptors in *)
(* a row changes; st.woken are the processes passed to task_wake_pid.      *)

Current == [used |-> used, refs |-> refs, queued |-> queued, waiter |-> waiter,
            woken |-> {}]

Running(p) == state[p] = "alive" /\ p \notin blocked
Calling(p) == Running(p) /\ call[p] = InUser
IsPty(p, f, acc) == fd[p][f].kind = "pty" /\ acc \in fd[p][f].access

\* Whoever waits at end e of pair k is woken, once.
wake_endpoint(st, k, e) ==
    [st EXCEPT !.woken = @ \cup ({st.waiter[k][e]} \ {NoProcess}),
               !.waiter[k][e] = NoProcess]

\* Mutant: the bytes nobody read stay in the rings.
ResetKeepsBytes(st, k) ==
    [st EXCEPT !.used[k] = FALSE,
               !.refs[k] = [e \in End |-> 0],
               !.waiter[k] = [e \in End |-> NoProcess]]

pair_reset(st, k) ==
    [st EXCEPT !.used[k] = FALSE,
               !.refs[k] = [e \in End |-> 0],
               !.queued[k] = [e \in End |-> 0],
               !.waiter[k] = [e \in End |-> NoProcess]]

\* Mutant: the other end is not told.
CloseWithoutWake(st, k, e) ==
    LET st1 == [st EXCEPT !.refs[k][e] = @ - 1]
        st2 == IF st1.refs[k][e] = 0
                 THEN [st1 EXCEPT !.waiter[k][e] = NoProcess] ELSE st1
    IN  IF \A end \in End : st2.refs[k][end] = 0 THEN pair_reset(st2, k) ELSE st2

\* The last descriptor of an end wakes the reader of the other end; the last
\* descriptor of all gives the pair back.
pty_close(st, k, e) ==
    LET st1 == [st EXCEPT !.refs[k][e] = @ - 1]
        st2 == IF st1.refs[k][e] = 0
                 THEN wake_endpoint([st1 EXCEPT !.waiter[k][e] = NoProcess],
                                    k, peer_endpoint(e))
                 ELSE st1
    IN  IF \A end \in End : st2.refs[k][end] = 0 THEN pair_reset(st2, k) ELSE st2

CloseSlot(st, slot) ==
    IF slot.kind = "pty" THEN pty_close(st, slot.pair, slot.end) ELSE st

\* The state st, with its wake-ups, becomes the new state.
Apply(st) ==
    /\ used' = st.used
    /\ refs' = st.refs
    /\ queued' = st.queued
    /\ waiter' = st.waiter
    /\ blocked' = blocked \ st.woken

----------------------------------------------------------------------------
(* Calls that do not block                                                 *)

kernel_fd_free_slot(p, f) ==
    /\ f \in Fd \ Stdio
    /\ fd[p][f] = Unused
    /\ \A g \in Fd \ Stdio : fd[p][g] = Unused => f <= g

\* The first free pair, its ends in the first two free descriptors.  The
\* references of pty_create_pair itself are given back once the descriptors
\* have theirs.
m36_pty_create(p) ==
    /\ Calling(p)
    /\ \E k \in Pair, f, g \in Fd :
         /\ ~used[k] /\ \A j \in Pair : ~used[j] => k <= j
         /\ kernel_fd_free_slot(p, f)
         /\ g \in (Fd \ Stdio) \ {f} /\ fd[p][g] = Unused
         /\ \A h \in (Fd \ Stdio) \ {f} : fd[p][h] = Unused => g <= h
         /\ fd' = [fd EXCEPT ![p][f] = PtySlot(k, "master", {"read", "write"}),
                             ![p][g] = PtySlot(k, "slave", {"read", "write"})]
         /\ used' = [used EXCEPT ![k] = TRUE]
         /\ refs' = [refs EXCEPT ![k] = [e \in End |-> 1]]
         /\ queued' = [queued EXCEPT ![k] = [e \in End |-> 0]]
         /\ waiter' = [waiter EXCEPT ![k] = [e \in End |-> NoProcess]]
    /\ UNCHANGED <<state, blocked, call, ret>>

\* The access a stdio descriptor of a child needs.
Required(f) == IF f = STDIN THEN "read" ELSE "write"

\* kernel_fd_clone_stdio: slot f of the child from descriptor src of the parent.
CanClone(p, src, f) ==
    /\ Required(f) \in fd[p][src].access
    /\ fd[p][src].kind \in {"pty", Console(f).kind}
kernel_fd_clone_stdio(p, src, f) ==
    IF fd[p][src].kind = "pty"
      THEN PtySlot(fd[p][src].pair, fd[p][src].end, {Required(f)})
      ELSE Console(f)

\* SPAWN: the child's stdio are descriptors src[0], src[1], ... of the parent,
\* each with a reference of its own.
m36_spawn(p, c, src) ==
    LET child == [f \in Fd |-> IF f \in Stdio THEN kernel_fd_clone_stdio(p, src[f], f)
                               ELSE Unused]
    IN  /\ Calling(p)
        /\ state[c] = "new"
        /\ \A f \in Stdio : CanClone(p, src[f], f)
        /\ state' = [state EXCEPT ![c] = "alive"]
        /\ fd' = [fd EXCEPT ![c] = child]
        /\ refs' = [k \in Pair |-> [e \in End |->
                      refs[k][e] + Cardinality({f \in Stdio :
                                      /\ child[f].kind = "pty"
                                      /\ child[f].pair = k
                                      /\ child[f].end = e})]]
        /\ UNCHANGED <<used, queued, waiter, blocked, call, ret>>

kernel_fd_close(p, f) ==
    /\ Calling(p)
    /\ fd[p][f].kind = "pty"
    /\ Apply(CloseSlot(Current, fd[p][f]))
    /\ fd' = [fd EXCEPT ![p][f] = Unused]
    /\ UNCHANGED <<state, call, ret>>

\* Every descriptor, in order.
kernel_fd_table_destroy(p) ==
    LET closed[i \in 0..FdMax] ==
            IF i = 0 THEN Current ELSE CloseSlot(closed[i - 1], fd[p][i - 1])
    IN  closed[FdMax]

\* EXIT: process_mark_finished destroys the table.
process_mark_finished(p) ==
    /\ Calling(p)
    /\ Apply(kernel_fd_table_destroy(p))
    /\ fd' = [fd EXCEPT ![p] = [f \in Fd |-> Unused]]
    /\ state' = [state EXCEPT ![p] = "finished"]
    /\ UNCHANGED <<call, ret>>

\* FD_WRITE of n bytes, as many as fit: it never blocks.  With no room
\* (EBUSY) and with the other end closed (EPIPE) nothing happens.
pty_write(p, f, n) ==
    LET k == fd[p][f].pair
        to == peer_endpoint(fd[p][f].end)
        room == RingCapacity - queued[k][to]
    IN  /\ Calling(p)
        /\ IsPty(p, f, "write")
        /\ refs[k][to] > 0
        /\ room > 0
        /\ Apply(wake_endpoint([Current EXCEPT !.queued[k][to] =
                                  @ + IF n < room THEN n ELSE room], k, to))
        /\ UNCHANGED <<state, fd, call, ret>>

----------------------------------------------------------------------------
(* Blocking calls                                                          *)

\* The ends a process watches inside a call.
Watched(p) ==
    IF call[p] = InUser THEN {}
    ELSE {<<fd[p][f].pair, fd[p][f].end>> : f \in call[p].fds}

\* The discipline: no two processes wait at the same end.
MayWaitAt(p, F) ==
    ExclusiveReaders =>
        \A q \in Process \ {p}, f \in F :
            <<fd[p][f].pair, fd[p][f].end>> \notin Watched(q)

\* pty_poll: bytes to read, or the other end closed.
pty_poll(p, f) ==
    LET k == fd[p][f].pair
        e == fd[p][f].end
    IN  queued[k][e] > 0 \/ refs[k][peer_endpoint(e)] = 0

\* pty_cancel_read_waiter for the descriptors of the call p is inside.
Cancelled(p) ==
    [k \in Pair |-> [e \in End |->
        IF <<k, e>> \in Watched(p) /\ waiter[k][e] = p THEN NoProcess
        ELSE waiter[k][e]]]

\* pty_arm_read_waiter for the descriptors F: the last to come is remembered.
Armed(p, F) ==
    [k \in Pair |-> [e \in End |->
        IF \E f \in F : fd[p][f].pair = k /\ fd[p][f].end = e THEN p
        ELSE Cancelled(p)[k][e]]]

Return(p, result) ==
    /\ waiter' = Cancelled(p)
    /\ call' = [call EXCEPT ![p] = InUser]
    /\ ret' = result
    /\ UNCHANGED blocked

\* task_block_current needs another task to switch to.
CanBlock(p) == \E q \in Process \ {p} : Running(q)

\* Mutant: the loop sleeps without telling the pair.
ReadTurnUnarmed(p, f) ==
    LET k == fd[p][f].pair
        e == fd[p][f].end
    IN  /\ IF queued[k][e] > 0
             THEN \E n \in 1..queued[k][e] :
                    /\ queued' = [queued EXCEPT ![k][e] = @ - n]
                    /\ Return(p, "read")
             ELSE /\ CanBlock(p)
                  /\ blocked' = blocked \cup {p}
                  /\ call' = [call EXCEPT ![p] = [op |-> "read", fds |-> {f}]]
                  /\ UNCHANGED <<queued, waiter, ret>>
        /\ UNCHANGED <<state, fd, used, refs>>

\* One turn of FD_READ: what is queued, up to the capacity the caller gave;
\* else the end of file; else wait.  The second read after the arming is
\* there for interrupts, which do not touch a PTY.  Without another task to
\* switch to the watch just armed is withdrawn and the call gives up.
ReadTurn(p, f) ==
    LET k == fd[p][f].pair
        e == fd[p][f].end
    IN  /\ \/ \E n \in 1..queued[k][e] :
                /\ queued' = [queued EXCEPT ![k][e] = @ - n]
                /\ Return(p, "read")
           \/ /\ queued[k][e] = 0
              /\ UNCHANGED queued
              /\ IF refs[k][peer_endpoint(e)] = 0 THEN Return(p, "eof")
                 ELSE IF CanBlock(p)
                 THEN /\ waiter' = Armed(p, {f})
                      /\ blocked' = blocked \cup {p}
                      /\ call' = [call EXCEPT ![p] = [op |-> "read", fds |-> {f}]]
                      /\ UNCHANGED ret
                 ELSE /\ waiter' = [Cancelled(p) EXCEPT ![k][e] = NoProcess]
                      /\ call' = [call EXCEPT ![p] = InUser]
                      /\ ret' = "EBUSY"
                      /\ UNCHANGED blocked
        /\ UNCHANGED <<state, fd, used, refs>>

\* One turn of EVENT_WAIT over the descriptors F (and perhaps an IPC or an
\* input watch, which may be ready at any time).  With no other task to
\* switch to the CPU halts until an interrupt, and the call stays runnable.
EventTurn(p, F) ==
    /\ \/ Return(p, "ready")
       \/ /\ \A f \in F : ~pty_poll(p, f)
          /\ waiter' = Armed(p, F)
          /\ call' = [call EXCEPT ![p] = [op |-> "event", fds |-> F]]
          /\ blocked' = IF CanBlock(p) THEN blocked \cup {p} ELSE blocked
          /\ UNCHANGED ret
    /\ UNCHANGED <<state, fd, used, refs, queued>>

syscall_fd_read(p, f) ==
    /\ Calling(p)
    /\ IsPty(p, f, "read")
    /\ MayWaitAt(p, {f})
    /\ ReadTurn(p, f)

event_wait(p, F) ==
    /\ Calling(p)
    /\ \A f \in F : IsPty(p, f, "read")
    /\ MayWaitAt(p, F)
    /\ EventTurn(p, F)

\* A call that was woken, or found nothing to switch to, goes on.
ResumeCall(p) ==
    /\ Running(p)
    /\ call[p] # InUser
    /\ IF call[p].op = "read" THEN \E f \in call[p].fds : ReadTurn(p, f)
       ELSE EventTurn(p, call[p].fds)

\* An IPC peer, a child's exit or an interrupt wakes the process.
Wake(p) ==
    /\ p \in blocked
    /\ blocked' = blocked \ {p}
    /\ UNCHANGED <<state, fd, pairVars, call, ret>>

Next ==
    \E p \in Process :
        \/ m36_pty_create(p)
        \/ \E c \in Process, src \in [Stdio -> Fd] : m36_spawn(p, c, src)
        \/ process_mark_finished(p)
        \/ \E f \in Fd : \/ kernel_fd_close(p, f)
                         \/ \E n \in 1..RingCapacity : pty_write(p, f, n)
                         \/ syscall_fd_read(p, f)
        \/ \E F \in SUBSET (Fd \ (Stdio \ {STDIN})) : F # {} /\ event_wait(p, F)
        \/ ResumeCall(p)
        \/ Wake(p)

Spec == Init /\ [][Next]_vars

\* A call that has the CPU goes on.
FairSpec == Spec /\ \A p \in Process : WF_vars(ResumeCall(p))

----------------------------------------------------------------------------
(* Properties                                                              *)

Slots == {Unused} \cup {Console(f) : f \in Stdio} \cup
         {PtySlot(k, e, a) : k \in Pair, e \in End, a \in SUBSET {"read", "write"}}

\* Type invariant.
TypeOK ==
    /\ state \in [Process -> {"new", "alive", "finished"}]
    /\ fd \in [Process -> [Fd -> Slots]]
    /\ used \in [Pair -> BOOLEAN]
    /\ refs \in [Pair -> [End -> 0..(Cardinality(Process) * FdMax)]]
    /\ queued \in [Pair -> [End -> 0..RingCapacity]]
    /\ waiter \in [Pair -> [End -> Process \cup {NoProcess}]]
    /\ blocked \subseteq {p \in Process : state[p] = "alive"}

\* The descriptors of all processes that name an end.
Holders(k, e) ==
    {x \in Process \X Fd :
        LET s == fd[x[1]][x[2]] IN s.kind = "pty" /\ s.pair = k /\ s.end = e}

\* The count of an end is the number of descriptors that name it, and a pair
\* is in use exactly while somebody holds one of its ends: no creation, spawn,
\* close or exit leaks a pair or frees one that is still open.  What
\* m38-session-supervision.md checks after a session: a pair without
\* references holds no byte and no waiter for its next user to inherit.
RefsExact ==
    \A k \in Pair :
        /\ \A e \in End : refs[k][e] = Cardinality(Holders(k, e))
        /\ ~used[k] => \A e \in End : queued[k][e] = 0 /\ waiter[k][e] = NoProcess
        /\ used[k] <=> \E e \in End : refs[k][e] > 0

\* A waiter is a process that is still inside a call watching that end: nobody
\* is woken, in another call, for a read given up long ago.
WaiterIsWaiting ==
    \A k \in Pair, e \in End :
        waiter[k][e] # NoProcess => <<k, e>> \in Watched(waiter[k][e])

\* No lost wake-up: a process sleeps only while none of the ends it watches
\* has bytes or lost its other end; and no wake-up goes astray.
NoLostWakeup ==
    /\ WaiterIsWaiting
    /\ \A p \in blocked : \A f \in call[p].fds : ~pty_poll(p, f)

\* A reader whose end has bytes or a closed peer gets back to Ring 3.
ReaderReturns ==
    \A p \in Process :
        (call[p] # InUser /\ call[p].op = "read"
           /\ \A f \in call[p].fds : pty_poll(p, f)) ~> call[p] = InUser

\* What docs/syscalls.md says of PTYs: "peer close wakes waiters with HUP".
PeerCloseWakesWaiters ==
    \A p \in blocked : \A f \in call[p].fds :
        refs[fd[p][f].pair][peer_endpoint(fd[p][f].end)] > 0
=============================================================================
