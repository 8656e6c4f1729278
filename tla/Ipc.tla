-------------------------------- MODULE Ipc --------------------------------
(***************************************************************************)
(* Connection-oriented IPC: src/kernel/core/ipc.c, the blocking loops of   *)
(* src/kernel/core/ipc_syscall.c, and the shared buffers that messages     *)
(* carry (module Buffer).                                                  *)
(*                                                                         *)
(* A system call runs to its return or to task_block_current without       *)
(* another task running, so an action is a call, or what a blocked call    *)
(* does from its wake-up on.  Any process that is not blocked may be the   *)
(* one that runs (the round robin of Sched is not repeated here).  A call  *)
(* that fails changes nothing and is left out, except for a blocking call  *)
(* that cannot block.  A handle is its slot (see Handles); the message     *)
(* queues and the pending queue are rings in the code (see Ring).  The     *)
(* payload of a message is its number among those sent on its direction,   *)
(* which only the properties read.                                         *)
(***************************************************************************)
EXTENDS Buffer

CONSTANTS
    Name,               \* service names
    ServiceMax,         \* BORING_IPC_GLOBAL_SERVICE_MAX
    ConnectionMax,      \* BORING_IPC_GLOBAL_CONNECTION_MAX
    HandleMax,          \* BORING_IPC_HANDLES_PER_PROCESS
    PendingMax,         \* BORING_IPC_PENDING_PER_SERVICE
    QueueMax,           \* BORING_IPC_MESSAGES_PER_DIRECTION
    MessageMax          \* bound: messages sent on a direction of a connection

ASSUME IpcAssumption ==
    /\ {ServiceMax, ConnectionMax, HandleMax, PendingMax, QueueMax, MessageMax}
         \subseteq Nat

Service == 1..ServiceMax
Connection == 1..ConnectionMax
Slot == 1..HandleMax
Side == {"client", "server"}
Peer(side) == CHOOSE s \in Side : s # side

NoService == [active |-> FALSE]
NoConnection == [active |-> FALSE]
NoHandle == [type |-> "none"]
InUser == [op |-> "user"]

VARIABLES
    service,    \* services[]
    conn,       \* connections[]
    handle,     \* the IPC handle table of each process
    sent,       \* messages sent towards a side of a connection (history)
    blocked,    \* the processes whose task is BLOCKED
    call,       \* the blocking call a process is inside, or InUser
    ret         \* how the last blocking call ended

ipcVars == <<service, conn, handle, sent, blocked, call, ret>>
vars == <<bufferVars, ipcVars>>

Init ==
    /\ BufferInit
    /\ service = [s \in Service |-> NoService]
    /\ conn = [c \in Connection |-> NoConnection]
    /\ handle = [p \in Process |-> [h \in Slot |-> NoHandle]]
    /\ sent = [c \in Connection |-> [s \in Side |-> 0]]
    /\ blocked = {}
    /\ call = [p \in Process |-> InUser]
    /\ ret = "none"

----------------------------------------------------------------------------
(* Tables                                                                  *)

find_free_handle(p, h) == FirstFree(handle[p], NoHandle, h)
find_free_service(s) == FirstFree(service, NoService, s)
find_free_connection(c) == FirstFree(conn, NoConnection, c)

find_service(n, s) == service[s] # NoService /\ service[s].name = n

\* The process runs in Ring 3 and is about to make a call.
Calling(p) == p \in alive \ blocked /\ call[p] = InUser

\* The handle names an open side of a live connection.
Endpoint(p, h) == handle[p][h].type = "endpoint"
OpenEndpoint(p, h) ==
    /\ Endpoint(p, h)
    /\ conn[handle[p][h].object] # NoConnection
    /\ conn[handle[p][h].object].open[handle[p][h].side]

----------------------------------------------------------------------------
(* Closing.  These operators thread the part of the state that closing     *)
(* several objects in a row changes: st.service, st.conn, st.refs and the  *)
(* set st.woken of processes passed to task_wake_process.                  *)

\* Mutant: queued attachments are dropped without being released.
ReleaseNothing(rf, q) == rf

\* The references of the queued attachments are given up.
release_queue(rf, q) ==
    [o \in Object |-> rf[o] - Cardinality({i \in DOMAIN q : q[i].buffer = o})]

\* Mutant: a connection goes with its first side.
DestroyWithEither(k) ==
    IF ~k.open["client"] \/ ~k.open["server"] THEN NoConnection ELSE k

connection_maybe_destroy(k) ==
    IF /\ \A side \in Side : ~k.open[side] /\ k.queue[side] = <<>>
      THEN NoConnection
      ELSE k

\* What was queued for the closing side is dropped; what that side sent stays.
close_connection_side(st, c, side) ==
    LET k == st.conn[c]
    IN  IF k = NoConnection THEN st
        ELSE IF ~k.open[side] THEN st
        ELSE [st EXCEPT
                !.refs = release_queue(@, k.queue[side]),
                !.conn[c] = connection_maybe_destroy(
                               [k EXCEPT !.queue[side] = <<>>,
                                         !.open[side] = FALSE]),
                !.woken = @ \cup {k.owner[Peer(side)]}]

\* A connection that waits to be accepted loses its server.
reject_pending(st, c) ==
    IF st.conn[c] = NoConnection \/ st.conn[c].accepted THEN st
    ELSE close_connection_side(st, c, "server")

\* The pending connections, oldest first.
unregister_service(st, s) ==
    LET pending == st.service[s].pending
        rejected[i \in 0..Len(pending)] ==
            IF i = 0 THEN st ELSE reject_pending(rejected[i - 1], pending[i])
    IN  [rejected[Len(pending)] EXCEPT !.service[s] = NoService]

CloseEntry(st, e) ==
    CASE e.type = "listener" -> unregister_service(st, e.object)
      [] e.type = "endpoint" -> close_connection_side(st, e.object, e.side)
      [] OTHER -> st

Current == [service |-> service, conn |-> conn, refs |-> refs, woken |-> {}]

\* task_wake_process makes the blocked task of a process READY.
task_wake_process(woken) == blocked' = blocked \ woken

----------------------------------------------------------------------------
(* Operations                                                              *)

boring_ipc_service_register(p, n) ==
    /\ Calling(p)
    /\ \A s \in Service : ~find_service(n, s)
    /\ \E s \in Service, h \in Slot :
         /\ find_free_service(s)
         /\ find_free_handle(p, h)
         /\ service' = [service EXCEPT ![s] =
                          [active |-> TRUE, owner |-> p, name |-> n, pending |-> <<>>]]
         /\ handle' = [handle EXCEPT ![p][h] = [type |-> "listener", object |-> s]]
    /\ UNCHANGED <<bufferVars, conn, sent, blocked, call, ret>>

boring_ipc_service_connect(p, n) ==
    /\ Calling(p)
    /\ \E s \in Service, c \in Connection, h \in Slot :
         /\ find_service(n, s)
         /\ service[s].owner \in alive
         /\ Len(service[s].pending) < PendingMax
         /\ find_free_connection(c)
         /\ find_free_handle(p, h)
         /\ conn' = [conn EXCEPT ![c] =
                       [active |-> TRUE,
                        owner |-> [client |-> p, server |-> service[s].owner],
                        open |-> [side \in Side |-> TRUE],
                        queue |-> [side \in Side |-> <<>>],
                        accepted |-> FALSE]]
         /\ sent' = [sent EXCEPT ![c] = [side \in Side |-> 0]]
         /\ handle' = [handle EXCEPT ![p][h] =
                         [type |-> "endpoint", object |-> c, side |-> "client"]]
         /\ service' = [service EXCEPT ![s].pending = Append(@, c)]
         /\ task_wake_process({service[s].owner})
    /\ UNCHANGED <<bufferVars, call, ret>>

\* Accept the connection at the head of the pending queue.
boring_ipc_service_accept(p, l) ==
    LET s == handle[p][l].object
        c == Head(service[s].pending)
    IN  /\ service[s].pending # <<>>
        /\ conn[c] # NoConnection
        /\ ~conn[c].accepted
        /\ conn[c].owner["server"] = p
        /\ \E h \in Slot :
             /\ find_free_handle(p, h)
             /\ handle' = [handle EXCEPT ![p][h] =
                             [type |-> "endpoint", object |-> c, side |-> "server"]]
        /\ service' = [service EXCEPT ![s].pending = Tail(@)]
        /\ conn' = [conn EXCEPT ![c].accepted = TRUE]

\* Mutant: the receiver is not woken.
SendNoWake(p, h, b) ==
    LET c == handle[p][h].object
        to == Peer(handle[p][h].side)
    IN  /\ Calling(p)
        /\ OpenEndpoint(p, h)
        /\ b = 0
        /\ conn[c].open[to]
        /\ Len(conn[c].queue[to]) < QueueMax
        /\ sent[c][to] < MessageMax
        /\ conn' = [conn EXCEPT ![c].queue[to] =
                      Append(@, [payload |-> sent[c][to] + 1, buffer |-> NoObject])]
        /\ sent' = [sent EXCEPT ![c][to] = @ + 1]
        /\ UNCHANGED <<bufferVars, service, handle, blocked, call, ret>>

\* b is the attached buffer handle, or 0.  The message takes a reference of
\* its own (user_buffer_retain); the sender keeps its handle.
boring_ipc_send(p, h, b) ==
    LET c == handle[p][h].object
        to == Peer(handle[p][h].side)
        o == IF b = 0 THEN NoObject ELSE bhandle[p][b]
    IN  /\ Calling(p)
        /\ OpenEndpoint(p, h)
        /\ conn[c].open[to]
        /\ Len(conn[c].queue[to]) < QueueMax
        /\ sent[c][to] < MessageMax
        /\ b # 0 => o # NoObject /\ refs[o] < ReferenceMax
        /\ refs' = IF b = 0 THEN refs ELSE [refs EXCEPT ![o] = @ + 1]
        /\ conn' = [conn EXCEPT ![c].queue[to] =
                      Append(@, [payload |-> sent[c][to] + 1, buffer |-> o])]
        /\ sent' = [sent EXCEPT ![c][to] = @ + 1]
        /\ task_wake_process({conn[c].owner[to]})
        /\ UNCHANGED <<alive, bhandle, bmap, service, handle, call, ret>>

\* The oldest message: the attached object moves from the message to a new
\* handle (prepare and commit); without a free buffer handle slot the message
\* stays where it is.
boring_ipc_receive(p, h) ==
    LET c == handle[p][h].object
        side == handle[p][h].side
        q == conn[c].queue[side]
    IN  /\ OpenEndpoint(p, h)
        /\ q # <<>>
        /\ conn' = [conn EXCEPT ![c] =
                      connection_maybe_destroy([@ EXCEPT !.queue[side] = Tail(q)])]
        /\ IF Head(q).buffer = NoObject
             THEN bhandle' = bhandle
             ELSE \E s \in BufferSlot :
                    /\ FirstFree(bhandle[p], NoObject, s)
                    /\ bhandle' = [bhandle EXCEPT ![p][s] = Head(q).buffer]
        /\ UNCHANGED refs

boring_ipc_close(p, h) ==
    LET st == CloseEntry(Current, handle[p][h])
    IN  /\ Calling(p)
        /\ handle[p][h] # NoHandle
        /\ service' = st.service
        /\ conn' = st.conn
        /\ refs' = st.refs
        /\ task_wake_process(st.woken)
        /\ handle' = [handle EXCEPT ![p][h] = NoHandle]
        /\ UNCHANGED <<alive, bhandle, bmap, sent, call, ret>>

\* Every handle, in slot order.
boring_ipc_process_cleanup(p) ==
    LET closed[h \in 0..HandleMax] ==
            IF h = 0 THEN Current ELSE CloseEntry(closed[h - 1], handle[p][h])
    IN  closed[HandleMax]

\* EXIT of a spawned process: IPC first, then its buffers.
m36_exit(p) ==
    LET st == boring_ipc_process_cleanup(p)
    IN  /\ Calling(p)
        /\ alive' = alive \ {p}
        /\ service' = st.service
        /\ conn' = st.conn
        /\ refs' = user_memory_process_cleanup(st.refs, p)
        /\ handle' = [handle EXCEPT ![p] = [h \in Slot |-> NoHandle]]
        /\ bhandle' = Forgotten(bhandle, p)
        /\ bmap' = Forgotten(bmap, p)
        /\ task_wake_process(st.woken)
        /\ UNCHANGED <<sent, call, ret>>

----------------------------------------------------------------------------
(* The blocking calls                                                      *)

\* task_block_current: it needs another task to switch to.
task_block_current(p, op, h) ==
    IF alive \ (blocked \cup {p}) # {}
      THEN /\ blocked' = blocked \cup {p}
           /\ call' = [call EXCEPT ![p] = [op |-> op, handle |-> h]]
           /\ UNCHANGED ret
      ELSE /\ call' = [call EXCEPT ![p] = InUser]
           /\ ret' = "EIO"
           /\ UNCHANGED blocked

Return(p, result) ==
    /\ call' = [call EXCEPT ![p] = InUser]
    /\ ret' = result
    /\ UNCHANGED blocked

\* One turn of the loop of SERVICE_ACCEPT.
AcceptTurn(p, l) ==
    /\ handle[p][l].type = "listener"
    /\ \/ /\ boring_ipc_service_accept(p, l)
          /\ Return(p, "accepted")
       \/ /\ IF service[handle[p][l].object].pending = <<>>
               THEN task_block_current(p, "accept", l)
               ELSE /\ \A h \in Slot : handle[p][h] # NoHandle
                    /\ Return(p, "NO_SPACE")
          /\ UNCHANGED <<service, conn, handle>>
    /\ UNCHANGED <<bufferVars, sent>>

\* One turn of the loop of IPC_RECEIVE.  PEER_CLOSED only once the queue has
\* been drained.
ReceiveTurn(p, h) ==
    LET c == handle[p][h].object
        side == handle[p][h].side
    IN  /\ OpenEndpoint(p, h)
        /\ \/ /\ boring_ipc_receive(p, h)
              /\ Return(p, "received")
           \/ /\ IF conn[c].queue[side] # <<>>
                   THEN /\ Head(conn[c].queue[side]).buffer # NoObject
                        /\ \A s \in BufferSlot : bhandle[p][s] # NoObject
                        /\ Return(p, "NO_SPACE")
                   ELSE IF conn[c].open[Peer(side)]
                   THEN task_block_current(p, "receive", h)
                   ELSE Return(p, "PEER_CLOSED")
              /\ UNCHANGED <<conn, refs, bhandle>>
        /\ UNCHANGED <<alive, bmap, service, handle, sent>>

service_accept(p, l) == Calling(p) /\ AcceptTurn(p, l)
ipc_receive(p, h) == Calling(p) /\ ReceiveTurn(p, h)

\* A blocked call that has been woken starts its next turn.
ResumeCall(p) ==
    /\ p \in alive \ blocked
    /\ call[p] # InUser
    /\ IF call[p].op = "accept" THEN AcceptTurn(p, call[p].handle)
                                ELSE ReceiveTurn(p, call[p].handle)

\* A wake-up for another reason: an exiting child, an interrupt.
SpuriousWake(p) ==
    /\ p \in blocked
    /\ task_wake_process({p})
    /\ UNCHANGED <<bufferVars, service, conn, handle, sent, call, ret>>

UserBufferCall(p) ==
    /\ Calling(p)
    /\ \/ user_buffer_create(p)
       \/ \E h \in BufferSlot : user_buffer_map(p, h) \/ user_buffer_close(p, h)
       \/ \E m \in MappingSlot : user_buffer_unmap(p, m)
    /\ UNCHANGED ipcVars

Next ==
    \E p \in Process :
        \/ \E n \in Name : \/ boring_ipc_service_register(p, n)
                           \/ boring_ipc_service_connect(p, n)
        \/ \E h \in Slot : \/ service_accept(p, h)
                           \/ \E b \in 0..BufferHandleMax : boring_ipc_send(p, h, b)
                           \/ ipc_receive(p, h)
                           \/ boring_ipc_close(p, h)
        \/ m36_exit(p)
        \/ ResumeCall(p)
        \/ SpuriousWake(p)
        \/ UserBufferCall(p)

Spec == Init /\ [][Next]_vars

\* A call that has the CPU goes on: system calls do not stop half way.
FairSpec == Spec /\ \A p \in Process : WF_vars(ResumeCall(p))

----------------------------------------------------------------------------
(* Properties                                                              *)

Message == [payload : 1..MessageMax, buffer : Object \cup {NoObject}]

\* Type invariant.
TypeOK ==
    /\ BufferTypeOK
    /\ \A s \in Service :
         service[s] # NoService =>
            /\ service[s].owner \in Process
            /\ service[s].name \in Name
            /\ service[s].pending \in BoundedSeq(Connection, PendingMax)
    /\ \A c \in Connection :
         conn[c] # NoConnection =>
            /\ conn[c].owner \in [Side -> Process]
            /\ conn[c].open \in [Side -> BOOLEAN]
            /\ conn[c].queue \in [Side -> BoundedSeq(Message, QueueMax)]
    /\ sent \in [Connection -> [Side -> 0..MessageMax]]
    /\ blocked \subseteq alive

\* The handles of all processes that name a side of a connection.
HandlesOf(c, side) ==
    {x \in Process \X Slot :
        handle[x[1]][x[2]] = [type |-> "endpoint", object |-> c, side |-> side]}

\* How often a connection waits in a pending queue.
PendingAt(c) ==
    {x \in Service \X (1..PendingMax) :
        /\ service[x[1]] # NoService
        /\ x[2] \in DOMAIN service[x[1]].pending
        /\ service[x[1]].pending[x[2]] = c}

\* Nobody holds a side of somebody else's connection, through all reuses of
\* connection slots: an open side has exactly one handle, in the table of its
\* owner, or, before the accept, exactly one place in a pending queue of a
\* service of its owner; a closed side and a free slot have none, and a slot
\* is in use only while a side is open.
SidesOwned ==
    \A c \in Connection :
        /\ conn[c] # NoConnection => \E side \in Side : conn[c].open[side]
        /\ conn[c] = NoConnection =>
             /\ \A side \in Side : HandlesOf(c, side) = {}
             /\ PendingAt(c) = {}
        /\ conn[c] # NoConnection =>
             /\ \A side \in Side :
                  /\ \A x \in HandlesOf(c, side) : x[1] = conn[c].owner[side]
                  /\ Cardinality(HandlesOf(c, side)) =
                       IF conn[c].open[side] /\ (side = "server" => conn[c].accepted)
                       THEN 1 ELSE 0
             /\ Cardinality(PendingAt(c)) =
                  IF conn[c].open["server"] /\ ~conn[c].accepted THEN 1 ELSE 0
             /\ \A x \in PendingAt(c) : service[x[1]].owner = conn[c].owner["server"]

\* The registry names only live processes, each through one listener handle
\* of its own, and no name twice.
RegistryLive ==
    \A s \in Service :
        service[s] # NoService =>
            /\ service[s].owner \in alive
            /\ Cardinality({x \in Process \X Slot :
                   handle[x[1]][x[2]] = [type |-> "listener", object |-> s]}) = 1
            /\ \A r \in Service : service[r] # NoService /\ r # s
                                    => service[r].name # service[s].name

\* Every reference is accounted for: the count of an object is the number of
\* handles, mappings and queued messages that refer to it, so that a shared
\* buffer is neither freed under a user nor leaked, whichever process closed
\* or exited in whichever order; and the same of connections and services.
RefsExact ==
    /\ SidesOwned
    /\ RegistryLive
    /\ \A o \in Object :
          refs[o] = Held(o) +
              Cardinality({x \in Connection \X Side \X (1..QueueMax) :
                             /\ conn[x[1]] # NoConnection
                             /\ x[3] \in DOMAIN conn[x[1]].queue[x[2]]
                             /\ conn[x[1]].queue[x[2]][x[3]].buffer = o})

\* No lost wake-up: a call sleeps only while its condition is still false,
\* whatever was sent, connected or closed since it went to sleep.
NoLostWakeup ==
    \A p \in blocked :
        LET e == handle[p][call[p].handle]
        IN  IF call[p].op = "accept"
              THEN service[e.object].pending = <<>>
              ELSE /\ conn[e.object].queue[e.side] = <<>>
                   /\ conn[e.object].open[Peer(e.side)]

\* Messages arrive once and in order, and closing one side does not lose what
\* it had sent: a queue grows at its end, and a message leaves it only from
\* its head by a receive of the owner, or when the owner closes.
DrainAfterClose ==
    [][\A c \in Connection, side \in Side :
         LET q == conn[c].queue[side]
             r == conn'[c].queue[side]
         IN  conn[c] # NoConnection /\ q # <<>> =>
               \/ /\ conn'[c] # NoConnection
                  /\ conn'[c].open[side]
                  /\ \/ IsPrefix(q, r)
                     \/ /\ r = Tail(q)
                        /\ ret' = "received"
               \/ /\ conn[c].open[side]
                  /\ \A x \in HandlesOf(c, side) : handle'[x[1]][x[2]] = NoHandle
                  /\ conn'[c] # NoConnection => conn'[c].open[side] = FALSE]_vars

\* What a blocking call waits for has happened.
Ready(p) ==
    LET e == handle[p][call[p].handle]
    IN  CASE call[p] = InUser -> FALSE
          [] call[p].op = "accept" -> service[e.object].pending # <<>>
          [] OTHER -> \/ conn[e.object].queue[e.side] # <<>>
                      \/ ~conn[e.object].open[Peer(e.side)]

\* A process inside SERVICE_ACCEPT or IPC_RECEIVE returns to Ring 3 once a
\* connection, a message or a close is there for it.
WaiterReturns == \A p \in Process : Ready(p) ~> call[p] = InUser
=============================================================================
