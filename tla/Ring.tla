-------------------------------- MODULE Ring --------------------------------
(***************************************************************************)
(* The bounded rings of the kernel: an array, the index of the oldest      *)
(* entry, the number of entries.  The rings of pty.c keep the index of the *)
(* next free entry as well (StoredTail); the message and the pending queue *)
(* of ipc.c and the event queue of input.c compute it.  A full ring takes  *)
(* nothing (the PTY write stops, SEND fails, the input event is dropped),  *)
(* so a failing push is no step.                                           *)
(***************************************************************************)
EXTENDS Integers, Sequences

CONSTANTS
    Value,          \* what a ring holds: bytes, messages, events
    NoValue,
    Capacity,       \* entries of the array
    StoredTail      \* write_index is kept (pty.c)

ASSUME RingAssumption ==
    /\ Capacity \in Nat \ {0}
    /\ StoredTail \in BOOLEAN

Index == 0..(Capacity - 1)

VARIABLES
    slots,          \* bytes[], messages[], pending[], queue[]
    read_index,     \* read_index, head, pending_head
    write_index,    \* write_index; stays 0 where it is not kept
    count,
    last            \* what the last pop returned

ringVars == <<slots, read_index, write_index, count, last>>

RingInit ==
    /\ slots = [i \in Index |-> NoValue]
    /\ read_index = 0
    /\ write_index = 0
    /\ count = 0
    /\ last = NoValue

\* Mutant: the computed tail forgets that the head moves.
TailFromZero == count % Capacity

\* Where the next value goes.
WriteAt == IF StoredTail THEN write_index ELSE (read_index + count) % Capacity

\* One turn of the loop of pty_write; pending_push, boring_ipc_send, input_push.
push(v) ==
    /\ count < Capacity
    /\ slots' = [slots EXCEPT ![WriteAt] = v]
    /\ write_index' = IF StoredTail THEN (write_index + 1) % Capacity ELSE write_index
    /\ count' = count + 1
    /\ UNCHANGED <<read_index, last>>

\* One turn of the loop of pty_read and of boring_input_read; pending_remove and
\* boring_ipc_receive, which wipe the entry.
pop ==
    /\ count # 0
    /\ last' = slots[read_index]
    /\ slots' \in {slots, [slots EXCEPT ![read_index] = NoValue]}
    /\ read_index' = (read_index + 1) % Capacity
    /\ count' = count - 1
    /\ UNCHANGED write_index

\* ring_clear and clear_queue wipe the array, input_clear_queue does not.
ring_clear ==
    /\ slots' \in {slots, [i \in Index |-> NoValue]}
    /\ read_index' = 0
    /\ write_index' = 0
    /\ count' = 0
    /\ UNCHANGED last

RingNext == (\E v \in Value : push(v)) \/ pop \/ ring_clear

RingSpec == RingInit /\ [][RingNext]_ringVars

----------------------------------------------------------------------------
(* Properties                                                              *)

\* Type invariant: no index leaves the array.
RingTypeOK ==
    /\ slots \in [Index -> Value \cup {NoValue}]
    /\ read_index \in Index
    /\ write_index \in Index
    /\ count \in 0..Capacity
    /\ last \in Value \cup {NoValue}

\* The stored index is the one the other rings compute, through every wrap.
TailAgrees == StoredTail => write_index = (read_index + count) % Capacity

\* The abstract queue a ring stands for.
Queue == [i \in 1..count |-> slots[(read_index + i - 1) % Capacity]]

F == INSTANCE Fifo WITH queue <- Queue

\* A ring is a bounded FIFO queue: nothing is lost, duplicated, reordered or
\* overwritten however often the indices wrap.
Fifo == F!Spec
=============================================================================
