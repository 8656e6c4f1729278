-------------------------------- MODULE Fifo --------------------------------
(***************************************************************************)
(* What every bounded queue of the kernel promises: values come out once,  *)
(* in the order they went in, and no more than Capacity of them are held.  *)
(* The rings of pty.c, ipc.c and input.c implement it (module Ring).       *)
(***************************************************************************)
EXTENDS Integers, Sequences

CONSTANTS Value, Capacity, NoValue

VARIABLES
    queue,      \* the values held, oldest first
    last        \* the value last taken out, or NoValue

Init == queue = <<>> /\ last = NoValue

Put(v) ==
    /\ Len(queue) < Capacity
    /\ queue' = Append(queue, v)
    /\ UNCHANGED last

Take ==
    /\ queue # <<>>
    /\ last' = Head(queue)
    /\ queue' = Tail(queue)

Empty == queue' = <<>> /\ UNCHANGED last

Next == (\E v \in Value : Put(v)) \/ Take \/ Empty

Spec == Init /\ [][Next]_<<queue, last>>
=============================================================================
