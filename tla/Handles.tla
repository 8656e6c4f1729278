------------------------------ MODULE Handles ------------------------------
(***************************************************************************)
(* Generation-checked handles: the IPC handles of ipc.c (Bias 0) and the   *)
(* shared-buffer handles of user_memory.c (Bias 1).  A process holds a     *)
(* 32-bit number, which the kernel takes apart into a slot of the          *)
(* process's own table and the generation that slot had when the handle    *)
(* was made.  Closing a handle advances the generation, so that the number *)
(* stops working although the slot is used again.                          *)
(***************************************************************************)
EXTENDS Integers

CONSTANTS
    SlotMax,            \* BORING_IPC_HANDLES_PER_PROCESS, USER_MEMORY_BUFFER_HANDLE_MAX
    SlotSpan,           \* 2^IPC_HANDLE_SLOT_BITS, 2^USER_MEMORY_HANDLE_SLOT_BITS
    GenerationMax,      \* IPC_HANDLE_GENERATION_MAX, USER_MEMORY_HANDLE_GENERATION_MAX
    Bias,               \* what encode_handle adds to the slot
    OpenMax             \* bound: how often a slot is used

ASSUME HandlesAssumption ==
    /\ {SlotMax, SlotSpan, GenerationMax} \subseteq Nat \ {0}
    /\ Bias \in {0, 1} /\ OpenMax \in Nat
    /\ SlotMax + Bias <= SlotSpan

Slot == 0..(SlotMax - 1)
Generation == 1..GenerationMax
Handle == 0..(SlotSpan * (GenerationMax + 1) - 1)
NoSlot == -1

VARIABLES
    active,         \* of a slot
    generation,     \* of a slot
    opened,         \* how often a slot has been installed (history)
    given           \* handles given out: [handle, slot, nth installation] (history)

handlesVars == <<active, generation, opened, given>>

HandlesInit ==
    /\ active = [s \in Slot |-> FALSE]
    /\ generation = [s \in Slot |-> 1]
    /\ opened = [s \in Slot |-> 0]
    /\ given = {}

\* Mutant: no generation at all.
SameGeneration(g) == g

next_generation(g) == IF g = 0 \/ g >= GenerationMax THEN 1 ELSE g + 1

encode_handle(s, g) == g * SlotSpan + s + Bias

\* The slot a handle value names, NoSlot when no table entry can have it.
DecodedSlot(h) == (h % SlotSpan) - Bias
DecodedGeneration(h) == h \div SlotSpan

decode_handle(h) ==
    IF DecodedGeneration(h) = 0 \/ DecodedSlot(h) \notin Slot THEN NoSlot
    ELSE DecodedSlot(h)

\* The table entry a system call uses for a handle value.
lookup_handle(h) ==
    LET s == decode_handle(h)
    IN  IF s = NoSlot THEN NoSlot
        ELSE IF active[s] /\ generation[s] = DecodedGeneration(h) THEN s
        ELSE NoSlot

\* install_handle: the first free slot.
install_handle ==
    \E s \in Slot :
        /\ ~active[s]
        /\ \A r \in Slot : ~active[r] => s <= r
        /\ opened[s] < OpenMax
        /\ active' = [active EXCEPT ![s] = TRUE]
        /\ opened' = [opened EXCEPT ![s] = @ + 1]
        /\ given' = given \cup
             {[handle |-> encode_handle(s, generation[s]), slot |-> s,
               nth |-> opened[s] + 1]}
        /\ UNCHANGED generation

\* Closing through a handle value, whatever number the program passes.
invalidate_handle_entry(h) ==
    LET s == lookup_handle(h)
    IN  /\ s # NoSlot
        /\ active' = [active EXCEPT ![s] = FALSE]
        /\ generation' = [generation EXCEPT ![s] = next_generation(@)]
        /\ UNCHANGED <<opened, given>>

HandlesNext == install_handle \/ \E h \in Handle : invalidate_handle_entry(h)

HandlesSpec == HandlesInit /\ [][HandlesNext]_handlesVars

----------------------------------------------------------------------------
(* Properties                                                              *)

\* Type invariant.
HandlesTypeOK ==
    /\ active \in [Slot -> BOOLEAN]
    /\ generation \in [Slot -> Generation]
    /\ opened \in [Slot -> 0..OpenMax]
    /\ given \subseteq [handle : Handle, slot : Slot, nth : 1..OpenMax]

\* A handle works for exactly what it was made for: while its own installation
\* is open it names its own slot, and once closed it names nothing until the
\* slot has been used a whole multiple of GenerationMax times again.
StaleRefused ==
    \A x \in given :
        /\ lookup_handle(x.handle) \in {NoSlot, x.slot}
        /\ x.nth = opened[x.slot] /\ active[x.slot]
             => lookup_handle(x.handle) = x.slot
        /\ lookup_handle(x.handle) = x.slot
             => (opened[x.slot] - x.nth) % GenerationMax = 0
=============================================================================
