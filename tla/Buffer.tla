------------------------------- MODULE Buffer -------------------------------
(***************************************************************************)
(* Shared buffer objects of src/kernel/core/user_memory.c: a global table  *)
(* of reference-counted objects, the handles and mappings of each process, *)
(* and the references that queued IPC messages hold (module Ipc).          *)
(*                                                                         *)
(* A handle is its slot; that a stale handle value is refused is the       *)
(* business of module Handles.  An object is active exactly while its      *)
(* count is positive: create sets it to one and object_unref releases the  *)
(* storage when it drops to zero.                                          *)
(***************************************************************************)
EXTENDS Integers, FiniteSets, SequencesExt

CONSTANTS
    Process,                \* the processes
    ObjectMax,              \* USER_MEMORY_BUFFER_OBJECT_MAX
    BufferHandleMax,        \* USER_MEMORY_BUFFER_HANDLE_MAX
    MappingMax,             \* USER_MEMORY_BUFFER_MAPPING_MAX
    ReferenceMax            \* UINT32_MAX, the largest reference count

ASSUME BufferAssumption ==
    /\ {ObjectMax, BufferHandleMax, MappingMax, ReferenceMax} \subseteq Nat
    /\ ReferenceMax > 0
    /\ IsFiniteSet(Process)

Object == 1..ObjectMax
BufferSlot == 1..BufferHandleMax
MappingSlot == 1..MappingMax
NoObject == 0

VARIABLES
    alive,      \* the processes that have not exited
    refs,       \* reference_count of an object, 0 when it is not active
    bhandle,    \* the object of a buffer handle slot, or NoObject
    bmap        \* the object a mapping slot maps, or NoObject

bufferVars == <<alive, refs, bhandle, bmap>>

BufferInit ==
    /\ alive = Process
    /\ refs = [o \in Object |-> 0]
    /\ bhandle = [p \in Process |-> [s \in BufferSlot |-> NoObject]]
    /\ bmap = [p \in Process |-> [s \in MappingSlot |-> NoObject]]

\* The first inactive entry of a table: find_object_slot, find_handle_slot and
\* find_mapping_slot.
FirstFree(table, free, s) ==
    /\ s \in DOMAIN table
    /\ table[s] = free
    /\ \A r \in DOMAIN table : table[r] = free => s <= r

object_unref(rf, o) == [rf EXCEPT ![o] = @ - 1]

----------------------------------------------------------------------------
(* System calls                                                            *)

user_buffer_create(p) ==
    /\ p \in alive
    /\ \E o \in Object, s \in BufferSlot :
         /\ FirstFree(refs, 0, o)
         /\ FirstFree(bhandle[p], NoObject, s)
         /\ refs' = [refs EXCEPT ![o] = 1]
         /\ bhandle' = [bhandle EXCEPT ![p][s] = o]
    /\ UNCHANGED <<alive, bmap>>

\* The mapping keeps a reference of its own; at the largest count the pages
\* are unmapped again and nothing changes.
user_buffer_map(p, h) ==
    /\ p \in alive
    /\ bhandle[p][h] # NoObject
    /\ refs[bhandle[p][h]] < ReferenceMax
    /\ \E m \in MappingSlot :
         /\ FirstFree(bmap[p], NoObject, m)
         /\ bmap' = [bmap EXCEPT ![p][m] = bhandle[p][h]]
    /\ refs' = [refs EXCEPT ![bhandle[p][h]] = @ + 1]
    /\ UNCHANGED <<alive, bhandle>>

user_buffer_unmap(p, m) ==
    /\ p \in alive
    /\ bmap[p][m] # NoObject
    /\ bmap' = [bmap EXCEPT ![p][m] = NoObject]
    /\ refs' = object_unref(refs, bmap[p][m])
    /\ UNCHANGED <<alive, bhandle>>

user_buffer_close(p, h) ==
    /\ p \in alive
    /\ bhandle[p][h] # NoObject
    /\ bhandle' = [bhandle EXCEPT ![p][h] = NoObject]
    /\ refs' = object_unref(refs, bhandle[p][h])
    /\ UNCHANGED <<alive, bmap>>

----------------------------------------------------------------------------
(* Process exit                                                            *)

Uses(table, o) == Cardinality({s \in DOMAIN table : table[s] = o})

\* The counts after user_memory_process_cleanup unmapped every mapping and
\* closed every handle of p, starting from the counts rf.
user_memory_process_cleanup(rf, p) ==
    [o \in Object |-> rf[o] - Uses(bmap[p], o) - Uses(bhandle[p], o)]

Forgotten(table, p) == [table EXCEPT ![p] = [s \in DOMAIN @ |-> NoObject]]

----------------------------------------------------------------------------
(* Properties                                                              *)

BufferTypeOK ==
    /\ alive \subseteq Process
    /\ refs \in [Object -> 0..ReferenceMax]
    /\ bhandle \in [Process -> [BufferSlot -> Object \cup {NoObject}]]
    /\ bmap \in [Process -> [MappingSlot -> Object \cup {NoObject}]]

\* The references processes hold to an object.
Held(o) ==
    Cardinality({x \in Process \X BufferSlot : bhandle[x[1]][x[2]] = o})
    + Cardinality({x \in Process \X MappingSlot : bmap[x[1]][x[2]] = o})
=============================================================================
