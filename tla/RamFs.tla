------------------------------- MODULE RamFs -------------------------------
(***************************************************************************)
(* The RAM file system of kernel/core/ramfs.c: a fixed table of node slots   *)
(* per instance, a heap buffer per file that keeps its capacity when the     *)
(* file shrinks, and limits on a file and on the sum of the buffers.         *)
(***************************************************************************)
EXTENDS Naturals, Sequences, FiniteSets, SequencesExt, FiniteSetsExt

CONSTANTS
    Instance,       \* RAMFS_MAX_FILESYSTEMS places for instances
    NodeMax,        \* RAMFS_MAX_NODES
    FileName,       \* names of directory entries
    FileMax,        \* RAMFS_FILE_MAX
    TotalDataMax,   \* RAMFS_TOTAL_DATA_MAX
    Byte            \* what a program writes; 0 is the byte of a hole

ASSUME RamFsAssumption ==
    /\ NodeMax \in Nat \ {0} /\ FileMax \in Nat /\ TotalDataMax \in Nat
    /\ Byte \subseteq Nat \ {0}

VARIABLES
    nodes,      \* node |-> its slot
    registered, \* the instances that exist
    content     \* history: node |-> the bytes a file of the same calls would hold

ramfsVars == <<nodes, registered, content>>

SlotOf == 0..(NodeMax - 1)
Node == Instance \X SlotOf
RootOf(f) == <<f, 0>>

\* A new node, and an unoccupied slot; data is the buffer, as long as its capacity.
NewNode(type, parent, n) ==
    [type |-> type, parent |-> parent, name |-> n, refs |-> 0, size |-> 0, data |-> <<>>]
NoFile == NewNode("none", <<>>, "")

InUse(ns, n) == ns[n].type # "none"
Zeros(k) == [i \in 1..k |-> 0]

RamFsInit ==
    /\ nodes = [n \in Node |-> NoFile]
    /\ registered = {}
    /\ content = [n \in Node |-> <<>>]

----------------------------------------------------------------------------
(* Directories                                                             *)

Entries(ns, d) == {n \in Node : n[1] = d[1] /\ n[2] # 0 /\ InUse(ns, n) /\ ns[n].parent = d}

\* The entry as a set, empty when there is none.
ramfs_find_child(ns, d, name) == {n \in Entries(ns, d) : ns[n].name = name}

FreeSlots(ns, f) == {n \in Node : n[1] = f /\ n[2] # 0 /\ ~InUse(ns, n)}
FirstSlot(S) == CHOOSE n \in S : \A m \in S : n[2] <= m[2]

\* The slots after a creation, unchanged when it is refused.
ramfs_create_node(ns, d, name, type) ==
    IF ns[d].type # "directory" \/ ramfs_find_child(ns, d, name) # {} \/ FreeSlots(ns, d[1]) = {}
    THEN ns
    ELSE [ns EXCEPT ![FirstSlot(FreeSlots(ns, d[1]))] = NewNode(type, d, name)]

ramfs_removable(ns, n) ==
    /\ ns[n].type = "directory" => Entries(ns, n) = {}
    /\ ns[n].refs = 0

ramfs_remove_node(ns, d, name, type) ==
    LET found == {n \in ramfs_find_child(ns, d, name) :
                     ns[n].type = type /\ ramfs_removable(ns, n)}
    IN  IF ns[d].type # "directory" \/ found = {} THEN ns
        ELSE [ns EXCEPT ![CHOOSE n \in found : TRUE] = NoFile]

\* The directories from d up to the root, d included.
Chain(ns, d) ==
    LET up[k \in 0..NodeMax] ==
            IF k = 0 THEN {d} ELSE up[k - 1] \cup {ns[n].parent : n \in up[k - 1]}
    IN  up[NodeMax]

ramfs_validate_rename_cycle(ns, n, d) == ns[n].type = "directory" => n \notin Chain(ns, d)

\* An entry that exists under the new name, the moved one included, ends the
\* call without an effect.
ramfs_rename(ns, d, name, e, newname) ==
    LET found == {n \in ramfs_find_child(ns, d, name) : ramfs_validate_rename_cycle(ns, n, e)}
    IN  IF \/ ns[d].type # "directory" \/ ns[e].type # "directory"
           \/ found = {} \/ ramfs_find_child(ns, e, newname) # {}
        THEN ns
        ELSE LET n == CHOOSE m \in found : TRUE
             IN  [ns EXCEPT ![n].parent = e, ![n].name = newname]

----------------------------------------------------------------------------
(* Files                                                                   *)

\* ramfs_current_capacity: the lengths of the buffers, slot after slot.
Capacities(ns, f) ==
    LET sum[k \in 0..NodeMax] ==
            IF k = 0 THEN 0
            ELSE LET n == <<f, k - 1>>
                 IN  sum[k - 1] + (IF InUse(ns, n) THEN Len(ns[n].data) ELSE 0)
    IN  sum[NodeMax]

\* Whether the buffer of a file can be made to hold size bytes; the heap may
\* refuse a longer one.
ramfs_prepare_capacity(ns, n, size, heap) ==
    \/ size <= Len(ns[n].data)
    \/ /\ size <= FileMax
       /\ size + Capacities(ns, n[1]) - Len(ns[n].data) <= TotalDataMax
       /\ heap

\* The buffer itself: a longer one starts with the bytes of the file and zeros.
Buffered(o, size) ==
    IF size <= Len(o.data) THEN o.data
    ELSE SubSeq(o.data, 1, o.size) \o Zeros(size - o.size)

\* A buffer with bytes written from an offset, zeros in a gap before them.
Overlay(data, size, offset, bytes) ==
    [i \in 1..Len(data) |->
        IF i > offset /\ i <= offset + Len(bytes) THEN bytes[i - offset]
        ELSE IF i > size /\ i <= offset THEN 0 ELSE data[i]]

WriteFits(ns, n, offset, bytes, heap) ==
    /\ ns[n].type = "file"
    /\ offset + Len(bytes) <= FileMax
    /\ ramfs_prepare_capacity(ns, n, Max({offset + Len(bytes), ns[n].size}), heap)

ramfs_write(ns, n, offset, bytes, heap) ==
    LET size == Max({offset + Len(bytes), ns[n].size}) IN
    IF bytes = <<>> \/ ~WriteFits(ns, n, offset, bytes, heap) THEN ns
    ELSE [ns EXCEPT
            ![n].data = Overlay(Buffered(ns[n], size), ns[n].size, offset, bytes),
            ![n].size = size]

TruncateFits(ns, n, size, heap) ==
    /\ ns[n].type = "file"
    /\ size <= FileMax
    /\ size > ns[n].size => ramfs_prepare_capacity(ns, n, size, heap)

\* A slip: a file that shrinks and grows inside its buffer gets its bytes back.
TruncateKeepsTail(ns, n, size, heap) ==
    IF ~TruncateFits(ns, n, size, heap) THEN ns
    ELSE [ns EXCEPT ![n].data = Buffered(ns[n], size), ![n].size = size]

\* Growing inside a buffer that is long enough clears what it still holds.
ramfs_truncate(ns, n, size, heap) ==
    IF ~TruncateFits(ns, n, size, heap) THEN ns
    ELSE IF size = 0 THEN [ns EXCEPT ![n].data = <<>>, ![n].size = 0]
    ELSE IF size <= ns[n].size THEN [ns EXCEPT ![n].size = size]
    ELSE [ns EXCEPT ![n].data = Overlay(Buffered(ns[n], size), ns[n].size, size, <<>>),
                    ![n].size = size]

ramfs_read(ns, n, offset, length) ==
    SubSeq(ns[n].data, offset + 1, Min({ns[n].size, offset + length}))

\* What a sequence of bytes does under the same calls.
PlainWrite(c, offset, bytes) ==
    [i \in 1..Max({Len(c), offset + Len(bytes)}) |->
        IF i > offset /\ i <= offset + Len(bytes) THEN bytes[i - offset]
        ELSE IF i <= Len(c) THEN c[i] ELSE 0]
PlainTruncate(c, size) == [i \in 1..size |-> IF i <= Len(c) THEN c[i] ELSE 0]

----------------------------------------------------------------------------
(* Instances, and the operations called by themselves                      *)

ramfs_create_filesystem(f) ==
    /\ f \notin registered
    /\ nodes' = [nodes EXCEPT ![RootOf(f)] = NewNode("directory", RootOf(f), "")]
    /\ registered' = registered \cup {f}
    /\ UNCHANGED content

ramfs_destroy_filesystem(f) ==
    /\ f \in registered
    /\ \A n \in Node : n[1] = f /\ InUse(nodes, n) => nodes[n].refs = 0
    /\ nodes' = [n \in Node |-> IF n[1] = f THEN NoFile ELSE nodes[n]]
    /\ content' = [n \in Node |-> IF n[1] = f THEN <<>> ELSE content[n]]
    /\ registered' = registered \ {f}

\* The contents of the files of slots ns: new files and removed ones are empty.
ContentOf(ns) == [n \in Node |-> IF ns[n].type = "file" THEN content[n] ELSE <<>>]

Change(ns) ==
    /\ ns # nodes
    /\ nodes' = ns
    /\ content' = ContentOf(ns)
    /\ UNCHANGED registered

write(n, offset, bytes, heap) ==
    /\ WriteFits(nodes, n, offset, bytes, heap)
    /\ nodes' = ramfs_write(nodes, n, offset, bytes, heap)
    /\ content' = [content EXCEPT ![n] = PlainWrite(@, offset, bytes)]
    /\ UNCHANGED registered

truncate(n, size, heap) ==
    /\ TruncateFits(nodes, n, size, heap)
    /\ nodes' = ramfs_truncate(nodes, n, size, heap)
    /\ content' = [content EXCEPT ![n] = PlainTruncate(@, size)]
    /\ UNCHANGED registered

RamFsNext ==
    \/ \E f \in Instance : ramfs_create_filesystem(f) \/ ramfs_destroy_filesystem(f)
    \/ \E d \in Node, name \in FileName, type \in {"file", "directory"} :
           \/ Change(ramfs_create_node(nodes, d, name, type))
           \/ Change(ramfs_remove_node(nodes, d, name, type))
    \/ \E d, e \in Node, name, newname \in FileName :
           d[1] = e[1] /\ Change(ramfs_rename(nodes, d, name, e, newname))
    \/ \E n \in Node, offset \in 0..FileMax, k \in 1..FileMax, b \in Byte, heap \in BOOLEAN :
           write(n, offset, [i \in 1..k |-> b], heap)
    \/ \E n \in Node, size \in 0..FileMax, heap \in BOOLEAN : truncate(n, size, heap)

----------------------------------------------------------------------------
(* Properties                                                              *)

\* Every byte a program can read is the one it wrote there or zero: neither
\* a file that shrinks and grows again inside its buffer, nor a write behind the
\* end, nor a slot that is used again brings old bytes back; and the buffers
\* stay within their limits (ramfs_write, ramfs_truncate, ramfs_prepare_capacity).
ContentTrue ==
    /\ \A n \in Node : nodes[n].type = "file" =>
           /\ nodes[n].size <= Len(nodes[n].data)
           /\ ramfs_read(nodes, n, 0, FileMax) = content[n]
    /\ \A f \in Instance : Capacities(nodes, f) <= TotalDataMax

\* Whatever is created, moved and removed, the nodes of an instance are a tree:
\* every node hangs below the root by directories that exist, and no two
\* entries of a directory have one name (ramfs_rename, ramfs_remove_node).
TreeHolds ==
    \A n \in Node : InUse(nodes, n) =>
        /\ RootOf(n[1]) \in Chain(nodes, n)
        /\ \A m \in Chain(nodes, n) \ {n} : nodes[m].type = "directory"
        /\ n[2] # 0 => ramfs_find_child(nodes, nodes[n].parent, nodes[n].name) = {n}
============================================================================
