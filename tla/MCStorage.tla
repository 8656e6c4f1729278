----------------------------- MODULE MCStorage -----------------------------
(***************************************************************************)
(* The storage stack and the file layer for TLC.  They share no variable, and  *)
(* each behaviour exercises the one that focus names: the volume, the disk     *)
(* driver, the RAM file system alone, the VFS with mounts, the file calls of   *)
(* programs, or those calls where a second file system is mounted.            *)
(***************************************************************************)
EXTENDS BoringFs, VirtioBlk, FileCalls

CONSTANTS
    VfsNodes,       \* bound: nodes in use under the VFS
    CallNodes,      \* bound: nodes in use under system calls
    MountedNodes    \* bound: the same with the second file system

VARIABLE focus

Used == Cardinality({n \in Node : InUse(nodes, n)})
Bytes == FoldSet(LAMBDA n, sum : sum + Len(content[n]), 0, Node)

\* A second instance is mounted before the first program starts, as
\* boringfs_ro_test.c does with /disk; here one directory further down, so that
\* there is one above the mountpoint.
MountedInit ==
    \E f, g \in Instance, name \in FileName :
        LET roots == [n \in Node |-> IF n \in {RootOf(f), RootOf(g)}
                                    THEN NewNode("directory", n, "") ELSE NoFile]
            first == ramfs_create_node(roots, RootOf(f), name, "directory")
            above == CHOOSE n \in ramfs_find_child(first, RootOf(f), name) : TRUE
            made == ramfs_create_node(first, above, name, "directory")
            point == CHOOSE n \in ramfs_find_child(made, above, name) : TRUE
        IN  /\ f # g
            /\ registered = {f, g}
            /\ mounts = [m \in MountSlot |->
                   CASE m = 0 -> RootMount(f)
                     [] m = 1 -> [active |-> TRUE, fs |-> g, parent |-> 0, mountpoint |-> point]
                     [] OTHER -> NoMount]
            /\ nodes = [made EXCEPT ![RootOf(f)].refs = 2, ![RootOf(g)].refs = 1,
                                    ![point].refs = 1]
            /\ content = [n \in Node |-> <<>>]
            /\ path_reference_count = 1 /\ open_handle_count = 0
            /\ held = [h \in Holder |-> NoPath] /\ opened = [r \in Reader |-> NoHandle]
            /\ cwd = [p \in Program |-> IF p = 1 THEN RootPath ELSE NoPath]
            /\ cwd_text = [p \in Program |-> <<>>]
            /\ fds = [p \in Program |-> NoFds]

\* The medium of the driver is left at one of its initial values while
\* something else is exercised.
Init ==
    /\ FsInit /\ BlkInit
    /\ focus \in {"fs", "blk", "ramfs", "vfs", "calls", "mounted"}
    /\ focus # "blk" => sectors[1] = CHOOSE v \in Value : TRUE
    /\ CASE focus = "calls" -> FileCallsInit
         [] focus = "mounted" -> MountedInit
         [] OTHER -> VfsInit /\ NoPrograms

FileNext ==
    \/ /\ focus = "ramfs" /\ RamFsNext /\ Cardinality(registered') <= 1
       /\ UNCHANGED <<mounts, path_reference_count, open_handle_count, held, opened,
                      cwd, cwd_text, fds>>
    \/ /\ focus = "vfs" /\ VfsNext /\ Used' <= VfsNodes /\ Bytes' <= 1
       /\ UNCHANGED <<cwd, cwd_text, fds>>
    \/ focus = "calls" /\ FileCallsNext /\ Used' <= CallNodes /\ Bytes' <= 1
    \/ focus = "mounted" /\ FileCallsNext /\ Used' <= MountedNodes /\ Bytes' = 0

Next ==
    /\ UNCHANGED focus
    /\ \/ focus = "fs" /\ FsNext /\ UNCHANGED <<blkVars, fileVars>>
       \/ focus = "blk" /\ BlkNext /\ UNCHANGED <<fsVars, fileVars>>
       \/ FileNext /\ UNCHANGED <<fsVars, blkVars>>

Spec == Init /\ [][Next]_<<fsVars, blkVars, fileVars, focus>>

Alike == Permutations(Name) \cup Permutations(FileName) \cup Permutations(Instance)
         \cup Permutations(Holder)
============================================================================
