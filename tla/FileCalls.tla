----------------------------- MODULE FileCalls -----------------------------
(***************************************************************************)
(* The file system calls of kernel/core/syscall.c with the descriptors of    *)
(* fd.c and the working directories of process.c: programs start in the      *)
(* directory of their parent, move, create, write and remove by path, keep   *)
(* descriptors, and exit.  The kernel keeps a working directory twice, as a   *)
(* path that holds a reference and as a text.                               *)
(***************************************************************************)
EXTENDS Vfs

CONSTANTS
    Program,        \* processes; 1 is the first
    FdMax,          \* regular descriptors of a process
    TextMax         \* VFS_PATH_MAX, in components

ASSUME FileCallsAssumption ==
    1 \in Program /\ IsFiniteSet(Program) /\ FdMax \in Nat /\ TextMax \in Nat

VARIABLES
    cwd,            \* program |-> path; NoPath when it does not exist
    cwd_text,       \* program |-> components of the text
    fds             \* program |-> descriptor |-> handle

fileVars == <<vfsVars, cwd, cwd_text, fds>>

FdSlot == 1..FdMax
NoFds == [d \in FdSlot |-> NoHandle]
Alive(p) == cwd[p] # NoPath

NoPrograms ==
    /\ cwd = [p \in Program |-> NoPath]
    /\ cwd_text = [p \in Program |-> <<>>]
    /\ fds = [p \in Program |-> NoFds]

\* The system as it boots: one instance as the root, one program in it.
FileCallsInit ==
    \E f \in Instance :
        /\ registered = {f}
        /\ mounts = [m \in MountSlot |-> IF m = 0 THEN RootMount(f) ELSE NoMount]
        /\ nodes = [n \in Node |-> IF n = RootOf(f)
                                   THEN [NewNode("directory", n, "") EXCEPT !.refs = 2] ELSE NoFile]
        /\ content = [n \in Node |-> <<>>]
        /\ path_reference_count = 1 /\ open_handle_count = 0
        /\ held = [h \in Holder |-> NoPath] /\ opened = [r \in Reader |-> NoHandle]
        /\ cwd = [p \in Program |-> IF p = 1 THEN RootPath ELSE NoPath]
        /\ cwd_text = [p \in Program |-> <<>>]
        /\ fds = [p \in Program |-> NoFds]

Same == UNCHANGED <<registered, mounts, held, opened>>

----------------------------------------------------------------------------
(* Paths of programs                                                       *)

\* A path of a program: absolute or from its working directory.
UserText == [absolute : BOOLEAN, components : PathText]

vfs_resolve_process(s, p, t) ==
    vfs_resolve(s, IF t.absolute THEN RootPath ELSE cwd[p], t.components)

\* The path without its last component, and that component.
syscall_fs_resolve_parent(s, p, t) ==
    vfs_resolve_process(s, p, [t EXCEPT !.components = Front(@)])

\* A slip: the text keeps the components as they are given.
CanonicalKeepsParent(p, t) == (IF t.absolute THEN <<>> ELSE cwd_text[p]) \o t.components

\* The text of the directory a path leads to; too long when it exceeds the bound.
syscall_build_canonical_cwd(p, t) ==
    FoldLeft(LAMBDA text, c : IF c # ".." THEN Append(text, c)
                              ELSE IF text = <<>> THEN text ELSE Front(text),
             IF t.absolute THEN <<>> ELSE cwd_text[p], t.components)

----------------------------------------------------------------------------
(* Directories                                                             *)

\* What a creation or a removal at a directory does to the references: the
\* path of a new node is given back at once.
CreatedAt(s, d, name, type) ==
    LET ns == ramfs_create_node(s.nodes, d.node, name, type)
        new == [d EXCEPT !.node = CHOOSE n \in ramfs_find_child(ns, d.node, name) : TRUE]
    IN  IF ns = s.nodes THEN s
        ELSE vfs_path_release(vfs_path_acquire([s EXCEPT !.nodes = ns], new), new)
RemovedAt(s, d, name, type) == [s EXCEPT !.nodes = ramfs_remove_node(@, d.node, name, type)]

Directory(s) ==
    /\ References(s)
    /\ content' = ContentOf(s.nodes)
    /\ Same /\ UNCHANGED <<open_handle_count, cwd, cwd_text, fds>>

syscall_fs_mkdir(p, name) ==
    Directory(vfs_path_release(CreatedAt(vfs_path_acquire(Now, cwd[p]), cwd[p], name, "directory"),
                               cwd[p]))

syscall_fs_rmdir(p, name) ==
    Directory(vfs_path_release(RemovedAt(vfs_path_acquire(Now, cwd[p]), cwd[p], name, "directory"),
                               cwd[p]))

syscall_fs_touch(p, t) ==
    LET w == syscall_fs_resolve_parent(Now, p, t) IN
    /\ t.components # <<>> /\ Last(t.components) # ".."
    /\ Directory(IF w.ok THEN vfs_path_release(CreatedAt(w.s, w.path, Last(t.components), "file"),
                                               w.path)
                 ELSE w.s)

syscall_fs_unlink(p, t) ==
    LET w == syscall_fs_resolve_parent(Now, p, t) IN
    /\ t.components # <<>> /\ Last(t.components) # ".."
    /\ Directory(IF w.ok THEN vfs_path_release(RemovedAt(w.s, w.path, Last(t.components), "file"),
                                               w.path)
                 ELSE w.s)

\* The new directory is kept before the old one is let go.
process_replace_cwd(s, p, d) ==
    LET t == vfs_path_acquire(s, d)
    IN  IF Alive(p) THEN vfs_path_release(t, cwd[p]) ELSE t

syscall_fs_chdir(p, t) ==
    LET w == vfs_resolve_process(Now, p, t)
        text == syscall_build_canonical_cwd(p, t)
    IN  /\ Len(text) <= TextMax /\ w.ok
        /\ IF w.s.nodes[w.path.node].type = "directory"
           THEN /\ References(vfs_path_release(process_replace_cwd(w.s, p, w.path), w.path))
                /\ cwd' = [cwd EXCEPT ![p] = w.path]
                /\ cwd_text' = [cwd_text EXCEPT ![p] = text]
           ELSE References(vfs_path_release(w.s, w.path)) /\ UNCHANGED <<cwd, cwd_text>>
        /\ Same /\ UNCHANGED <<content, open_handle_count, fds>>

----------------------------------------------------------------------------
(* Files                                                                   *)

\* Opened for the time of the call: reading changes nothing but references
\* on the way.
syscall_fs_read(p, t) ==
    LET w == vfs_resolve_process(Now, p, t)
        isFile == w.ok /\ w.s.nodes[w.path.node].type = "file"
        handle == vfs_path_release(vfs_path_acquire(w.s, w.path), w.path)
    IN  /\ References(IF ~w.ok THEN w.s
                      ELSE vfs_path_release(IF isFile THEN handle ELSE w.s, w.path))
        /\ Same /\ UNCHANGED <<content, open_handle_count, cwd, cwd_text, fds>>

\* The file is emptied, then written from its start; when the write fails it
\* stays empty.
syscall_fs_write(p, t, bytes, heap) ==
    LET w == vfs_resolve_process(Now, p, t)
        n == w.path.node
        empty == [w.s EXCEPT !.nodes = ramfs_truncate(@, n, 0, TRUE)]
        taken == vfs_path_release(vfs_path_acquire(empty, w.path), w.path)
        full == [taken EXCEPT !.nodes = ramfs_write(@, n, 0, bytes, heap)]
    IN  /\ w.ok /\ nodes[n].type = "file"
        /\ References(vfs_path_release(full, w.path))
        /\ content' = [content EXCEPT ![n] =
               IF WriteFits(empty.nodes, n, 0, bytes, heap) THEN bytes ELSE <<>>]
        /\ Same /\ UNCHANGED <<open_handle_count, cwd, cwd_text, fds>>

kernel_fd_open_regular(p, d, w) ==
    /\ w.s.nodes[w.path.node].type = "file"
    /\ ~fds[p][d].open /\ \A e \in FdSlot : e < d => fds[p][e].open
    /\ References(vfs_path_release(vfs_path_acquire(w.s, w.path), w.path))
    /\ fds' = [fds EXCEPT ![p][d] = [open |-> TRUE, path |-> w.path, offset |-> 0,
                                     access |-> {"read", "write"}]]
    /\ open_handle_count' = open_handle_count + 1

syscall_fd_open(p, t) ==
    LET w == vfs_resolve_process(Now, p, t) IN
    /\ w.ok
    /\ \E d \in FdSlot : kernel_fd_open_regular(p, d, w)
    /\ Same /\ UNCHANGED <<content, cwd, cwd_text>>

syscall_fd_read(p, d, length) ==
    /\ fds[p][d].open
    /\ fds' = [fds EXCEPT ![p][d].offset =
                  @ + Len(ramfs_read(nodes, fds[p][d].path.node, @, length))]
    /\ Same
    /\ UNCHANGED <<nodes, content, path_reference_count, open_handle_count, cwd, cwd_text>>

syscall_fd_write(p, d, bytes, heap) ==
    /\ fds[p][d].open
    /\ write(fds[p][d].path.node, fds[p][d].offset, bytes, heap)
    /\ fds' = [fds EXCEPT ![p][d].offset = @ + Len(bytes)]
    /\ UNCHANGED <<mounts, held, opened, path_reference_count, open_handle_count, cwd, cwd_text>>

syscall_fd_close(p, d) ==
    /\ fds[p][d].open
    /\ References(vfs_path_release(Now, fds[p][d].path))
    /\ fds' = [fds EXCEPT ![p][d] = NoHandle]
    /\ open_handle_count' = open_handle_count - 1
    /\ Same /\ UNCHANGED <<content, cwd, cwd_text>>

----------------------------------------------------------------------------
(* Programs                                                                *)

\* The program file is open while the child is built in the directory of its
\* parent; when the file is no program, the child is cleared again.
spawn(p, q, t, loads) ==
    LET w == vfs_resolve_process(Now, p, t)
        source == vfs_path_release(vfs_path_acquire(w.s, w.path), w.path)
        parent == vfs_path_acquire(source, cwd[p])
        child == vfs_path_release(process_replace_cwd(parent, q, cwd[p]), cwd[p])
        built == IF loads THEN child ELSE vfs_path_release(child, cwd[p])
    IN  /\ ~Alive(q) /\ w.ok /\ nodes[w.path.node].type = "file"
        /\ References(vfs_path_release(built, w.path))
        /\ cwd' = [cwd EXCEPT ![q] = IF loads THEN cwd[p] ELSE NoPath]
        /\ cwd_text' = [cwd_text EXCEPT ![q] =
               IF loads /\ nodes[cwd[p].node].parent # cwd[p].node THEN cwd_text[p] ELSE <<>>]
        /\ Same /\ UNCHANGED <<content, open_handle_count, fds>>

\* Descriptors first, then the working directory.
process_clear(p) ==
    LET closed[d \in 0..FdMax] ==
            IF d = 0 THEN Now
            ELSE IF fds[p][d].open THEN vfs_path_release(closed[d - 1], fds[p][d].path)
            ELSE closed[d - 1]
    IN  /\ References(vfs_path_release(closed[FdMax], cwd[p]))
        /\ open_handle_count' = open_handle_count - Cardinality({d \in FdSlot : fds[p][d].open})
        /\ fds' = [fds EXCEPT ![p] = NoFds]
        /\ cwd' = [cwd EXCEPT ![p] = NoPath]
        /\ cwd_text' = [cwd_text EXCEPT ![p] = <<>>]
        /\ Same /\ UNCHANGED content

FileCallsNext ==
    \E p \in Program :
        /\ Alive(p)
        /\ \/ \E name \in FileName : syscall_fs_mkdir(p, name) \/ syscall_fs_rmdir(p, name)
           \/ \E t \in UserText :
                  \/ syscall_fs_touch(p, t) \/ syscall_fs_unlink(p, t) \/ syscall_fs_chdir(p, t)
                  \/ syscall_fs_read(p, t) \/ syscall_fd_open(p, t)
                  \/ \E b \in Byte, heap \in BOOLEAN : syscall_fs_write(p, t, <<b>>, heap)
                  \/ \E q \in Program \ {p}, loads \in BOOLEAN : spawn(p, q, t, loads)
           \/ \E d \in FdSlot :
                  \/ syscall_fd_read(p, d, 1) \/ syscall_fd_close(p, d)
                  \/ \E b \in Byte, heap \in BOOLEAN : syscall_fd_write(p, d, <<b>>, heap)
           \/ p # 1 /\ process_clear(p)

\* The file layer: users inside the kernel, who may also begin without it, and
\* programs.
FilesInit == FileCallsInit \/ (VfsInit /\ NoPrograms)
FilesNext == FileCallsNext \/ (VfsNext /\ UNCHANGED <<cwd, cwd_text, fds>>)
FilesSpec == FilesInit /\ [][FilesNext]_fileVars

----------------------------------------------------------------------------
(* Properties                                                              *)

\* How many working directories and descriptors of programs are at a node.
ProgramsAt(n) ==
    Cardinality({p \in Program : cwd[p].node = n})
        + Cardinality({x \in Program \X FdSlot : fds[x[1]][x[2]].path.node = n})

\* No reference is lost or given back twice, on no path through a call that
\* succeeds or fails: a node counts exactly the paths, handles and mounts at it,
\* the two totals that guard vfs_shutdown are right, and a node that somebody
\* refers to exists (ramfs_remove_node, vfs_resolve, process_replace_cwd).
RefsTrue ==
    /\ \A n \in Node :
           nodes[n].refs = PathsAt(n) + MountsAt(n) + ProgramsAt(n)
               /\ (nodes[n].refs > 0 => InUse(nodes, n))
    /\ open_handle_count = Cardinality({r \in Reader : opened[r].open})
                           + Cardinality({x \in Program \X FdSlot : fds[x[1]][x[2]].open})
    /\ path_reference_count = open_handle_count + Cardinality({h \in Holder : held[h] # NoPath})
                              + Cardinality({p \in Program : Alive(p)})

\* The root of a mounted file system and the directories above it.
AboveMounts ==
    {Climbed([mount |-> m, node |-> RootOf(mounts[m].fs)])[k] :
        m \in {x \in MountSlot : mounts[x].active}, k \in 0..(NodeMax * MountMax)}

\* What GETCWD tells a program is where its relative paths start: the text,
\* which is edited component by component, resolves to the path, which is walked,
\* whatever the other programs create and remove meanwhile; and ".." leads home
\* from every path.  SPAWN is the exception: in the root of a file system, also a
\* mounted one, process_set_cwd gives the child the text "/".  So the text of a
\* program that was started may lack its beginning, but no more than what leads
\* to the root of a mounted file system or to a directory above it; where nothing
\* is mounted but the root, it is whole.
CwdTextTrue ==
    /\ PathsLeadHome
    /\ \A p \in Program : Alive(p) =>
          LET LeadsFrom(start) ==
                LET w == vfs_resolve(Now, start, cwd_text[p]) IN w.ok /\ w.path = cwd[p]
          IN  \/ LeadsFrom(RootPath)
              \/ p # 1 /\ \E start \in AboveMounts : LeadsFrom(start)
============================================================================
