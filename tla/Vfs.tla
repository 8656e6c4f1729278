-------------------------------- MODULE Vfs --------------------------------
(***************************************************************************)
(* The virtual file system of kernel/core/vfs.c over instances of RamFs:     *)
(* mounts, paths that hold a reference to their node, path resolution across *)
(* mounts, and open handles with an offset.                                 *)
(*                                                                         *)
(* A call takes and gives back references on the way, also when it fails:    *)
(* the operators below pass the part of the state that holds references,     *)
(* s = [nodes, paths], from step to step as the code does.                   *)
(***************************************************************************)
EXTENDS RamFs

CONSTANTS
    MountMax,       \* VFS_MOUNT_MAX
    Holder,         \* users of the interface inside the kernel, with one path each
    Reader,         \* users with one open handle each
    PathMax         \* bound: components of a path

ASSUME VfsAssumption ==
    /\ MountMax \in Nat \ {0} /\ PathMax \in Nat
    /\ IsFiniteSet(Holder) /\ IsFiniteSet(Reader)

VARIABLES
    mounts,         \* slot |-> the mount; 0 is the global root
    path_reference_count,
    open_handle_count,
    held,           \* holder |-> its path
    opened          \* reader |-> its handle

vfsVars == <<ramfsVars, mounts, path_reference_count, open_handle_count, held, opened>>

NoMount == [active |-> FALSE, fs |-> 0, parent |-> 0, mountpoint |-> <<>>]
RootMount(f) == [active |-> TRUE, fs |-> f, parent |-> 0, mountpoint |-> <<>>]
NoPath == [mount |-> 0, node |-> <<>>]
NoHandle == [open |-> FALSE, path |-> NoPath, offset |-> 0, access |-> {}]
MountSlot == 0..(MountMax - 1)
vfs_initialized == mounts[0].active

VfsInit ==
    /\ RamFsInit
    /\ mounts = [m \in MountSlot |-> NoMount]
    /\ path_reference_count = 0 /\ open_handle_count = 0
    /\ held = [h \in Holder |-> NoPath]
    /\ opened = [r \in Reader |-> NoHandle]

----------------------------------------------------------------------------
(* References                                                              *)

Now == [nodes |-> nodes, paths |-> path_reference_count]

vfs_node_retain(s, n) == [s EXCEPT !.nodes[n].refs = @ + 1]
vfs_node_release(s, n) == [s EXCEPT !.nodes[n].refs = @ - 1]
vfs_path_acquire(s, p) == [vfs_node_retain(s, p.node) EXCEPT !.paths = @ + 1]
vfs_path_release(s, p) == [vfs_node_release(s, p.node) EXCEPT !.paths = @ - 1]

\* A walk: whether it goes on, the references and the path it has reached.
At(s, p) == [ok |-> TRUE, s |-> s, path |-> p]
Failed(s) == [ok |-> FALSE, s |-> s, path |-> NoPath]

vfs_path_replace(w, p) == At(vfs_path_release(vfs_path_acquire(w.s, p), w.path), p)

----------------------------------------------------------------------------
(* Resolution                                                              *)

RootPath == [mount |-> 0, node |-> RootOf(mounts[0].fs)]

vfs_child_mount(p) ==
    {m \in MountSlot \ {0} : mounts[m].active /\ mounts[m].parent = p.mount
                                 /\ mounts[m].mountpoint = p.node}

\* Where the root of a mount leads to by "..": the directory of the
\* mountpoint, in the mount it is part of.
ParentOf(s, p) ==
    IF p.node # RootOf(mounts[p.mount].fs) THEN [p EXCEPT !.node = s.nodes[p.node].parent]
    ELSE IF p.mount = 0 THEN p
    ELSE [mount |-> mounts[p.mount].parent, node |-> s.nodes[mounts[p.mount].mountpoint].parent]

vfs_step_parent(w) ==
    IF ParentOf(w.s, w.path) = w.path THEN w ELSE vfs_path_replace(w, ParentOf(w.s, w.path))

vfs_follow_child_mount(w) ==
    LET m == vfs_child_mount(w.path) IN
    IF m = {} THEN w
    ELSE LET c == CHOOSE x \in m : TRUE
         IN  vfs_path_replace(w, [mount |-> c, node |-> RootOf(mounts[c].fs)])

\* A slip in a walk: a name that is not found leaves the path held.
StepLeaks(w, c) ==
    LET next == IF w.s.nodes[w.path.node].type = "directory"
                THEN ramfs_find_child(w.s.nodes, w.path.node, c) ELSE {}
    IN  IF c = ".." THEN vfs_step_parent(w)
        ELSE IF next = {} THEN Failed(w.s)
        ELSE vfs_follow_child_mount(
                 vfs_path_replace(w, [w.path EXCEPT !.node = CHOOSE n \in next : TRUE]))

\* One component of a path.
StepInto(w, c) ==
    LET next == IF w.s.nodes[w.path.node].type = "directory"
                THEN ramfs_find_child(w.s.nodes, w.path.node, c) ELSE {}
    IN  IF c = ".." THEN vfs_step_parent(w)
        ELSE IF next = {} THEN Failed(vfs_path_release(w.s, w.path))
        ELSE vfs_follow_child_mount(
                 vfs_path_replace(w, [w.path EXCEPT !.node = CHOOSE n \in next : TRUE]))

StepOn(w, c) == IF w.ok THEN StepInto(w, c) ELSE w

vfs_resolve(s, start, components) ==
    LET walk[k \in 0..Len(components)] ==
            IF k = 0 THEN At(vfs_path_acquire(s, start), start)
            ELSE StepOn(walk[k - 1], components[k])
    IN  walk[Len(components)]

Component == FileName \cup {".."}
PathText == UNION {[1..k -> Component] : k \in 0..PathMax}

----------------------------------------------------------------------------
(* Mounts                                                                  *)

References(s) == nodes' = s.nodes /\ path_reference_count' = s.paths

vfs_init(f) ==
    /\ ~vfs_initialized /\ f \in registered
    /\ mounts' = [mounts EXCEPT ![0] = RootMount(f)]
    /\ nodes' = vfs_node_retain(Now, RootOf(f)).nodes
    /\ path_reference_count' = 0 /\ open_handle_count' = 0
    /\ UNCHANGED <<registered, content, held, opened>>

\* A mount keeps its root and its mountpoint.
MountRefs(s, m) ==
    LET t == vfs_node_retain(s, RootOf(m.fs))
    IN  IF m.mountpoint = <<>> THEN t ELSE vfs_node_retain(t, m.mountpoint)

UnmountRefs(s, m) ==
    LET t == vfs_node_release(s, RootOf(m.fs))
    IN  IF m.mountpoint = <<>> THEN t ELSE vfs_node_release(t, m.mountpoint)

vfs_mount_filesystem(f, p) ==
    /\ vfs_initialized /\ p # NoPath
    /\ nodes[p.node].type = "directory"
    /\ f \in registered
    /\ p.node # RootOf(mounts[p.mount].fs) /\ f # mounts[p.mount].fs
    /\ \A m \in MountSlot : mounts[m].active => mounts[m].fs # f
    /\ vfs_child_mount(p) = {}
    /\ \E m \in MountSlot :
        /\ ~mounts[m].active
        /\ \A l \in MountSlot : ~mounts[l].active => m <= l
        /\ LET new == [active |-> TRUE, fs |-> f, parent |-> p.mount, mountpoint |-> p.node]
           IN  /\ mounts' = [mounts EXCEPT ![m] = new]
               /\ References(MountRefs(Now, new))
    /\ UNCHANGED <<registered, content, held, opened, open_handle_count>>

\* The last slot first.
vfs_shutdown ==
    LET after[k \in 0..MountMax] ==
            IF k = 0 THEN Now
            ELSE LET m == mounts[MountMax - k]
                 IN  IF m.active THEN UnmountRefs(after[k - 1], m) ELSE after[k - 1]
    IN
    /\ vfs_initialized
    /\ path_reference_count = 0 /\ open_handle_count = 0
    /\ References(after[MountMax])
    /\ mounts' = [m \in MountSlot |-> NoMount]
    /\ UNCHANGED <<registered, content, held, opened, open_handle_count>>

----------------------------------------------------------------------------
(* Paths and what is done at them                                          *)

resolve(h, start, text) ==
    /\ vfs_initialized /\ held[h] = NoPath
    /\ start = RootPath \/ \E g \in Holder : held[g] # NoPath /\ start = held[g]
    /\ LET w == vfs_resolve(Now, start, text) IN
        /\ References(w.s)
        /\ held' = [held EXCEPT ![h] = w.path]
    /\ UNCHANGED <<registered, content, mounts, opened, open_handle_count>>

vfs_path_release_held(h) ==
    /\ held[h] # NoPath
    /\ References(vfs_path_release(Now, held[h]))
    /\ held' = [held EXCEPT ![h] = NoPath]
    /\ UNCHANGED <<registered, content, mounts, opened, open_handle_count>>

\* Creation answers with a path to the new node.
vfs_create_common(h, g, name, type) ==
    /\ held[h] # NoPath /\ held[g] = NoPath
    /\ LET ns == ramfs_create_node(nodes, held[h].node, name, type)
           new == [held[h] EXCEPT !.node = CHOOSE n \in ramfs_find_child(ns, held[h].node, name) : TRUE]
       IN  /\ ns # nodes
           /\ References(vfs_path_acquire([Now EXCEPT !.nodes = ns], new))
           /\ held' = [held EXCEPT ![g] = new]
           /\ content' = ContentOf(ns)
    /\ UNCHANGED <<registered, mounts, opened, open_handle_count>>

vfs_remove_common(h, name, type) ==
    /\ held[h] # NoPath
    /\ Change(ramfs_remove_node(nodes, held[h].node, name, type))
    /\ UNCHANGED <<mounts, held, opened, path_reference_count, open_handle_count>>

vfs_rename_at(h, name, g, newname) ==
    /\ held[h] # NoPath /\ held[g] # NoPath
    /\ held[h].mount = held[g].mount
    /\ Change(ramfs_rename(nodes, held[h].node, name, held[g].node, newname))
    /\ UNCHANGED <<mounts, held, opened, path_reference_count, open_handle_count>>

vfs_truncate_path(h, size, heap) ==
    /\ held[h] # NoPath
    /\ truncate(held[h].node, size, heap)
    /\ UNCHANGED <<mounts, held, opened, path_reference_count, open_handle_count>>

vfs_handle_open(r, h, access) ==
    /\ held[h] # NoPath /\ nodes[held[h].node].type = "file"
    /\ ~opened[r].open
    /\ References(vfs_path_acquire(Now, held[h]))
    /\ opened' = [opened EXCEPT ![r] = [open |-> TRUE, path |-> held[h], offset |-> 0,
                                        access |-> access]]
    /\ open_handle_count' = open_handle_count + 1
    /\ UNCHANGED <<registered, content, mounts, held>>

vfs_handle_read(r, length) ==
    /\ opened[r].open /\ "read" \in opened[r].access
    /\ LET got == ramfs_read(nodes, opened[r].path.node, opened[r].offset, length)
       IN  opened' = [opened EXCEPT ![r].offset = @ + Len(got)]
    /\ UNCHANGED <<ramfsVars, mounts, held, path_reference_count, open_handle_count>>

vfs_handle_write(r, bytes, heap) ==
    /\ opened[r].open /\ "write" \in opened[r].access
    /\ write(opened[r].path.node, opened[r].offset, bytes, heap)
    /\ opened' = [opened EXCEPT ![r].offset = @ + Len(bytes)]
    /\ UNCHANGED <<mounts, held, path_reference_count, open_handle_count>>

vfs_handle_close(r) ==
    /\ opened[r].open
    /\ References(vfs_path_release(Now, opened[r].path))
    /\ opened' = [opened EXCEPT ![r] = NoHandle]
    /\ open_handle_count' = open_handle_count - 1
    /\ UNCHANGED <<registered, content, mounts, held>>

VfsNext ==
    \/ \E f \in Instance :
           /\ ramfs_create_filesystem(f) \/ ramfs_destroy_filesystem(f)
           /\ UNCHANGED <<mounts, path_reference_count, open_handle_count, held, opened>>
    \/ \E f \in Instance : vfs_init(f) \/ \E h \in Holder : vfs_mount_filesystem(f, held[h])
    \/ vfs_shutdown
    \/ \E h \in Holder :
           \/ vfs_initialized /\ \E start \in {held[g] : g \in Holder} \cup {RootPath},
                                    text \in PathText : resolve(h, start, text)
           \/ vfs_path_release_held(h)
           \/ \E g \in Holder, name \in FileName, type \in {"file", "directory"} :
                  vfs_create_common(h, g, name, type) \/ vfs_remove_common(h, name, type)
           \/ \E g \in Holder, name, newname \in FileName : vfs_rename_at(h, name, g, newname)
           \/ \E size \in 0..1, heap \in BOOLEAN : vfs_truncate_path(h, size, heap)
           \/ \E r \in Reader : vfs_handle_open(r, h, {"read", "write"})
    \/ \E r \in Reader :
           \/ vfs_handle_read(r, 1)
           \/ \E b \in Byte, heap \in BOOLEAN : vfs_handle_write(r, <<b>>, heap)
           \/ vfs_handle_close(r)

----------------------------------------------------------------------------
(* Properties                                                              *)

\* The paths that exist: of holders and of handles.
PathsAt(n) ==
    Cardinality({h \in Holder : held[h].node = n})
        + Cardinality({r \in Reader : opened[r].path.node = n})
MountsAt(n) ==
    Cardinality({m \in MountSlot : mounts[m].active /\ RootOf(mounts[m].fs) = n})
        + Cardinality({m \in MountSlot : mounts[m].active /\ mounts[m].mountpoint = n})

\* From a path to the global root by "..", through the mounts on the way.
Climbed(p) ==
    LET up[k \in 0..(NodeMax * MountMax)] == IF k = 0 THEN p ELSE ParentOf(Now, up[k - 1])
    IN  up
Climb(p) == Climbed(p)[NodeMax * MountMax]

\* Nobody gets lost: the nodes are trees, and from every path that is held ".."
\* leads to the global root whatever was mounted, renamed or removed since, and
\* a name followed by ".." leads back (vfs_step_parent, vfs_follow_child_mount,
\* ramfs_rename).
PathsLeadHome ==
    /\ TreeHolds
    /\ vfs_initialized =>
           \A p \in {held[h] : h \in Holder} \cup {opened[r].path : r \in Reader} :
               p # NoPath =>
                   /\ Climb(p) = RootPath
                   /\ nodes[p.node].type = "directory" =>
                          \A c \in FileName :
                              LET w == vfs_resolve(Now, p, <<c, "..">>) IN w.ok => w.path = p
============================================================================
