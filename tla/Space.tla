------------------------------- MODULE Space -------------------------------
(***************************************************************************)
(* Where the frames of the machine are: address spaces with their page       *)
(* tables (src/kernel/arch/x86_64/address_space.c, ring3_memory.c), the      *)
(* images of programs (src/kernel/core/elf_loader.c), the anonymous areas    *)
(* and shared buffers of processes (src/kernel/core/user_memory.c) and the   *)
(* pages of the kernel heap.  Every operation takes frame after frame and    *)
(* gives back what it has when the next one is missing.                     *)
(*                                                                         *)
(* A page table is named by its level and what it covers, and found in the   *)
(* function of its address space from such names to frames: an entry of the  *)
(* parent is there when the child is.  The lock-step of reference counts      *)
(* with IPC is the subject of module Buffer; handles are their slots.        *)
(***************************************************************************)
EXTENDS Integers, FiniteSets, Sequences, Functions

CONSTANTS
    Owner,          \* the processes
    FrameCount,     \* bound: frames of the machine
    Depth,          \* levels of page tables, the root is the highest
    Fanout,         \* entries of a page table
    OwnedMax,       \* ADDRESS_SPACE_MAX_OWNED_TABLE_FRAMES
    ArenaPages,     \* pages from USER_MEMORY_ARENA_BASE to ARENA_LIMIT
    StackPage,      \* where a program's stack is mapped
    AreaMax,        \* USER_MEMORY_ALLOCATION_MAX
    ViewMax,        \* USER_MEMORY_BUFFER_MAPPING_MAX
    BufferMax,      \* USER_MEMORY_BUFFER_OBJECT_MAX
    HeldMax,        \* USER_MEMORY_BUFFER_HANDLE_MAX
    ImageBases,     \* bound: where programs are loaded
    PageCounts,     \* bound: pages that are asked for
    HeapFrameMax    \* bound: frames the kernel heap may take

None == 0

ASSUME SpaceAssumption ==
    /\ {FrameCount, Depth, Fanout, OwnedMax} \subseteq Nat \ {0}
    /\ {ArenaPages, StackPage, AreaMax, ViewMax, BufferMax, HeldMax} \subseteq Nat
    /\ PageCounts \subseteq Nat \ {0} /\ ImageBases \subseteq Nat /\ HeapFrameMax \in Nat
    /\ StackPage >= ArenaPages
    /\ IsFiniteSet(Owner) /\ None \notin Owner

Frame == 1..FrameCount
UserPage == 0..StackPage
Root == <<Depth, 0>>

VARIABLES
    available,      \* the frames that are free
    heap_frames,    \* the frames under the kernel heap
    tables,         \* of each process: table |-> frame
    pages,          \* of each process: page |-> frame
    image,          \* of each process: the pages of its program, in load order
    areas,          \* of each process: slot |-> [base, count]
    views,          \* of each process: slot |-> [base, count, object]
    handles,        \* of each process: slot |-> object or None
    objects,        \* slot |-> [frames, refs]
    exiting,        \* the process that is in EXIT, or None
    halted          \* x86_64_halt_forever

spaceVars == <<available, heap_frames, tables, pages, image, areas, views,
               handles, objects, exiting, halted>>

NoArea == [base |-> 0, count |-> 0]
NoView == [base |-> 0, count |-> 0, object |-> None]
NoBuffer == [frames |-> <<>>, refs |-> 0]

SpaceInit ==
    /\ available = Frame /\ heap_frames = {}
    /\ tables = [p \in Owner |-> <<>>] /\ pages = [p \in Owner |-> <<>>]
    /\ image = [p \in Owner |-> <<>>]
    /\ areas = [p \in Owner |-> [s \in 1..AreaMax |-> NoArea]]
    /\ views = [p \in Owner |-> [s \in 1..ViewMax |-> NoView]]
    /\ handles = [p \in Owner |-> [s \in 1..HeldMax |-> None]]
    /\ objects = [o \in 1..BufferMax |-> NoBuffer]
    /\ exiting = None /\ halted = FALSE

----------------------------------------------------------------------------
(* One address space, as a value that the steps of an operation hand on      *)

Least(S) == CHOOSE x \in S : \A y \in S : x <= y
Without(f, S) == [x \in DOMAIN f \ S |-> f[x]]
With(f, x, y) == [z \in DOMAIN f \cup {x} |-> IF z = x THEN y ELSE f[z]]

\* The first n entries of a sequence, the last one first.
Backwards(s, n) == [i \in 1..n |-> s[n + 1 - i]]

\* The free frames, the tables and the pages, the tables that the mapping of a
\* page made, the frames that the call took for pages, and how many it mapped.
Given(p) == [available |-> available, tables |-> tables[p], pages |-> pages[p],
             created |-> {}, taken |-> {}, done |-> 0, ok |-> TRUE]

\* The entries on the way to a page: its number, and at each level above the
\* part of it that is left.
Above[k \in 0..(Depth - 1)] ==
    IF k = 0 THEN [v \in UserPage |-> v] ELSE [v \in UserPage |-> Above[k - 1][v] \div Fanout]

\* The tables on the way to a page, from the lowest up to the one below the root.
Walk(v) == [k \in 1..(Depth - 1) |-> <<k, Above[k][v]>>]

\* get_or_create_user_child.
GetOrCreate(st, t) ==
    IF ~st.ok \/ t \in DOMAIN st.tables THEN st
    ELSE IF st.available = {} \/ Cardinality(DOMAIN st.tables) >= OwnedMax
      THEN [st EXCEPT !.ok = FALSE]
      ELSE LET f == Least(st.available)
           IN  [st EXCEPT !.available = @ \ {f}, !.tables = With(@, t, f),
                          !.created = @ \cup {t}]

\* The tables for a page, from the one below the root down.
GetTables(st, v) ==
    LET down[i \in 0..(Depth - 1)] ==
            IF i = 0 THEN st ELSE GetOrCreate(down[i - 1], Walk(v)[Depth - i])
    IN  down[Depth - 1]

rollback_created_tables(st) ==
    [st EXCEPT !.available = @ \cup {st.tables[t] : t \in st.created},
               !.tables = Without(@, st.created), !.created = {}]

\* ring3_user_map_page_permissions.
MapPage(st, v, f) ==
    LET made == GetTables([st EXCEPT !.created = {}], v)
    IN  IF made.ok /\ v \notin DOMAIN made.pages
          THEN [made EXCEPT !.pages = With(@, v, f), !.created = {}, !.done = @ + 1]
          ELSE [rollback_created_tables(made) EXCEPT !.ok = FALSE]

\* address_space_table_empty.
TableEmpty(st, t) ==
    IF t[1] = 1 THEN \A v \in DOMAIN st.pages : v \div Fanout # t[2]
    ELSE \A u \in DOMAIN st.tables : u[1] = t[1] - 1 => u[2] \div Fanout # t[2]

ReleaseTable(st, t) ==
    IF TableEmpty(st, t)
      THEN [st EXCEPT !.available = @ \cup {st.tables[t]}, !.tables = Without(@, {t})]
      ELSE st

\* The page first, then the tables above it, as long as they are empty.
address_space_unmap_page(st, v) ==
    LET up[k \in 0..(Depth - 1)] ==
            IF k = 0 THEN [st EXCEPT !.pages = Without(@, {v})]
            ELSE ReleaseTable(up[k - 1], Walk(v)[k])
    IN  up[Depth - 1]

UnmapAll(st, vs) ==
    LET left[i \in 0..Len(vs)] ==
            IF i = 0 THEN st ELSE address_space_unmap_page(left[i - 1], vs[i])
    IN  left[Len(vs)]

FreeFrames(st, fs) == [st EXCEPT !.available = @ \cup fs, !.taken = {}]

\* A new frame for page v: the frame is in st.taken when the mapping fails.
TakePage(st, v) ==
    IF ~st.ok THEN st
    ELSE IF st.available = {} THEN [st EXCEPT !.ok = FALSE]
    ELSE LET f == Least(st.available)
         IN  MapPage([st EXCEPT !.available = @ \ {f}, !.taken = @ \cup {f}], v, f)

\* A frame for one page after the other, until one is missing.
TakeEach(st, vs) ==
    LET got[i \in 0..Len(vs)] == IF i = 0 THEN st ELSE TakePage(got[i - 1], vs[i])
    IN  got[Len(vs)]

\* Mutant: the frame that could not be mapped is forgotten.
FreesMappedOnly(st, vs) ==
    LET end == TakeEach(st, vs)
        mapped == Backwards(vs, end.done)
    IN  IF end.ok THEN [end EXCEPT !.taken = {}]
        ELSE FreeFrames(UnmapAll(end, mapped), {end.pages[v] : v \in Range(mapped)})

\* Maps a run of pages with new frames, or leaves everything as it was.
TakePages(st, vs) ==
    LET end == TakeEach(st, vs)
    IN  IF end.ok THEN [end EXCEPT !.taken = {}]
        ELSE FreeFrames(UnmapAll(end, Backwards(vs, end.done)), end.taken)

Run(base, count) == [i \in 1..count |-> base + i - 1]

----------------------------------------------------------------------------
(* The kernel heap (module Heap): a request fits, takes frames for a page    *)
(* and perhaps a page table, or fails when they are missing.                *)

KmallocOutcomes ==
    LET Grown(n) ==
          LET free == {f \in available : Cardinality({g \in available : g <= f}) > n}
          IN  [free |-> free, heap |-> heap_frames \cup (available \ free)]
        most == {n \in 0..2 : /\ n <= Cardinality(available)
                              /\ Cardinality(heap_frames) + n <= HeapFrameMax}
    IN  {Grown(n) : n \in most}

KmallocMayFail == Cardinality(available) < 2 \/ Cardinality(heap_frames) = HeapFrameMax

Exists(p) == Root \in DOMAIN tables[p]
MayCall(p) == ~halted /\ exiting = None /\ image[p] # <<>>

\* What a call writes back.
Keep(p, st) ==
    /\ available' = st.available
    /\ tables' = [tables EXCEPT ![p] = st.tables]
    /\ pages' = [pages EXCEPT ![p] = st.pages]

----------------------------------------------------------------------------
(* Programs                                                                *)

\* boring_elf_unload, the last page first.
boring_elf_unload(st, vs) ==
    FreeFrames(UnmapAll(st, Backwards(vs, Len(vs))), {st.pages[v] : v \in Range(vs)})

\* address_space_destroy refuses an address space that still has a table.
address_space_destroy(st) ==
    IF DOMAIN st.tables = {Root}
      THEN [st EXCEPT !.available = @ \cup {st.tables[Root]}, !.tables = <<>>]
      ELSE st

\* process_create and boring_elf_load_source: the root, the pages of a
\* segment, which may lie anywhere below the stack, and the stack.  When the
\* file ends after some pages or a frame is missing all of it is undone and
\* process_discard_unstarted gives the root back.
spawn(p, base, count, readable) ==
    /\ ~halted /\ exiting = None /\ ~Exists(p)
    /\ base + count <= StackPage
    /\ \E k \in KmallocOutcomes :
        /\ heap_frames' = k.heap
        /\ LET fresh == [Given(p) EXCEPT !.available = k.free]
               rooted == [fresh EXCEPT !.available = @ \ {Least(@)},
                                       !.tables = With(@, Root, Least(k.free))]
               all == Append(Run(base, count), StackPage)
               vs == IF readable >= count THEN all ELSE Run(base, readable + 1)
               end == TakePages(rooted, vs)
               loaded == end.ok /\ vs = all
           IN  /\ Keep(p, IF k.free = {} THEN fresh
                          ELSE IF loaded THEN end
                          ELSE address_space_destroy(
                                 IF end.ok THEN boring_elf_unload(end, vs) ELSE end))
               /\ image' = [image EXCEPT ![p] =
                              IF k.free # {} /\ loaded THEN all ELSE <<>>]
    /\ UNCHANGED <<areas, views, handles, objects, exiting, halted>>

----------------------------------------------------------------------------
(* System calls                                                            *)

FirstUnused(table, unused, s) ==
    /\ s \in DOMAIN table
    /\ table[s] = unused
    /\ \A r \in DOMAIN table : table[r] = unused => s <= r

\* The pages of an area or a view.
Span(r) == r.base..(r.base + r.count - 1)
Occupied(p) ==
    (UNION {Span(areas[p][s]) : s \in 1..AreaMax}) \cup (UNION {Span(views[p][s]) : s \in 1..ViewMax})

\* The lowest range of the arena that no area and no view of p touches.
find_virtual_range(p, count, base) ==
    LET fits == {b \in 0..(ArenaPages - count) : Span([base |-> b, count |-> count]) \cap Occupied(p) = {}}
    IN  fits # {} /\ base = Least(fits)

\* The vector of frames is given back to the heap at the end.
user_memory_allocate(p, count) ==
    /\ MayCall(p)
    /\ \E s \in 1..AreaMax, base \in 0..ArenaPages :
        /\ FirstUnused(areas[p], NoArea, s)
        /\ find_virtual_range(p, count, base)
        /\ \E k \in KmallocOutcomes :
            /\ heap_frames' = k.heap
            /\ LET end == TakePages([Given(p) EXCEPT !.available = k.free], Run(base, count))
               IN  /\ Keep(p, end)
                   /\ areas' = IF end.ok
                                 THEN [areas EXCEPT ![p][s] = [base |-> base, count |-> count]]
                                 ELSE areas
    /\ UNCHANGED <<image, views, handles, objects, exiting, halted>>

\* user_memory_free of area s, on top of the frames free: the frames come from
\* the page tables.
FreeArea(p, s, free) ==
    LET vs == Run(areas[p][s].base, areas[p][s].count)
        st == [Given(p) EXCEPT !.available = free]
    IN  FreeFrames(UnmapAll(st, vs), {pages[p][v] : v \in Span(areas[p][s])})

user_memory_free(p, s) ==
    /\ areas[p][s] # NoArea
    /\ \E k \in KmallocOutcomes :
        /\ heap_frames' = k.heap
        /\ Keep(p, FreeArea(p, s, k.free))
    /\ areas' = [areas EXCEPT ![p][s] = NoArea]
    /\ UNCHANGED <<image, views, handles, objects, exiting, halted>>

\* Up to count frames, and the frames that are left.
TakeFrames(free, count) ==
    LET got[i \in 0..count] ==
            IF i = 0 THEN [left |-> free, frames |-> <<>>]
            ELSE IF got[i - 1].left = {} THEN got[i - 1]
            ELSE LET f == Least(got[i - 1].left)
                 IN  [left |-> got[i - 1].left \ {f}, frames |-> Append(got[i - 1].frames, f)]
    IN  got[count]

\* The frames are taken after the vector, which stays with the object.
user_buffer_create(p, count) ==
    /\ MayCall(p)
    /\ \E o \in 1..BufferMax, h \in 1..HeldMax :
        /\ FirstUnused(objects, NoBuffer, o)
        /\ FirstUnused(handles[p], None, h)
        /\ \E k \in KmallocOutcomes :
            /\ heap_frames' = k.heap
            /\ LET got == TakeFrames(k.free, count)
               IN  IF Len(got.frames) < count
                     THEN available' = k.free /\ UNCHANGED <<objects, handles>>
                     ELSE /\ available' = got.left
                          /\ objects' = [objects EXCEPT ![o] = [frames |-> got.frames, refs |-> 1]]
                          /\ handles' = [handles EXCEPT ![p][h] = o]
    /\ UNCHANGED <<tables, pages, image, areas, views, exiting, halted>>

\* Another process gets a handle: an IPC message that carried the buffer.
user_buffer_commit_install(p, o) ==
    /\ MayCall(p)
    /\ objects[o] # NoBuffer
    /\ \E h \in 1..HeldMax :
        /\ FirstUnused(handles[p], None, h)
        /\ handles' = [handles EXCEPT ![p][h] = o]
    /\ objects' = [objects EXCEPT ![o].refs = @ + 1]
    /\ UNCHANGED <<available, heap_frames, tables, pages, image, areas, views, exiting, halted>>

\* The frames of the object, mapped; undone when a page table is missing.
MapEach(st, vs, fs) ==
    LET got[i \in 0..Len(vs)] ==
            IF i = 0 THEN st
            ELSE IF got[i - 1].ok THEN MapPage(got[i - 1], vs[i], fs[i]) ELSE got[i - 1]
    IN  got[Len(vs)]
MapFrames(st, vs, fs) ==
    LET end == MapEach(st, vs, fs)
    IN  IF end.ok THEN end ELSE UnmapAll(end, Backwards(vs, end.done))

user_buffer_map(p, h) ==
    /\ MayCall(p)
    /\ handles[p][h] # None
    /\ LET o == handles[p][h]
           count == Len(objects[o].frames)
       IN  \E s \in 1..ViewMax, base \in 0..ArenaPages :
             /\ FirstUnused(views[p], NoView, s)
             /\ find_virtual_range(p, count, base)
             /\ LET end == MapFrames(Given(p), Run(base, count), objects[o].frames)
                IN  /\ Keep(p, end)
                    /\ IF end.ok
                         THEN /\ views' = [views EXCEPT ![p][s] =
                                             [base |-> base, count |-> count, object |-> o]]
                              /\ objects' = [objects EXCEPT ![o].refs = @ + 1]
                         ELSE UNCHANGED <<views, objects>>
    /\ UNCHANGED <<heap_frames, image, areas, handles, exiting, halted>>

\* object_unref and object_release_storage.
Unref(o) ==
    IF objects[o].refs = 1 THEN [objects EXCEPT ![o] = NoBuffer]
    ELSE [objects EXCEPT ![o].refs = @ - 1]
Released(o) == IF objects[o].refs = 1 THEN Range(objects[o].frames) ELSE {}

user_buffer_unmap(p, s) ==
    /\ views[p][s] # NoView
    /\ LET w == views[p][s]
           end == UnmapAll(Given(p), Run(w.base, w.count))
       IN  /\ Keep(p, FreeFrames(end, Released(w.object)))
           /\ objects' = Unref(w.object)
    /\ views' = [views EXCEPT ![p][s] = NoView]
    /\ UNCHANGED <<heap_frames, image, areas, handles, exiting, halted>>

user_buffer_close(p, h) ==
    /\ handles[p][h] # None
    /\ available' = available \cup Released(handles[p][h])
    /\ objects' = Unref(handles[p][h])
    /\ handles' = [handles EXCEPT ![p][h] = None]
    /\ UNCHANGED <<heap_frames, tables, pages, image, areas, views, exiting, halted>>

----------------------------------------------------------------------------
(* EXIT                                                                    *)

begin_exit(p) ==
    /\ MayCall(p)
    /\ exiting' = p
    /\ UNCHANGED <<available, heap_frames, tables, pages, image, areas, views,
                   handles, objects, halted>>

HasAreas(p) == \E s \in 1..AreaMax : areas[p][s] # NoArea
HasViews(p) == \E s \in 1..ViewMax : views[p][s] # NoView
HasHandles(p) == \E h \in 1..HeldMax : handles[p][h] # None
FirstUsed(table, unused, s) == table[s] # unused /\ \A r \in 1..(s - 1) : table[r] = unused

\* user_memory_process_cleanup, a release at a time.  Freeing an area takes a
\* vector from the heap; without it the call fails and the machine halts.
cleanup_area ==
    /\ ~halted /\ exiting # None
    /\ \E s \in 1..AreaMax : FirstUsed(areas[exiting], NoArea, s) /\ user_memory_free(exiting, s)

cleanup_fails ==
    /\ ~halted /\ exiting # None /\ HasAreas(exiting)
    /\ KmallocMayFail
    /\ halted' = TRUE
    /\ UNCHANGED <<available, heap_frames, tables, pages, image, areas, views,
                   handles, objects, exiting>>

cleanup_view ==
    /\ ~halted /\ exiting # None /\ ~HasAreas(exiting)
    /\ \E s \in 1..ViewMax : FirstUsed(views[exiting], NoView, s) /\ user_buffer_unmap(exiting, s)

cleanup_handle ==
    /\ ~halted /\ exiting # None /\ ~HasAreas(exiting) /\ ~HasViews(exiting)
    /\ \E h \in 1..HeldMax : FirstUsed(handles[exiting], None, h) /\ user_buffer_close(exiting, h)

\* Without its program the process is finished.
finish_exit ==
    /\ ~halted /\ exiting # None
    /\ ~HasAreas(exiting) /\ ~HasViews(exiting) /\ ~HasHandles(exiting)
    /\ Keep(exiting, boring_elf_unload(Given(exiting), image[exiting]))
    /\ image' = [image EXCEPT ![exiting] = <<>>]
    /\ exiting' = None
    /\ UNCHANGED <<heap_frames, areas, views, handles, objects, halted>>

\* The parent that collects it destroys it.
process_destroy(p) ==
    /\ ~halted /\ exiting = None
    /\ Exists(p) /\ image[p] = <<>>
    /\ Keep(p, address_space_destroy(Given(p)))
    /\ UNCHANGED <<heap_frames, image, areas, views, handles, objects, exiting, halted>>

----------------------------------------------------------------------------
SpaceNext ==
    \/ \E p \in Owner, base \in ImageBases, count \in PageCounts, readable \in PageCounts \cup {0} :
          spawn(p, base, count, readable)
    \/ \E p \in Owner, count \in PageCounts :
          user_memory_allocate(p, count) \/ user_buffer_create(p, count)
    \/ \E p \in Owner, s \in 1..AreaMax : MayCall(p) /\ user_memory_free(p, s)
    \/ \E p \in Owner, o \in 1..BufferMax : user_buffer_commit_install(p, o)
    \/ \E p \in Owner, h \in 1..HeldMax :
          user_buffer_map(p, h) \/ (MayCall(p) /\ user_buffer_close(p, h))
    \/ \E p \in Owner, s \in 1..ViewMax : MayCall(p) /\ user_buffer_unmap(p, s)
    \/ \E p \in Owner : begin_exit(p) \/ process_destroy(p)
    \/ cleanup_area \/ cleanup_fails \/ cleanup_view \/ cleanup_handle \/ finish_exit

SpaceSpec == SpaceInit /\ [][SpaceNext]_spaceVars

----------------------------------------------------------------------------
(* Properties                                                              *)

\* The frames only p uses.
AreaPages(p) == UNION {Span(areas[p][s]) : s \in 1..AreaMax}
PrivatePages(p) == AreaPages(p) \cup Range(image[p])
PrivateFrames(p) == {pages[p][v] : v \in PrivatePages(p)}

\* The pages of a process are those of its program, its areas and its views, and
\* no two of these overlap.
NoOverlap(p) ==
    /\ \A r, s \in 1..AreaMax : r # s => Span(areas[p][r]) \cap Span(areas[p][s]) = {}
    /\ \A r, s \in 1..ViewMax : r # s => Span(views[p][r]) \cap Span(views[p][s]) = {}
    /\ \A r \in 1..AreaMax, s \in 1..ViewMax : Span(areas[p][r]) \cap Span(views[p][s]) = {}
    /\ Range(image[p]) \cap Occupied(p) = {}
    /\ IsInjective(image[p])

\* The page tables agree with the records of user_memory and of the loader: what
\* is mapped is what the records say, a view shows the frames of its object, and
\* the tables of the process are its root and the ones its pages need.
TablesFor(P) == {Root} \cup {<<k, Above[k][v]>> : k \in 1..(Depth - 1), v \in P}
SpaceTrue(p) ==
    /\ DOMAIN pages[p] = Occupied(p) \cup Range(image[p])
    /\ NoOverlap(p)
    /\ \A s \in 1..ViewMax : \A i \in 1..views[p][s].count :
          pages[p][views[p][s].base + i - 1] = objects[views[p][s].object].frames[i]
    /\ DOMAIN tables[p] = TablesFor(DOMAIN pages[p])

\* A process whose address space is gone has nothing.
NothingLeft(p) ==
    /\ tables[p] = <<>> /\ pages[p] = <<>> /\ image[p] = <<>>
    /\ ~HasAreas(p) /\ ~HasViews(p) /\ ~HasHandles(p)
SpacesTrue == \A p \in Owner : IF Exists(p) THEN SpaceTrue(p) ELSE NothingLeft(p)

\* Who can have a frame, and the frames it has.
Holder == {<<"heap", 0>>} \cup {"tables", "private"} \X Owner \cup {"object"} \X (1..BufferMax)
Held(h) ==
    CASE h[1] = "heap" -> heap_frames
      [] h[1] = "tables" -> Range(tables[h[2]])
      [] h[1] = "private" -> PrivateFrames(h[2])
      [] OTHER -> Range(objects[h[2]].frames)

\* No frame is lost and none has two owners, through every partial failure of
\* user_memory_allocate, boring_elf_load_source and page-table creation: a frame
\* that is not free has one holder, which has it once; and what the page tables
\* show is what the records say.
FramesOwned ==
    /\ UNION {Held(h) : h \in Holder} = Frame \ available
    /\ \A g \in Holder : Held(g) # {} => \A h \in Holder \ {g} : Held(g) \cap Held(h) = {}
    /\ \A p \in Owner :
          /\ IsInjective(tables[p])
          /\ \A u, v \in PrivatePages(p) : pages[p][u] = pages[p][v] => u = v
    /\ \A o \in 1..BufferMax : IsInjective(objects[o].frames)
    /\ SpacesTrue
=============================================================================
