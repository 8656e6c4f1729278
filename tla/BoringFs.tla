------------------------------ MODULE BoringFs ------------------------------
(***************************************************************************)
(* The writable BoringFS volume: the bitmap, the object table and the data  *)
(* blocks on the disk, the one-block cache in front of them, the table of    *)
(* VFS nodes, and the operations of kernel/fs/boringfs_vfs.c.               *)
(*                                                                         *)
(* An operation runs to its end before the next one starts (system calls do  *)
(* not interleave), but it is a series of block writes: each of them may     *)
(* fail, which starts the rollback the code has for that write, and the      *)
(* power may fail between any two of them.                                  *)
(***************************************************************************)
EXTENDS Naturals, Sequences, FiniteSets, SequencesExt, Functions

CONSTANTS
    ObjectCount,        \* slots of the object table; 1 is the root
    BlockCount,         \* data blocks of the volume
    RecordsPerBlock,    \* directory records in a block (16 in the code)
    MaxExtents,         \* BORINGFS_MAX_EXTENTS
    ReferenceMax,       \* bound: references to one node
    RollbackFaults,     \* whether a write of a rollback may fail as well
    Name,
    Payload

ASSUME BoringFsAssumption ==
    /\ ObjectCount \in Nat \ {0} /\ BlockCount \in Nat
    /\ RecordsPerBlock \in Nat \ {0} /\ MaxExtents \in Nat \ {0}
    /\ RollbackFaults \in BOOLEAN

VARIABLES
    disk,       \* block |-> content
    cache,      \* block_cache, cached_block and cache_valid
    mounted,    \* a mount context exists
    node,       \* the prepared VFS nodes
    job,        \* the operation in progress: the writes it still has to do
    tree        \* history: the tree of the users, in which an operation in
                \* progress has not happened yet

fsVars == <<disk, cache, mounted, node, job, tree>>

Object == 1..ObjectCount
Root == 1
Block == 1..BlockCount
Bitmap == <<"bitmap", 0>>
Table == <<"objects", 0>>
Data(b) == <<"data", b>>
Region == {Bitmap, Table} \cup {Data(b) : b \in Block}

Free == [type |-> "none", parent |-> 0, size |-> 0, extents |-> <<>>]
Zero == [object |-> 0, name |-> "", type |-> "none"]
ZeroBlock == [s \in 1..RecordsPerBlock |-> Zero]
NoCache == [valid |-> FALSE, region |-> <<"none", 0>>, content |-> <<>>]
NotPrepared == [prepared |-> FALSE, parent |-> 0, type |-> "none", references |-> 0]
NoJob == [steps |-> <<>>, rolling |-> FALSE, node |-> 0, after |-> NotPrepared]

----------------------------------------------------------------------------
(* A volume, and what boringfs_validate_source accepts                     *)

\* The blocks of an object in logical order: its extents one after another.
BlocksOf(o) ==
    FlattenSeq([i \in DOMAIN o.extents |->
                   [k \in 1..o.extents[i].count |-> o.extents[i].start + k - 1]])

\* The block and the place in it of a directory's record number i.
RecordBlock(o, i) == BlocksOf(o)[((i - 1) \div RecordsPerBlock) + 1]
RecordPlace(i) == ((i - 1) % RecordsPerBlock) + 1

\* The records of directory d, used and unused.
Records(im, d) ==
    LET blocks == BlocksOf(im[Table][d])
    IN  [i \in 1..im[Table][d].size |->
            im[Data(blocks[((i - 1) \div RecordsPerBlock) + 1])][RecordPlace(i)]]

Occupied(records) == {i \in DOMAIN records : records[i].object # 0}

Directories(im) == {d \in Object : im[Table][d].type = "directory"}

\* validate_directory_record.
RecordValid(im, d, r) ==
    /\ r.object \in Object
    /\ r.type \in {"file", "directory"}
    /\ im[Table][r.object].type = r.type
    /\ im[Table][r.object].parent = d

\* validate_objects_and_extents: extents lie on allocated blocks of their own.
ValidObjects(im) ==
    LET blocks == [o \in Object |-> BlocksOf(im[Table][o])]
    IN  /\ im[Table][Root].type = "directory" /\ im[Table][Root].parent = Root
        /\ \A o \in Object :
              /\ Range(blocks[o]) \subseteq im[Bitmap]
              /\ IsInjective(blocks[o])
              /\ \A q \in Object \ {o} : Range(blocks[o]) \cap Range(blocks[q]) = {}
              /\ im[Table][o].size <= Len(blocks[o]) * RecordsPerBlock

\* validate_parents_and_cycles: the parents of every object lead to the root.
ValidParents(im) ==
    LET up[o \in Object, n \in 0..ObjectCount] ==
          \/ o = Root
          \/ /\ n > 0
             /\ im[Table][o].parent \in Directories(im)
             /\ up[im[Table][o].parent, n - 1]
    IN  \A o \in Object : im[Table][o].type # "none" => up[o, ObjectCount]

\* validate_directories: every record is valid, names are unique in a
\* directory and no object has two records.
ValidDirectories(im) ==
    LET dirs == Directories(im)
        records == [d \in dirs |-> Records(im, d)]
        used == UNION {{<<d, i, records[d][i]>> : i \in Occupied(records[d])} : d \in dirs}
    IN  /\ \A x \in used : RecordValid(im, x[1], x[3]) /\ x[3].object # Root
        /\ \A x, y \in used : x # y =>
              /\ x[3].object # y[3].object
              /\ x[1] = y[1] => x[3].name # y[3].name

\* validate_references: no object without a record.
ValidReferences(im) ==
    LET named == UNION {{r.object : r \in Range(Records(im, d))} : d \in Directories(im)}
    IN  \A o \in Object \ {Root} : im[Table][o].type # "none" => o \in named

\* validate_allocation_ownership: no allocated block without an owner.
ValidOwnership(im) ==
    im[Bitmap] \subseteq UNION {Range(BlocksOf(im[Table][o])) : o \in Object}

boringfs_validate_source(im) ==
    /\ ValidObjects(im) /\ ValidParents(im) /\ ValidDirectories(im)
    /\ ValidReferences(im) /\ ValidOwnership(im)

----------------------------------------------------------------------------
(* The cache                                                               *)

\* What boringfs_source_read returns: the cached block wins over the disk.
Seen == [r \in Region |-> IF cache.valid /\ cache.region = r THEN cache.content ELSE disk[r]]

\* A read of a block that is not cached loads it.
load_cached_block(r) == cache' = [valid |-> TRUE, region |-> r, content |-> Seen[r]]

\* One write: the block it changes and the new content of that block, made
\* from the cached or loaded one.
BitmapWrite(b, set) == [kind |-> "bitmap", region |-> Bitmap, at |-> b, value |-> set]
ObjectWrite(o, value) == [kind |-> "object", region |-> Table, at |-> o, value |-> value]
RecordWrite(b, place, value) == [kind |-> "record", region |-> Data(b), at |-> place, value |-> value]
BlockWrite(b, value) == [kind |-> "block", region |-> Data(b), at |-> 0, value |-> value]

Written(w) ==
    LET old == Seen[w.region]
    IN  CASE w.kind = "bitmap" -> IF w.value THEN old \cup {w.at} ELSE old \ {w.at}
          [] w.kind = "block" -> w.value
          [] OTHER -> [old EXCEPT ![w.at] = w.value]

\* store_cached_block: the write reaches the disk and the cache holds it ...
Stored(w) ==
    /\ disk' = [disk EXCEPT ![w.region] = Written(w)]
    /\ cache' = [valid |-> TRUE, region |-> w.region, content |-> Written(w)]

\* Mutant: the cache stays valid when the write has failed.
NotStoredCached(w) ==
    /\ cache' = [valid |-> TRUE, region |-> w.region, content |-> Written(w)]
    /\ UNCHANGED disk

\* ... or it fails and the cache, which holds the bytes that did not make it,
\* is invalid.
NotStored(w) ==
    /\ cache' = NoCache
    /\ UNCHANGED disk

----------------------------------------------------------------------------
(* The tree that a volume holds                                            *)

\* The object a path leads to, 0 if there is none: the names are looked up one
\* after another in the records of the directories, starting at the root.
Resolve(records, p) ==
    LET at[i \in 0..Len(p)] ==
          IF i = 0 THEN Root
          ELSE LET d == at[i - 1]
                   hits == IF d \in DOMAIN records
                             THEN {r \in records[d] : r.name = p[i]} ELSE {}
               IN  IF hits = {} THEN 0 ELSE (CHOOSE r \in hits : TRUE).object
    IN  at[Len(p)]

Path == UNION {[1..k -> Name] : k \in 1..(ObjectCount - 1)}

\* What a reader finds in the file: the payload of its first block, if any.
Contents(im, o) == IF o.size = 0 THEN <<>> ELSE <<im[Data(BlocksOf(o)[1])][1].name>>

View(im) ==
    LET records == [d \in Directories(im) |-> Range(Records(im, d))]
        object == [p \in Path |-> Resolve(records, p)]
        live == {p \in Path : object[p] # 0}
    IN  [p \in live |->
            LET o == im[Table][object[p]]
            IN  [type |-> o.type, data |-> IF o.type = "file" THEN Contents(im, o) ELSE <<>>]]

----------------------------------------------------------------------------
(* Operations                                                              *)

Idle == mounted /\ job = NoJob

\* A path to the object has been resolved: its node is prepared.
Prepared(d) == Idle /\ node[d].prepared

\* The records of a directory as the code reads them; they are all valid, or
\* the scan stops with an error.
Readable(d) ==
    /\ Seen[Table][d].type = "directory"
    /\ \A r \in Range(Records(Seen, d)) : r.object # 0 => RecordValid(Seen, d, r)

\* find_directory_name: the record with that name, 0 if there is none.
find_directory_name(d, n) ==
    LET records == Records(Seen, d)
        hits == {i \in Occupied(records) : records[i].name = n}
    IN  IF hits = {} THEN 0 ELSE Min(hits)

\* find_directory_hole: the first unused record, or the one after the last.
find_directory_hole(d) ==
    LET records == Records(Seen, d)
    IN  Min((1..(Len(records) + 1)) \ Occupied(records))

\* find_free_object and find_free_block, first fit; the block after the last
\* one of the directory is preferred.
FreeObjects == {o \in Object \ {Root} : Seen[Table][o] = Free}
FreeBlocks == Block \ Seen[Bitmap]
find_free_block(preferred) == IF preferred \in FreeBlocks THEN preferred ELSE Min(FreeBlocks)

\* The block after a directory's last extent.
Preferred(dir) ==
    IF dir.extents = <<>> THEN 0 ELSE Last(dir.extents).start + Last(dir.extents).count

\* extend_directory: the last extent grows, or a new one is added.
extend_directory(dir, b) ==
    IF b = Preferred(dir)
      THEN [dir EXCEPT !.extents[Len(dir.extents)].count = @ + 1]
      ELSE [dir EXCEPT !.extents = Append(@, [start |-> b, count |-> 1])]

CanExtend(dir) ==
    /\ FreeBlocks # {}
    /\ \/ find_free_block(Preferred(dir)) = Preferred(dir)
       \/ Len(dir.extents) < MaxExtents

\* A write and what the code does when it fails.
Step(write, undo) == [write |-> write, undo |-> undo]

\* boringfs_create_common: the new block of the directory, if it needs one,
\* the object, its record, and the directory's new size.
CreateSteps(d, n, type, o, slot, b) ==
    LET dir == Seen[Table][d]
        extend == b # 0
        append == slot > dir.size
        grown == IF extend THEN extend_directory(dir, b) ELSE dir
        staged == IF append THEN [grown EXCEPT !.size = slot] ELSE grown
        child == [type |-> type, parent |-> d, size |-> 0, extents |-> <<>>]
        Entry(r) == RecordWrite(RecordBlock(staged, slot), RecordPlace(slot), r)
        unreserved == IF extend THEN <<BitmapWrite(b, FALSE)>> ELSE <<>>
        unlinked == <<ObjectWrite(o, Free)>> \o unreserved
    IN  (IF extend
           THEN <<Step(BlockWrite(b, ZeroBlock), <<>>), Step(BitmapWrite(b, TRUE), <<>>)>>
           ELSE <<>>)
        \o <<Step(ObjectWrite(o, child), unreserved),
             Step(Entry([object |-> o, name |-> n, type |-> type]), unlinked)>>
        \o (IF append
              THEN <<Step(ObjectWrite(d, staged), <<Entry(Zero)>> \o unlinked)>>
              ELSE <<>>)

\* release_object_blocks: the bits are cleared one by one; when one fails the
\* ones before it are set again, and then the caller's undo follows.
ReleaseSteps(obj, undo) ==
    LET blocks == BlocksOf(obj)
    IN  [i \in DOMAIN blocks |->
            Step(BitmapWrite(blocks[i], FALSE),
                 [k \in 1..(i - 1) |-> BitmapWrite(blocks[k], TRUE)] \o undo)]

\* Mutant: the blocks are released before the object is cleared.
RemoveReleasesFirst(d, slot) ==
    LET dir == Seen[Table][d]
        record == Records(Seen, d)[slot]
        target == Seen[Table][record.object]
        Entry(r) == RecordWrite(RecordBlock(dir, slot), RecordPlace(slot), r)
    IN  <<Step(Entry(Zero), <<>>)>>
        \o ReleaseSteps(target, <<Entry(record)>>)
        \o <<Step(ObjectWrite(record.object, Free), <<Entry(record)>>)>>

\* boringfs_remove_common: the record, the object, its blocks.
RemoveSteps(d, slot) ==
    LET dir == Seen[Table][d]
        record == Records(Seen, d)[slot]
        target == Seen[Table][record.object]
        Entry(r) == RecordWrite(RecordBlock(dir, slot), RecordPlace(slot), r)
    IN  <<Step(Entry(Zero), <<>>),
          Step(ObjectWrite(record.object, Free), <<Entry(record)>>)>>
        \o ReleaseSteps(target, <<ObjectWrite(record.object, target), Entry(record)>>)

\* An operation starts: its writes, and the change of the node table that
\* follows the last one.
Start(steps, o, after) ==
    /\ job' = [steps |-> steps, rolling |-> FALSE, node |-> o, after |-> after]
    /\ UNCHANGED <<disk, cache, mounted, node, tree>>

boringfs_create_common(d, n, type) ==
    /\ Prepared(d) /\ Readable(d)
    /\ find_directory_name(d, n) = 0
    /\ FreeObjects # {}
    /\ LET dir == Seen[Table][d]
           slot == find_directory_hole(d)
           o == Min(FreeObjects)
           extend == slot > Len(BlocksOf(dir)) * RecordsPerBlock
       IN  /\ extend => CanExtend(dir)
           /\ Start(CreateSteps(d, n, type, o, slot,
                                IF extend THEN find_free_block(Preferred(dir)) ELSE 0),
                    o, [prepared |-> TRUE, parent |-> d, type |-> type, references |-> 0])

boringfs_remove_common(d, n, type) ==
    /\ Prepared(d) /\ Readable(d)
    /\ LET slot == find_directory_name(d, n)
           o == Records(Seen, d)[slot].object
       IN  /\ slot # 0
           /\ Seen[Table][o].type = type
           /\ node[o].references = 0
           /\ type = "directory" => Occupied(Records(Seen, o)) = {}
           /\ Start(RemoveSteps(d, slot), o, NotPrepared)

\* Mutant: the content is written after the object that refers to it.
WriteContentLast(o, v) ==
    /\ Prepared(o)
    /\ Seen[Table][o].type = "file"
    /\ Seen[Table][o].size = 0 /\ Seen[Table][o].extents = <<>>
    /\ FreeBlocks # {}
    /\ LET b == find_free_block(0)
           updated == [Seen[Table][o] EXCEPT !.size = 1,
                                             !.extents = <<[start |-> b, count |-> 1]>>]
           content == [ZeroBlock EXCEPT ![1] = [Zero EXCEPT !.name = v]]
       IN  Start(<<Step(BitmapWrite(b, TRUE), <<>>),
                   Step(ObjectWrite(o, updated), <<BitmapWrite(b, FALSE)>>),
                   Step(BlockWrite(b, content),
                        <<ObjectWrite(o, Seen[Table][o]), BitmapWrite(b, FALSE)>>)>>,
                 o, node[o])

\* boringfs_write: the first block of an empty file.
boringfs_write(o, v) ==
    /\ Prepared(o)
    /\ Seen[Table][o].type = "file"
    /\ Seen[Table][o].size = 0 /\ Seen[Table][o].extents = <<>>
    /\ FreeBlocks # {}
    /\ LET b == find_free_block(0)
           updated == [Seen[Table][o] EXCEPT !.size = 1,
                                             !.extents = <<[start |-> b, count |-> 1]>>]
           content == [ZeroBlock EXCEPT ![1] = [Zero EXCEPT !.name = v]]
       IN  Start(<<Step(BlockWrite(b, content), <<>>),
                   Step(BitmapWrite(b, TRUE), <<>>),
                   Step(ObjectWrite(o, updated), <<BitmapWrite(b, FALSE)>>)>>,
                 o, node[o])

\* boringfs_truncate to length 0.
boringfs_truncate(o) ==
    /\ Prepared(o)
    /\ Seen[Table][o].type = "file" /\ Seen[Table][o].size # 0
    /\ LET obj == Seen[Table][o]
       IN  Start(<<Step(ObjectWrite(o, [obj EXCEPT !.size = 0, !.extents = <<>>]), <<>>)>>
                 \o ReleaseSteps(obj, <<ObjectWrite(o, obj)>>),
                 o, node[o])

----------------------------------------------------------------------------
(* The writes of an operation                                              *)

\* The end of an operation: on success the node table is brought up to date.
Finish(ok) ==
    /\ job' = NoJob
    /\ tree' = View(disk')
    /\ node' = IF ok THEN [node EXCEPT ![job.node] = job.after] ELSE node

WriteOk ==
    /\ job.steps # <<>>
    /\ Stored(Head(job.steps).write)
    /\ IF Len(job.steps) = 1
         THEN Finish(~job.rolling)
         ELSE job' = [job EXCEPT !.steps = Tail(@)] /\ UNCHANGED <<node, tree>>
    /\ UNCHANGED mounted

\* A write fails: the rollback takes the place of the writes that were left.
\* A write of the rollback that fails is ignored, and the rollback goes on.
WriteFails ==
    /\ job.steps # <<>>
    /\ job.rolling => RollbackFaults
    /\ NotStored(Head(job.steps).write)
    /\ LET undo == Head(job.steps).undo
           left == IF job.rolling THEN Tail(job.steps)
                   ELSE [i \in DOMAIN undo |-> Step(undo[i], <<>>)]
       IN  IF left = <<>>
             THEN Finish(FALSE)
             ELSE /\ job' = [job EXCEPT !.rolling = TRUE, !.steps = left]
                  /\ UNCHANGED <<node, tree>>
    /\ UNCHANGED mounted

----------------------------------------------------------------------------
(* Nodes, mounting and the loss of power                                   *)

\* boringfs_lookup and prepare_node: the node of a name is prepared.
boringfs_lookup(d, n) ==
    /\ Prepared(d) /\ Readable(d)
    /\ LET slot == find_directory_name(d, n)
           r == Records(Seen, d)[slot]
       IN  /\ slot # 0
           /\ ~node[r.object].prepared
           /\ node' = [node EXCEPT ![r.object] =
                         [prepared |-> TRUE, parent |-> d, references |-> 0,
                          type |-> Seen[Table][r.object].type]]
    /\ load_cached_block(Table)
    /\ UNCHANGED <<disk, mounted, job, tree>>

\* A descriptor or a working directory keeps a reference to a node.
retain_node(o) ==
    /\ Prepared(o) /\ node[o].references < ReferenceMax
    /\ node' = [node EXCEPT ![o].references = @ + 1]
    /\ UNCHANGED <<disk, cache, mounted, job, tree>>

release_node(o) ==
    /\ Prepared(o) /\ node[o].references > 0
    /\ node' = [node EXCEPT ![o].references = @ - 1]
    /\ UNCHANGED <<disk, cache, mounted, job, tree>>

\* boringfs_vfs_create: a volume that validates is mounted; the root's node is
\* prepared and the mount keeps a reference to it.
boringfs_vfs_create ==
    /\ ~mounted
    /\ mounted' = boringfs_validate_source(disk)
    /\ node' = IF mounted'
                 THEN [node EXCEPT ![Root] = [prepared |-> TRUE, parent |-> Root,
                                              type |-> "directory", references |-> 1]]
                 ELSE node
    /\ UNCHANGED <<disk, cache, job, tree>>

PowerLoss ==
    /\ mounted' = FALSE /\ cache' = NoCache /\ job' = NoJob
    /\ node' = [o \in Object |-> NotPrepared]
    /\ tree' = View(disk)
    /\ UNCHANGED disk

\* A volume as mkboringfs makes it: an empty root.
FsInit ==
    /\ disk = [r \in Region |->
                 CASE r = Bitmap -> {}
                   [] r = Table -> [o \in Object |->
                        IF o = Root THEN [Free EXCEPT !.type = "directory", !.parent = Root]
                        ELSE Free]
                   [] OTHER -> ZeroBlock]
    /\ cache = NoCache
    /\ mounted = FALSE
    /\ node = [o \in Object |-> NotPrepared]
    /\ job = NoJob
    /\ tree = View(disk)

FsNext ==
    \/ \E d \in Object, n \in Name :
          \/ boringfs_lookup(d, n)
          \/ \E type \in {"file", "directory"} :
                boringfs_create_common(d, n, type) \/ boringfs_remove_common(d, n, type)
    \/ \E o \in Object :
          \/ \E v \in Payload : boringfs_write(o, v)
          \/ boringfs_truncate(o)
          \/ retain_node(o)
          \/ release_node(o)
    \/ WriteOk \/ WriteFails
    \/ boringfs_vfs_create \/ PowerLoss

FsSpec == FsInit /\ [][FsNext]_fsVars

----------------------------------------------------------------------------
(* Properties                                                              *)

T == INSTANCE Tree WITH PathMax <- ObjectCount - 1

\* Every operation is atomic: when it ends, when one of its writes has failed
\* and been rolled back, and when the power fails in the middle of it, the
\* tree is either the one before or the one after it.
AtomicOperations == T!TreeSpec

\* An operation that ends, well or with an error after its rollback, leaves a
\* volume that the validator accepts, so that the next boot mounts it; and the
\* node table agrees with the volume: a prepared node is an object that exists,
\* of that type and in that directory, and a node in use is prepared.
RolledBack ==
    mounted /\ job = NoJob =>
        /\ boringfs_validate_source(disk)
        /\ \A o \in Object :
              IF node[o].prepared
                THEN disk[Table][o].type = node[o].type /\ disk[Table][o].parent = node[o].parent
                ELSE node[o].references = 0

\* At every moment, and so also after a loss of power, the volume has at worst
\* lost track of objects and blocks: no record without its object, no extent
\* on a free block, no block with two owners.
OnlyLeaks == ValidObjects(disk) /\ ValidParents(disk) /\ ValidDirectories(disk)
=============================================================================
