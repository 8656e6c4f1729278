-------------------------------- MODULE Pmm --------------------------------
(***************************************************************************)
(* The physical memory manager (src/kernel/core/pmm.c): regions of frames    *)
(* made from the memory map of the boot loader, and one bitmap over all of   *)
(* them.  Addresses are small numbers; a frame is PmmPage addresses long.     *)
(***************************************************************************)
EXTENDS Integers, FiniteSets, Sequences

CONSTANTS
    PmmPage,        \* PMM_PAGE_SIZE
    RegionMax,      \* PMM_MAX_REGIONS
    FrameMax,       \* PMM_MAX_FRAMES
    AddressMax,     \* UINT64_MAX
    EntryBases,     \* bound: where the entries of a memory map begin
    EntryLengths,   \* bound: and how long they are
    EntryMax        \* bound: entries of a memory map

ASSUME PmmAssumption ==
    /\ {PmmPage, AddressMax, EntryMax, RegionMax, FrameMax} \subseteq Nat \ {0}
    /\ EntryBases \cup EntryLengths \subseteq 0..AddressMax

VARIABLES
    memory_map,     \* history: the map pmm_init has accepted
    regions,        \* pmm_regions; empty until pmm_init has succeeded
    bitmap,         \* the bits that are set
    free_frames,    \* pmm_free_frames
    held            \* history: the addresses that are handed out

pmmVars == <<memory_map, regions, bitmap, free_frames, held>>

Entry == [type : {"usable", "reclaimable", "reserved"},
          base : EntryBases, length : EntryLengths]
EntryEnd(e) == e.base + e.length

\* pmm_entry_end refuses what is empty or ends above the last address.
EntryEnds(e) == e.length # 0 /\ EntryEnd(e) <= AddressMax

\* Mutant: the first page of an entry may begin before it.
AlignUpMissing(a) == (a \div PmmPage) * PmmPage

pmm_align_up(a) == ((a + PmmPage - 1) \div PmmPage) * PmmPage

AlignsUp(a) == a <= AddressMax - (PmmPage - 1)

pmm_align_down(a) == (a \div PmmPage) * PmmPage

pmm_ranges_overlap(e, f) == e.base < EntryEnd(f) /\ f.base < EntryEnd(e)

\* pmm_overlap_requires_rejection: only other entries may overlap each other.
Refused(map) ==
    \/ \E i \in DOMAIN map : ~EntryEnds(map[i])
    \/ \E i, j \in DOMAIN map :
          /\ i < j
          /\ pmm_ranges_overlap(map[i], map[j])
          /\ {map[i].type, map[j].type} \cap {"usable", "reclaimable"} # {}
    \/ \E i \in DOMAIN map : map[i].type = "usable" /\ ~AlignsUp(map[i].base)

\* The second loop of pmm_init: the whole frames of a usable entry become a
\* region, as long as there are regions and bits left for it.  Its bits follow
\* those of the region before.
RegionEnd(r) == r.bitmap_base + r.frame_count
TotalFrames(rs) == IF rs = <<>> THEN 0 ELSE RegionEnd(rs[Len(rs)])

AddRegion(rs, e) ==
    LET first == pmm_align_up(e.base)
        end == pmm_align_down(EntryEnd(e))
        whole == (end - first) \div PmmPage
        remaining == FrameMax - TotalFrames(rs)
    IN  IF \/ e.type # "usable" \/ end <= first
           \/ remaining = 0 \/ Len(rs) = RegionMax
          THEN rs
          ELSE Append(rs, [base |-> first, bitmap_base |-> TotalFrames(rs),
                           frame_count |-> IF whole > remaining THEN remaining ELSE whole])

RegionsOf(map) ==
    LET made[n \in 0..Len(map)] == IF n = 0 THEN <<>> ELSE AddRegion(made[n - 1], map[n])
    IN  made[Len(map)]

PmmInit ==
    /\ memory_map = <<>> /\ regions = <<>>
    /\ bitmap = {} /\ free_frames = 0
    /\ held = {}

pmm_init(map) ==
    /\ regions = <<>>
    /\ ~Refused(map)
    /\ RegionsOf(map) # <<>>
    /\ memory_map' = map
    /\ regions' = RegionsOf(map)
    /\ free_frames' = TotalFrames(RegionsOf(map))
    /\ UNCHANGED <<bitmap, held>>

\* The frames as pairs of a region and a place in it, in the order of a search.
Places == UNION {{<<r, k>> : k \in 0..(regions[r].frame_count - 1)} : r \in DOMAIN regions}
Address(x) == regions[x[1]].base + x[2] * PmmPage
Bit(x) == regions[x[1]].bitmap_base + x[2]
Before(x, y) == x[1] < y[1] \/ (x[1] = y[1] /\ x[2] <= y[2])

\* The first free frame of the range.
pmm_alloc_frame_in_range(minimum, maximum) ==
    /\ free_frames # 0
    /\ AlignsUp(minimum)
    /\ LET fits == {x \in Places : /\ pmm_align_up(minimum) <= Address(x)
                                   /\ Address(x) < maximum
                                   /\ Bit(x) \notin bitmap}
       IN  \E x \in fits :
              /\ \A y \in fits : Before(x, y)
              /\ bitmap' = bitmap \cup {Bit(x)}
              /\ held' = held \cup {Address(x)}
    /\ free_frames' = free_frames - 1
    /\ UNCHANGED <<memory_map, regions>>

\* The caller gives any address; pmm_find_frame looks for its frame.
pmm_free_frame(a) ==
    /\ \E x \in Places :
          /\ Address(x) = a
          /\ Bit(x) \in bitmap
          /\ bitmap' = bitmap \ {Bit(x)}
    /\ free_frames' = free_frames + 1
    /\ held' = held \ {a}
    /\ UNCHANGED <<memory_map, regions>>

PmmNext ==
    \/ /\ regions = <<>>
       /\ \E n \in 1..EntryMax : \E map \in [1..n -> Entry] : pmm_init(map)
    \/ \E minimum, maximum \in 0..AddressMax : pmm_alloc_frame_in_range(minimum, maximum)
    \/ \E a \in 0..AddressMax : pmm_free_frame(a)

----------------------------------------------------------------------------
(* Properties                                                              *)

\* pmm_init and pmm_alloc_frame_in_range hand out memory, once: a frame that is
\* out lies in a usable entry and touches nothing else the map describes, two
\* frames never overlap, and bitmap and counter agree with what is out.
FramesTrue ==
    /\ \A a \in held :
          \E i \in DOMAIN memory_map :
             /\ memory_map[i].type = "usable"
             /\ memory_map[i].base <= a /\ a + PmmPage <= EntryEnd(memory_map[i])
             /\ \A j \in DOMAIN memory_map \ {i} :
                   ~pmm_ranges_overlap([base |-> a, length |-> PmmPage], memory_map[j])
    /\ \A a, b \in held : a # b => a + PmmPage <= b \/ b + PmmPage <= a
    /\ Cardinality(bitmap) = Cardinality(held)
    /\ free_frames = TotalFrames(regions) - Cardinality(held)
============================================================================
