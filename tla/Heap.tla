-------------------------------- MODULE Heap --------------------------------
(***************************************************************************)
(* The kernel heap (src/kernel/core/heap.c): a list of blocks without gaps   *)
(* from the base of the heap to the end of the mapped pages, first fit with  *)
(* splitting, and merging with both neighbours on release.                  *)
(*                                                                         *)
(* Magic numbers, guards and the links of the list are left out: a block is  *)
(* its size and whether it is in use, its address follows from the blocks    *)
(* before it.                                                              *)
(***************************************************************************)
EXTENDS Integers, Sequences, FiniteSets

CONSTANTS
    HeapPage,       \* HEAP_PAGE_SIZE
    HeaderSize,     \* sizeof(struct heap_block)
    Alignment,      \* KERNEL_HEAP_ALIGNMENT
    InitialPages,   \* HEAP_INITIAL_PAGES
    HeapPageMax,    \* HEAP_MAX_PAGES
    RequestSizes    \* bound: the sizes that are asked for

ASSUME HeapAssumption ==
    /\ {HeapPage, HeaderSize, Alignment, InitialPages, HeapPageMax} \subseteq Nat \ {0}
    /\ HeaderSize < HeapPage /\ InitialPages <= HeapPageMax
    /\ HeaderSize % Alignment = 0 /\ HeapPage % Alignment = 0
    /\ RequestSizes \subseteq Nat \ {0}

VARIABLES
    blocks,         \* [size, used], in the order of their addresses
    mapped_pages,   \* heap_mapped_pages
    corrupted,      \* heap_corrupted
    live            \* history: payload address |-> size that was asked for

heapVars == <<blocks, mapped_pages, corrupted, live>>

HeapBlock(size, used) == [size |-> size, used |-> used]

HeapInit ==
    /\ mapped_pages = InitialPages
    /\ blocks = <<HeapBlock(InitialPages * HeapPage - HeaderSize, FALSE)>>
    /\ corrupted = FALSE
    /\ live = <<>>

\* Where a block's payload begins, counted from the base of the heap.
Payload_address(bs, i) ==
    LET at[k \in 1..i] == IF k = 1 THEN HeaderSize ELSE at[k - 1] + bs[k - 1].size + HeaderSize
    IN  at[i]

\* heap_validate: blocks of a legal size up to the end of the mapped pages, and
\* no two free ones side by side.
heap_validate(bs, pages) ==
    /\ Payload_address(bs, Len(bs) + 1) - HeaderSize = pages * HeapPage
    /\ \A i \in DOMAIN bs :
          /\ bs[i].size >= Alignment /\ bs[i].size % Alignment = 0
          /\ i > 1 => bs[i].used \/ bs[i - 1].used

heap_align_request(n) == ((n + Alignment - 1) \div Alignment) * Alignment

Fits(bs, n) == {i \in DOMAIN bs : ~bs[i].used /\ bs[i].size >= n}
heap_find_fit(bs, n) == CHOOSE i \in Fits(bs, n) : \A j \in Fits(bs, n) : i <= j

\* heap_grow_one_page: the last block grows when it is free.
heap_grow_one_page(bs) ==
    IF bs[Len(bs)].used
      THEN Append(bs, HeapBlock(HeapPage - HeaderSize, FALSE))
      ELSE [bs EXCEPT ![Len(bs)].size = @ + HeapPage]

Grown(bs, k) ==
    LET grown[n \in 0..k] == IF n = 0 THEN bs ELSE heap_grow_one_page(grown[n - 1])
    IN  grown[k]

\* The list with new in the place of k blocks from the i-th on.
Relinked(bs, i, k, new) == SubSeq(bs, 1, i - 1) \o new \o SubSeq(bs, i + k, Len(bs))

Split(bs, i, n) ==
    Relinked(bs, i, 1, <<HeapBlock(n, TRUE), HeapBlock(bs[i].size - n - HeaderSize, FALSE)>>)

\* Mutant: a block is split when only a header fits behind the payload.
SplitForHeader(bs, i, n) ==
    IF bs[i].size >= n + HeaderSize THEN Split(bs, i, n) ELSE [bs EXCEPT ![i].used = TRUE]

\* heap_allocate_from_block: the rest becomes a block when it can hold one.
heap_allocate_from_block(bs, i, n) ==
    IF bs[i].size >= n + HeaderSize + Alignment
      THEN Split(bs, i, n)
      ELSE [bs EXCEPT ![i].used = TRUE]

\* kmalloc: the heap grows page by page until the request fits, as long as
\* there are frames; pages that did not help stay.  A heap that does not
\* validate afterwards is given up.
kmalloc(size, frames) ==
    LET n == heap_align_request(size)
        left == HeapPageMax - mapped_pages
        most == IF frames < left THEN frames ELSE left
        enough == {k \in 0..most : Fits(Grown(blocks, k), n) # {}}
        pages == IF enough = {} THEN most
                 ELSE CHOOSE k \in enough : \A l \in enough : k <= l
        grown == Grown(blocks, pages)
        i == heap_find_fit(grown, n)
        taken == heap_allocate_from_block(grown, i, n)
        at == Payload_address(grown, i)
    IN  /\ ~corrupted
        /\ n <= HeapPageMax * HeapPage - HeaderSize
        /\ mapped_pages' = mapped_pages + pages
        /\ blocks' = IF enough = {} THEN grown ELSE taken
        /\ corrupted' = ~heap_validate(blocks', mapped_pages')
        /\ live' = IF enough = {} \/ corrupted' THEN live
                   ELSE [a \in DOMAIN live \cup {at} |-> IF a = at THEN size ELSE live[a]]

\* heap_merge_with_next.
Merged(bs, i) ==
    IF i \in 1..(Len(bs) - 1) /\ ~bs[i].used /\ ~bs[i + 1].used
      THEN Relinked(bs, i, 2, <<HeapBlock(bs[i].size + HeaderSize + bs[i + 1].size, FALSE)>>)
      ELSE bs

\* kfree of any address: the block whose payload begins there, if it is used.
kfree(a) ==
    /\ ~corrupted
    /\ \E i \in DOMAIN blocks :
          /\ Payload_address(blocks, i) = a
          /\ blocks[i].used
          /\ blocks' = Merged(Merged([blocks EXCEPT ![i].used = FALSE], i), i - 1)
    /\ corrupted' = ~heap_validate(blocks', mapped_pages)
    /\ live' = [b \in DOMAIN live \ {a} |-> live[b]]
    /\ UNCHANGED mapped_pages

HeapNext ==
    \/ \E size \in RequestSizes, frames \in 0..HeapPageMax : kmalloc(size, frames)
    \/ \E a \in 0..(HeapPageMax * HeapPage) : kfree(a)

----------------------------------------------------------------------------
(* Properties                                                              *)

\* No sequence of kmalloc and kfree makes heap_validate give up the heap, and it
\* keeps what it gave: the blocks in use are the allocations, each where it was
\* and no smaller than was asked for.
HeapHolds ==
    /\ ~corrupted
    /\ DOMAIN live = {Payload_address(blocks, i) : i \in {j \in DOMAIN blocks : blocks[j].used}}
    /\ \A i \in DOMAIN blocks :
          blocks[i].used => live[Payload_address(blocks, i)] <= blocks[i].size
=============================================================================
