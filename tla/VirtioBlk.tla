----------------------------- MODULE VirtioBlk -----------------------------
(***************************************************************************)
(* The transfer path of kernel/drivers/virtio_blk.c: one caller, one queue   *)
(* with a single chain of descriptors that every request uses again, and     *)
(* the device on the other side of it.  The driver polls the used index and   *)
(* gives up after a number of spins; the device works at its own speed.       *)
(*                                                                         *)
(* Header, status byte and bounce buffer live in memory that the driver and    *)
(* the device share: the device reads the header when it fetches a request    *)
(* and touches the other two when it carries it out.                         *)
(***************************************************************************)
EXTENDS Naturals, Sequences

CONSTANTS
    SectorCount,        \* capacity_sectors
    BounceSectors,      \* VIRTIO_BLK_BOUNCE_SECTORS
    IndexModulus,       \* ring indices are kept modulo 2^16 in the code
    Value,              \* contents of a sector
    SlowDevice          \* whether a request may outlast the driver's polling

ASSUME VirtioBlkAssumption ==
    /\ SectorCount \in Nat \ {0} /\ BounceSectors \in Nat \ {0}
    /\ IndexModulus \in Nat \ {0, 1}
    /\ SlowDevice \in BOOLEAN

VARIABLES
    sectors,            \* the medium
    request,            \* the transfer of the caller
    result,             \* what the last transfer returned
    busy,               \* virtio_state.busy
    header, status, bounce,
    avail_index, used_index,    \* the driver's copies
    fetched,            \* requests the device has fetched and not completed
    seen_index,         \* available entries the device has fetched
    done_index          \* the used index the device publishes

callVars == <<request, result>>
queueVars == <<avail_index, used_index, seen_index, done_index>>
blkVars == <<sectors, callVars, busy, header, status, bounce, fetched, queueVars>>

Sector == 1..SectorCount
Following(i) == (i + 1) % IndexModulus
NoRequest == [write |-> FALSE, first |-> 1, count |-> 0, completed |-> 0, data |-> <<>>]

\* The sectors of the chunk that is being transferred.
ChunkLength == LET remaining == request.count - request.completed
               IN  IF remaining > BounceSectors THEN BounceSectors ELSE remaining
ChunkFirst == request.first + request.completed

BlkInit ==
    /\ \E v \in Value : sectors = [s \in Sector |-> v]
    /\ request = NoRequest
    /\ result = "none"
    /\ busy = FALSE
    /\ header = [write |-> FALSE, first |-> 1, count |-> 0]
    /\ status = "ok"
    /\ bounce = [i \in 1..BounceSectors |-> sectors[1]]
    /\ avail_index = 0 /\ used_index = 0
    /\ fetched = <<>>
    /\ seen_index = 0 /\ done_index = 0

----------------------------------------------------------------------------
(* The driver                                                              *)

\* virtio_transfer: the caller's buffer and a range inside the capacity.
virtio_transfer(write, first, count, data) ==
    /\ request = NoRequest
    /\ count > 0 /\ first + count - 1 <= SectorCount
    /\ request' = [write |-> write, first |-> first, count |-> count, completed |-> 0,
                   data |-> data]
    /\ UNCHANGED <<sectors, result, busy, header, status, bounce, fetched, queueVars>>

\* virtio_submit_chunk up to the notification of the device.
virtio_submit_chunk ==
    /\ request # NoRequest /\ request.completed < request.count /\ ~busy
    /\ busy' = TRUE
    /\ bounce' = [i \in 1..BounceSectors |->
                    IF request.write /\ i <= ChunkLength
                      THEN request.data[request.completed + i]
                      ELSE bounce[i]]
    /\ header' = [write |-> request.write, first |-> ChunkFirst, count |-> ChunkLength]
    /\ status' = "pending"
    /\ avail_index' = Following(avail_index)
    /\ UNCHANGED <<sectors, callVars, fetched, used_index, seen_index, done_index>>

\* The transfer ends with an error after the chunks that went well.
TransferFails ==
    /\ request' = NoRequest
    /\ result' = "io_error"

\* Mutant: the rest of the transfer is taken for done with the first chunk.
ChunkCompletesAll ==
    [request EXCEPT !.completed = request.count,
                    !.data = IF request.write THEN @
                             ELSE [i \in 1..request.count |-> bounce[1]]]

\* The chunk was transferred: a read is copied to the caller's buffer.
ChunkCompleted ==
    [request EXCEPT !.completed = @ + ChunkLength,
                    !.data = IF request.write THEN @ ELSE @ \o SubSeq(bounce, 1, ChunkLength)]

\* virtio_wait_for_completion and the rest of virtio_submit_chunk: the polling
\* ends when the used index has moved, and the status decides; or it gives up
\* and leaves the request with the device.
virtio_wait_for_completion ==
    /\ busy
    /\ done_index # used_index \/ SlowDevice
    /\ busy' = FALSE
    /\ IF done_index # Following(used_index)
         THEN TransferFails /\ UNCHANGED used_index
         ELSE /\ used_index' = done_index
              /\ IF status # "ok"
                   THEN TransferFails
                   ELSE request' = ChunkCompleted /\ UNCHANGED result
    /\ UNCHANGED <<sectors, header, status, bounce, fetched, avail_index, seen_index, done_index>>

\* virtio_transfer returns OK after the last chunk.
TransferReturns ==
    /\ request # NoRequest /\ request.completed = request.count
    /\ request' = NoRequest
    /\ result' = "ok"
    /\ UNCHANGED <<sectors, busy, header, status, bounce, fetched, queueVars>>

----------------------------------------------------------------------------
(* The device                                                              *)

DeviceFetches ==
    /\ seen_index # avail_index
    /\ seen_index' = Following(seen_index)
    /\ fetched' = Append(fetched, header)
    /\ UNCHANGED <<sectors, callVars, busy, header, status, bounce, avail_index,
                   used_index, done_index>>

\* The device carries out the oldest request, or reports an error for it.
DeviceCompletes(ok) ==
    /\ fetched # <<>>
    /\ LET h == Head(fetched)
           range == h.first..(h.first + h.count - 1)
       IN  /\ sectors' = [s \in Sector |-> IF ok /\ h.write /\ s \in range
                                             THEN bounce[s - h.first + 1]
                                             ELSE sectors[s]]
           /\ bounce' = [i \in 1..BounceSectors |-> IF ok /\ ~h.write /\ i <= h.count
                                                      THEN sectors[h.first + i - 1]
                                                      ELSE bounce[i]]
    /\ status' = IF ok THEN "ok" ELSE "ioerr"
    /\ fetched' = Tail(fetched)
    /\ done_index' = Following(done_index)
    /\ UNCHANGED <<callVars, busy, header, avail_index, used_index, seen_index>>

----------------------------------------------------------------------------
BlkNext ==
    \/ \E write \in BOOLEAN, first \in Sector, count \in 1..SectorCount :
          \E data \in IF write THEN [1..count -> Value] ELSE {<<>>} :
             virtio_transfer(write, first, count, data)
    \/ virtio_submit_chunk
    \/ virtio_wait_for_completion
    \/ TransferReturns
    \/ DeviceFetches
    \/ \E ok \in BOOLEAN : DeviceCompletes(ok)

BlkSpec == BlkInit /\ [][BlkNext]_blkVars

----------------------------------------------------------------------------
(* Properties                                                              *)

\* What docs/block-device.md says of a transfer: OK means that all requested
\* blocks were transferred.  The caller's buffer and the sectors agree.
OkMeansTransferred ==
    request # NoRequest /\ request.completed = request.count =>
        \A i \in 1..request.count : request.data[i] = sectors[request.first + i - 1]
=============================================================================
