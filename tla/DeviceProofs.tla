---------------------------- MODULE DeviceProofs ----------------------------
(***************************************************************************)
(* A transfer of the VirtIO driver that succeeds moved every sector, for    *)
(* every capacity, every size of the bounce buffer and every width of the   *)
(* ring indices.  What the SATA disk acknowledges through the block layer   *)
(* is on the medium, for every size of the disk and of the buffer and every *)
(* nesting of slices.  Both when the device is done before the driver       *)
(* gives up.  And of the input devices: no event is slept through, and the  *)
(* stream is true to them, for any number of processes, keys, buttons and   *)
(* places in the queue.  USB keyboard and mouse: each transition is told    *)
(* once, for every size of the rings and every set of keys and buttons.     *)
(***************************************************************************)
EXTENDS
    VirtioBlk, Ahci, Input, UsbHid, Induction, FiniteSetTheorems, SequenceTheorems

----------------------------------------------------------------------------
(* The VirtIO queue                                                        *)

Index == 0..(IndexModulus - 1)

\* The ring index after another one is a different one, in range.
LEMMA FollowingIndex ==
    ASSUME NEW i \in Index
    PROVE  Following(i) \in Index /\ Following(i) # i
<1>1. IndexModulus \in Nat /\ IndexModulus >= 2 BY VirtioBlkAssumption
<1>2. CASE i + 1 < IndexModulus
  <2>1. (i + 1) % IndexModulus = i + 1 BY <1>1, <1>2, Z3 DEF Index
  <2> QED BY <1>1, <1>2, <2>1 DEF Index, Following
<1>3. CASE i + 1 = IndexModulus
  <2>1. IndexModulus % IndexModulus = 0 BY <1>1, Z3
  <2> QED BY <1>1, <1>3, <2>1 DEF Index, Following
<1> QED BY <1>1, <1>2, <1>3 DEF Index

Requests == [write : BOOLEAN, first : Nat, count : Nat, completed : Nat, data : Seq(Value)]

BlkTypeOK ==
    /\ sectors \in [Sector -> Value]
    /\ request \in Requests
    /\ busy \in BOOLEAN
    /\ bounce \in [1..BounceSectors -> Value]
    /\ avail_index \in Index /\ used_index \in Index
    /\ seen_index \in Index /\ done_index \in Index

\* The transfer lies on the medium; a write has all of its data, a read the
\* sectors of the chunks that are done.
RequestOK ==
    request # NoRequest =>
        /\ request.first >= 1 /\ request.count >= 1
        /\ request.first + request.count - 1 <= SectorCount
        /\ request.completed <= request.count
        /\ Len(request.data) = IF request.write THEN request.count ELSE request.completed

\* Of the chunks that are done, caller and medium agree.
PrefixTransferred ==
    request # NoRequest =>
        \A i \in 1..request.completed : request.data[i] = sectors[request.first + i - 1]

\* Between two chunks the queue is empty.
QuietQueue ==
    ~busy => /\ fetched = <<>>
             /\ avail_index = used_index /\ seen_index = used_index /\ done_index = used_index

\* The driver waits for one chunk, the one that the header names ...
Underway ==
    /\ request # NoRequest /\ request.completed < request.count
    /\ header = [write |-> request.write, first |-> ChunkFirst, count |-> ChunkLength]
    /\ avail_index = Following(used_index)

\* ... which the device has not fetched, or is working on,
WithDevice ==
    /\ done_index = used_index
    /\ \/ seen_index = used_index /\ fetched = <<>>
       \/ seen_index = avail_index /\ fetched = <<header>>
    /\ request.write => \A i \in 1..ChunkLength : bounce[i] = request.data[request.completed + i]

\* or has completed.
Completed ==
    /\ done_index = avail_index /\ seen_index = avail_index /\ fetched = <<>>
    /\ status = "ok" =>
          \A i \in 1..ChunkLength :
             sectors[ChunkFirst + i - 1] = IF request.write THEN request.data[request.completed + i]
                                           ELSE bounce[i]

OneChunk == busy => Underway /\ (WithDevice \/ Completed)

BlkInv == BlkTypeOK /\ RequestOK /\ PrefixTransferred /\ QuietQueue /\ OneChunk

\* The empty request is one, so that a driver without a call has a request of its type.
LEMMA NoRequestOK == NoRequest \in Requests
<1>1. <<>> \in Seq(Value) OBVIOUS
<1> QED BY <1>1 DEF NoRequest, Requests

\* The invariant holds before the first call of the driver.
LEMMA BlkInitOK == BlkInit => BlkInv
<1> SUFFICES ASSUME BlkInit PROVE BlkInv OBVIOUS
<1>1. 1 \in Sector /\ 0 \in Index BY VirtioBlkAssumption DEF Sector, Index
<1>2. PICK v \in Value : sectors = [s \in Sector |-> v] BY DEF BlkInit
<1>3. sectors \in [Sector -> Value] /\ sectors[1] = v BY <1>1, <1>2
<1>4. bounce \in [1..BounceSectors -> Value] BY <1>3 DEF BlkInit
<1>5. BlkTypeOK BY <1>1, <1>3, <1>4, NoRequestOK DEF BlkInit, BlkTypeOK
<1> QED BY <1>5 DEF BlkInit, BlkInv, RequestOK, PrefixTransferred, QuietQueue, OneChunk

\* The chunk that is next lies on the medium and behind what is done.
LEMMA ChunkBounds ==
    ASSUME BlkTypeOK, RequestOK, request # NoRequest, request.completed < request.count
    PROVE  /\ ChunkLength \in 1..BounceSectors
           /\ request.completed + ChunkLength <= request.count
           /\ \A i \in 1..ChunkLength : ChunkFirst + i - 1 \in Sector
<1>1. /\ request.completed \in Nat /\ request.count \in Nat /\ request.first \in Nat
      /\ request.first >= 1 /\ request.first + request.count - 1 <= SectorCount
      /\ SectorCount \in Nat /\ BounceSectors \in Nat /\ BounceSectors >= 1
  BY VirtioBlkAssumption DEF BlkTypeOK, RequestOK, Requests
<1>2. /\ ChunkLength \in 1..BounceSectors
      /\ request.completed + ChunkLength <= request.count
  BY <1>1 DEF ChunkLength
<1>3. ASSUME NEW i \in 1..ChunkLength PROVE ChunkFirst + i - 1 \in Sector
  BY <1>1, <1>2 DEF ChunkFirst, Sector
<1> QED BY <1>2, <1>3

\* A call of virtio_transfer starts with no request at the device.
LEMMA TransferStep ==
    ASSUME BlkInv, NEW writing \in BOOLEAN, NEW first \in Sector, NEW count \in 1..SectorCount,
           NEW data \in IF writing THEN [1..count -> Value] ELSE {<<>>},
           virtio_transfer(writing, first, count, data)
    PROVE  BlkInv'
<1>1. /\ first \in Nat /\ count \in Nat /\ first >= 1 /\ count >= 1
      /\ first + count - 1 <= SectorCount
  BY VirtioBlkAssumption DEF Sector, virtio_transfer
<1>2. data \in Seq(Value) /\ Len(data) = IF writing THEN count ELSE 0
  <2>1. CASE writing BY <1>1, <2>1
  <2>2. CASE ~writing BY <2>2
  <2> QED BY <2>1, <2>2
<1>3. request' = [write |-> writing, first |-> first, count |-> count, completed |-> 0, data |-> data]
  BY DEF virtio_transfer
<1>4. ~busy
  BY DEF BlkInv, OneChunk, Underway, virtio_transfer
<1>5. BlkTypeOK' BY <1>1, <1>2, <1>3 DEF BlkInv, BlkTypeOK, Requests, virtio_transfer, queueVars
<1>6. RequestOK' BY <1>1, <1>2, <1>3 DEF RequestOK
<1>7. PrefixTransferred' BY <1>3 DEF PrefixTransferred
<1>8. QuietQueue' /\ OneChunk' BY <1>4 DEF BlkInv, QuietQueue, OneChunk, virtio_transfer, queueVars
<1> QED BY <1>5, <1>6, <1>7, <1>8 DEF BlkInv

\* virtio_submit_chunk: the descriptor, header and buffer it publishes are those of the
\* chunk.
LEMMA SubmitStep ==
    ASSUME BlkInv, virtio_submit_chunk
    PROVE  BlkInv'
<1> USE DEF BlkInv
<1>1. /\ ChunkLength \in 1..BounceSectors
      /\ request.completed + ChunkLength <= request.count
  BY ChunkBounds DEF virtio_submit_chunk
<1>2. \A i \in 1..ChunkLength : request.write => request.data[request.completed + i] \in Value
  <2> SUFFICES ASSUME NEW i \in 1..ChunkLength, request.write
               PROVE  request.data[request.completed + i] \in Value
    OBVIOUS
  <2>1. request.completed + i \in 1..Len(request.data)
    BY <1>1, VirtioBlkAssumption DEF BlkTypeOK, RequestOK, virtio_submit_chunk, Requests
  <2>2. request.data \in Seq(Value) BY DEF BlkTypeOK, Requests
  <2> QED BY <2>1, <2>2
<1>3. bounce' \in [1..BounceSectors -> Value]
  BY <1>1, <1>2, VirtioBlkAssumption DEF BlkTypeOK, virtio_submit_chunk
<1>4. UNCHANGED <<sectors, request, fetched, used_index, seen_index, done_index>>
  BY DEF virtio_submit_chunk, callVars
<1>5. UNCHANGED <<ChunkLength, ChunkFirst>> BY <1>4 DEF ChunkLength, ChunkFirst
<1>6. BlkTypeOK' BY <1>3, <1>4, FollowingIndex DEF BlkTypeOK, virtio_submit_chunk
<1>7. RequestOK' /\ PrefixTransferred' BY <1>4 DEF RequestOK, PrefixTransferred
<1>8. Underway'
  <2>1. header' = [write |-> request.write, first |-> ChunkFirst, count |-> ChunkLength]
    BY DEF virtio_submit_chunk
  <2>2. /\ request # NoRequest /\ request.completed < request.count
        /\ avail_index' = Following(used_index)
    BY DEF virtio_submit_chunk, QuietQueue
  <2> QED BY <1>4, <1>5, <2>1, <2>2 DEF Underway
<1>9. WithDevice'
  <2>1. \A i \in 1..ChunkLength : request.write => bounce'[i] = request.data[request.completed + i]
    BY <1>1, VirtioBlkAssumption DEF virtio_submit_chunk
  <2> QED BY <1>4, <1>5, <2>1 DEF WithDevice, QuietQueue, virtio_submit_chunk
<1> QED BY <1>6, <1>7, <1>8, <1>9 DEF QuietQueue, OneChunk, virtio_submit_chunk

\* The polling ends with the chunk completed, since the device is never late.
LEMMA WaitStep ==
    ASSUME BlkInv, ~SlowDevice, virtio_wait_for_completion
    PROVE  BlkInv'
<1> USE DEF BlkInv
<1>1. /\ busy /\ done_index # used_index /\ busy' = FALSE
      /\ UNCHANGED <<sectors, bounce, fetched, avail_index, seen_index, done_index>>
  BY DEF virtio_wait_for_completion
<1>2. Underway /\ Completed BY <1>1 DEF OneChunk, WithDevice
<1>3. used_index' = done_index /\ done_index = Following(used_index)
  BY <1>1, <1>2, FollowingIndex DEF Underway, Completed, BlkTypeOK, virtio_wait_for_completion
<1>4. QuietQueue' /\ OneChunk' BY <1>1, <1>2, <1>3 DEF QuietQueue, OneChunk, Completed
<1>5. CASE status # "ok"
  <2>1. request' = NoRequest
    BY <1>3, <1>5 DEF virtio_wait_for_completion, TransferFails
  <2>2. BlkTypeOK' BY <1>1, <1>3, <2>1, NoRequestOK DEF BlkTypeOK
  <2> QED BY <1>4, <2>1, <2>2 DEF RequestOK, PrefixTransferred
<1>6. CASE status = "ok"
  <2>1. request' = ChunkCompleted
    BY <1>3, <1>6 DEF virtio_wait_for_completion
  <2>2. /\ ChunkLength \in 1..BounceSectors
        /\ request.completed + ChunkLength <= request.count
    BY <1>2, ChunkBounds DEF Underway
  <2> DEFINE got == SubSeq(bounce, 1, ChunkLength)
             more == request.data \o got
  <2>3. request \in Requests /\ request.data \in Seq(Value) BY DEF BlkTypeOK, Requests
  <2>4. /\ got \in Seq(Value) /\ Len(got) = ChunkLength
        /\ \A i \in 1..ChunkLength : got[i] = bounce[i]
    <3>1. \A i \in 1..ChunkLength : bounce[i] \in Value
      BY <2>2, VirtioBlkAssumption DEF BlkTypeOK
    <3>2. ChunkLength \in Int /\ 1 <= ChunkLength BY <2>2, VirtioBlkAssumption
    <3> HIDE DEF BlkInv
    <3>3. /\ got \in Seq(Value) /\ Len(got) = ChunkLength - 1 + 1
          /\ \A i \in 1..(ChunkLength - 1 + 1) : got[i] = bounce[1 + i - 1]
      BY <3>1, <3>2, SubSeqProperties
    <3> QED BY <3>2, <3>3
  <2>5. /\ more \in Seq(Value) /\ Len(more) = Len(request.data) + ChunkLength
        /\ \A i \in 1..(Len(request.data) + ChunkLength) :
              more[i] = IF i <= Len(request.data) THEN request.data[i]
                        ELSE bounce[i - Len(request.data)]
    <3> HIDE DEF got
    <3>1. /\ more \in Seq(Value) /\ Len(more) = Len(request.data) + Len(got)
          /\ \A i \in 1..(Len(request.data) + Len(got)) :
                more[i] = IF i <= Len(request.data) THEN request.data[i]
                          ELSE got[i - Len(request.data)]
      BY <2>3, <2>4, ConcatProperties
    <3>2. Len(request.data) \in Nat /\ ChunkLength \in Nat
      BY <2>2, <2>3, VirtioBlkAssumption
    <3>3. ASSUME NEW i \in 1..(Len(request.data) + ChunkLength), ~(i <= Len(request.data))
          PROVE  more[i] = bounce[i - Len(request.data)]
      <4>1. i - Len(request.data) \in 1..ChunkLength BY <3>2, <3>3
      <4> QED BY <2>4, <3>1, <3>3, <4>1
    <3> QED BY <2>4, <3>1, <3>3
  <2> HIDE DEF got, more
  <2>6. /\ request'.write = request.write /\ request'.first = request.first
        /\ request'.count = request.count
        /\ request'.completed = request.completed + ChunkLength
        /\ request'.data = IF request.write THEN request.data ELSE more
    BY <2>1, <2>3 DEF ChunkCompleted, got, more, Requests
  <2>7. BlkTypeOK'
    <3>1. request' \in Requests
      <4> DEFINE c == request.completed + ChunkLength
                 d == IF request.write THEN request.data ELSE more
      <4>1. c \in Nat BY <2>2, <2>3, VirtioBlkAssumption DEF Requests
      <4>2. d \in Seq(Value) BY <2>3, <2>5
      <4>3. request' = [request EXCEPT !.completed = c, !.data = d]
        BY <2>1 DEF ChunkCompleted, got, more
      <4> HIDE DEF c, d
      <4> QED BY <2>3, <4>1, <4>2, <4>3 DEF Requests
    <3> QED BY <1>1, <1>3, <3>1 DEF BlkTypeOK
  <2>8. request # NoRequest BY <1>2 DEF Underway
  <2>9. RequestOK'
    BY <2>2, <2>3, <2>5, <2>6, <2>8, VirtioBlkAssumption DEF RequestOK, Requests
  <2>10. PrefixTransferred'
    <3> SUFFICES ASSUME NEW i \in 1..(request.completed + ChunkLength)
                 PROVE  request'.data[i] = sectors[request.first + i - 1]
      BY <1>1, <2>6 DEF PrefixTransferred
    <3>0. /\ request.completed \in Nat /\ request.first \in Nat /\ ChunkLength \in Nat
          /\ Len(request.data) = IF request.write THEN request.count ELSE request.completed
      BY <2>2, <2>3, <2>8, VirtioBlkAssumption DEF RequestOK, Requests
    <3>1. CASE i <= request.completed
      <4>1. request.data[i] = sectors[request.first + i - 1]
        BY <2>8, <3>0, <3>1 DEF PrefixTransferred
      <4> QED BY <2>5, <2>6, <3>0, <3>1, <4>1
    <3>2. CASE i > request.completed
      <4> DEFINE j == i - request.completed
      <4>1. j \in 1..ChunkLength /\ i = request.completed + j BY <3>0, <3>2
      <4>2. sectors[ChunkFirst + j - 1] = IF request.write THEN request.data[request.completed + j]
                                          ELSE bounce[j]
        BY <1>2, <1>6, <4>1 DEF Completed
      <4>3. ChunkFirst + j - 1 = request.first + i - 1 BY <3>0, <4>1 DEF ChunkFirst
      <4>4. CASE request.write BY <2>6, <4>1, <4>2, <4>3, <4>4
      <4>5. CASE ~request.write
        <5>0. /\ Len(request.data) = request.completed
              /\ i \in 1..(Len(request.data) + ChunkLength) /\ ~(i <= Len(request.data))
          BY <3>0, <3>2, <4>5
        <5> HIDE DEF BlkInv
        <5>1. more[i] = bounce[j] BY <2>5, <5>0
        <5> QED BY <2>6, <4>2, <4>3, <4>5, <5>1
      <4> QED BY <4>4, <4>5
    <3> QED BY <3>0, <3>1, <3>2
  <2> QED BY <1>4, <2>7, <2>9, <2>10
<1> QED BY <1>5, <1>6

\* The polling loop ends with an answer: what is taken as done is what the device did.
LEMMA ReturnStep ==
    ASSUME BlkInv, TransferReturns
    PROVE  BlkInv'
<1> USE DEF BlkInv
<1>1. ~busy BY DEF OneChunk, Underway, TransferReturns, BlkTypeOK, Requests
<1>2. request' = NoRequest /\ UNCHANGED <<sectors, busy, bounce, fetched, queueVars>>
  BY DEF TransferReturns
<1>3. BlkTypeOK' BY <1>2, NoRequestOK DEF BlkTypeOK, queueVars
<1> QED BY <1>1, <1>2, <1>3
    DEF RequestOK, PrefixTransferred, QuietQueue, OneChunk, queueVars

\* The device takes the one request that the driver has published.
LEMMA FetchStep ==
    ASSUME BlkInv, DeviceFetches
    PROVE  BlkInv'
<1> USE DEF BlkInv
<1>1. /\ seen_index # avail_index /\ seen_index' = Following(seen_index)
      /\ fetched' = Append(fetched, header)
      /\ UNCHANGED <<sectors, request, busy, header, bounce, avail_index, used_index, done_index>>
  BY DEF DeviceFetches, callVars
<1>2. busy BY <1>1 DEF QuietQueue, BlkTypeOK
<1>3. Underway /\ WithDevice /\ seen_index = used_index /\ fetched = <<>>
  BY <1>1, <1>2 DEF OneChunk, WithDevice, Completed
<1>4. seen_index' = avail_index /\ fetched' = <<header>> BY <1>1, <1>3 DEF Underway
<1>5. UNCHANGED <<ChunkLength, ChunkFirst>> BY <1>1 DEF ChunkLength, ChunkFirst
<1>6. BlkTypeOK' BY <1>1, <1>4 DEF BlkTypeOK
<1>7. RequestOK' /\ PrefixTransferred' BY <1>1 DEF RequestOK, PrefixTransferred
<1>8. Underway' BY <1>1, <1>3, <1>5 DEF Underway
<1>9. WithDevice' BY <1>1, <1>3, <1>4, <1>5 DEF WithDevice
<1> QED BY <1>1, <1>2, <1>6, <1>7, <1>8, <1>9 DEF QuietQueue, OneChunk

\* The device answers, with or without an error.
LEMMA CompleteStep ==
    ASSUME BlkInv, NEW ok \in BOOLEAN, DeviceCompletes(ok)
    PROVE  BlkInv'
<1> USE DEF BlkInv
<1>1. /\ fetched # <<>> /\ fetched' = Tail(fetched)
      /\ done_index' = Following(done_index)
      /\ status' = IF ok THEN "ok" ELSE "ioerr"
      /\ UNCHANGED <<request, busy, header, avail_index, used_index, seen_index>>
  BY DEF DeviceCompletes, callVars
<1>2. busy BY <1>1 DEF QuietQueue, BlkTypeOK
<1>3. Underway /\ WithDevice /\ seen_index = avail_index /\ fetched = <<header>>
  BY <1>1, <1>2 DEF OneChunk, WithDevice, Completed
<1>4. /\ header.write = request.write /\ header.first = ChunkFirst /\ header.count = ChunkLength
      /\ Head(fetched) = header
  BY <1>3 DEF Underway
<1>5. /\ sectors' = [s \in Sector |->
                        IF ok /\ request.write /\ s \in ChunkFirst..(ChunkFirst + ChunkLength - 1)
                          THEN bounce[s - ChunkFirst + 1] ELSE sectors[s]]
      /\ bounce' = [i \in 1..BounceSectors |->
                       IF ok /\ ~request.write /\ i <= ChunkLength
                         THEN sectors[ChunkFirst + i - 1] ELSE bounce[i]]
  BY <1>4 DEF DeviceCompletes
<1>6. /\ ChunkLength \in 1..BounceSectors /\ ChunkLength \in Nat
      /\ ChunkFirst \in Nat /\ ChunkFirst = request.first + request.completed
      /\ request.completed \in Nat /\ request.first \in Nat /\ request.first >= 1
      /\ request.completed + ChunkLength <= request.count
      /\ request.first + request.count - 1 <= SectorCount /\ request.count \in Nat
      /\ \A i \in 1..ChunkLength : ChunkFirst + i - 1 \in Sector
  <2>1. request # NoRequest /\ request.completed < request.count BY <1>3 DEF Underway
  <2>2. /\ ChunkLength \in 1..BounceSectors
        /\ request.completed + ChunkLength <= request.count
        /\ \A i \in 1..ChunkLength : ChunkFirst + i - 1 \in Sector
    BY <2>1, ChunkBounds
  <2> QED BY <2>1, <2>2, VirtioBlkAssumption DEF BlkTypeOK, RequestOK, ChunkFirst, Requests
<1>7. UNCHANGED <<ChunkLength, ChunkFirst>> BY <1>1 DEF ChunkLength, ChunkFirst
<1>8. BlkTypeOK'
  <2>1. sectors' \in [Sector -> Value]
    <3> SUFFICES ASSUME NEW s \in Sector, s \in ChunkFirst..(ChunkFirst + ChunkLength - 1)
                 PROVE  bounce[s - ChunkFirst + 1] \in Value
      BY <1>5 DEF BlkTypeOK
    <3>1. s - ChunkFirst + 1 \in 1..BounceSectors BY <1>6, VirtioBlkAssumption
    <3> QED BY <3>1 DEF BlkTypeOK
  <2>2. bounce' \in [1..BounceSectors -> Value]
    <3> SUFFICES ASSUME NEW i \in 1..BounceSectors, i <= ChunkLength
                 PROVE  sectors[ChunkFirst + i - 1] \in Value
      BY <1>5 DEF BlkTypeOK
    <3>1. i \in 1..ChunkLength BY <1>6
    <3> QED BY <1>6, <3>1 DEF BlkTypeOK
  <2> QED BY <1>1, <2>1, <2>2, FollowingIndex DEF BlkTypeOK
<1>9. RequestOK' BY <1>1 DEF RequestOK
<1>10. PrefixTransferred'
  <2> SUFFICES ASSUME NEW i \in 1..request.completed
               PROVE  request.data[i] = sectors'[request.first + i - 1]
    BY <1>1 DEF PrefixTransferred
  <2>1. /\ request.first + i - 1 \in Sector
        /\ request.first + i - 1 \notin ChunkFirst..(ChunkFirst + ChunkLength - 1)
    BY <1>6, VirtioBlkAssumption DEF Sector
  <2>2. request.data[i] = sectors[request.first + i - 1]
    BY <1>3 DEF PrefixTransferred, Underway
  <2> QED BY <1>5, <2>1, <2>2
<1>11. Underway' BY <1>1, <1>3, <1>7 DEF Underway
<1>12. Completed'
  <2>1. done_index' = avail_index /\ fetched' = <<>>
    BY <1>1, <1>3 DEF Underway, WithDevice
  <2> SUFFICES ASSUME ok, NEW i \in 1..ChunkLength
               PROVE  sectors'[ChunkFirst + i - 1] =
                        IF request.write THEN request.data[request.completed + i] ELSE bounce'[i]
    BY <1>1, <1>3, <1>7, <2>1 DEF Completed
  <2>2. /\ ChunkFirst + i - 1 \in Sector /\ i \in 1..BounceSectors
        /\ ChunkFirst + i - 1 \in ChunkFirst..(ChunkFirst + ChunkLength - 1)
        /\ ChunkFirst + i - 1 - ChunkFirst + 1 = i
    BY <1>6, VirtioBlkAssumption
  <2>3. CASE request.write
    <3> DEFINE s == ChunkFirst + i - 1
    <3>1. sectors'[s] = bounce[s - ChunkFirst + 1] BY <1>5, <2>2, <2>3
    <3>2. s - ChunkFirst + 1 = i BY <1>6
    <3>3. sectors'[s] = bounce[i]
      <4> HIDE DEF s
      <4> QED BY <3>1, <3>2
    <3> QED BY <1>3, <2>3, <3>3 DEF WithDevice
  <2>4. CASE ~request.write
    <3>1. sectors'[ChunkFirst + i - 1] = sectors[ChunkFirst + i - 1] BY <1>5, <2>2, <2>4
    <3>2. bounce'[i] = sectors[ChunkFirst + i - 1] BY <1>5, <1>6, <2>2, <2>4
    <3> QED BY <2>4, <3>1, <3>2
  <2> QED BY <2>3, <2>4
<1> QED BY <1>1, <1>2, <1>8, <1>9, <1>10, <1>11, <1>12 DEF QuietQueue, OneChunk

\* A transfer that virtio_transfer reports as done moved every sector: what
\* docs/block-device.md promises holds for a device that completes each chunk
\* before virtio_wait_for_completion gives up.
THEOREM TransferredWhenInTime ==
    ASSUME ~SlowDevice
    PROVE  BlkSpec => []OkMeansTransferred
<1>1. BlkInv /\ [BlkNext]_blkVars => BlkInv'
  <2> SUFFICES ASSUME BlkInv, [BlkNext]_blkVars PROVE BlkInv' OBVIOUS
  <2>1. CASE UNCHANGED blkVars
    BY <2>1 DEF blkVars, callVars, queueVars, BlkInv, BlkTypeOK, RequestOK, PrefixTransferred,
        QuietQueue, OneChunk, Underway, WithDevice, Completed, ChunkLength, ChunkFirst
  <2> QED BY <2>1, TransferStep, SubmitStep, WaitStep, ReturnStep, FetchStep, CompleteStep
      DEF BlkNext
<1>2. BlkInv => OkMeansTransferred
  BY DEF BlkInv, OkMeansTransferred, PrefixTransferred
<1> QED BY BlkInitOK, <1>1, <1>2, PTL DEF BlkSpec

----------------------------------------------------------------------------
(* Slices of slices                                                        *)

DeviceNames == {"sata0"} \cup {s[1] : s \in SliceRequests}
DeviceRecords == [name : DeviceNames, blocks : Nat, first : Nat, parent : Nat, read_only : BOOLEAN]

\* A slice was registered after its parent, and what has no parent is the disk.
Registry(D) ==
    /\ D \in Seq(DeviceRecords)
    /\ \A i \in 1..Len(D) : D[i].parent < i /\ (D[i].parent = 0 => D[i].blocks = DiskBlocks)

\* What the definition of Origin asks of a function.
Starts(D, f, i) == IF D[i].parent = 0 THEN 0 ELSE D[i].first + f[D[i].parent]
IsOrigin(D, f) == f \in [1..Len(D) -> Nat] /\ \A i \in 1..Len(D) : f[i] = Starts(D, f, i)
OriginIn(D) == CHOOSE f : f = [i \in 1..Len(D) |-> IF D[i].parent = 0 THEN 0
                                                   ELSE D[i].first + f[D[i].parent]]

\* The fields of a registered device.
LEMMA RegistryFacts ==
    ASSUME NEW D, Registry(D)
    PROVE  /\ Len(D) \in Nat
           /\ \A i \in 1..Len(D) :
                 /\ D[i].parent \in Nat /\ D[i].parent < i
                 /\ D[i].first \in Nat /\ D[i].blocks \in Nat
                 /\ D[i].parent = 0 => D[i].blocks = DiskBlocks
<1>1. D \in Seq(DeviceRecords) BY DEF Registry
<1>2. Len(D) \in Nat BY <1>1
<1>3. ASSUME NEW i \in 1..Len(D)
      PROVE  D[i].parent \in Nat /\ D[i].first \in Nat /\ D[i].blocks \in Nat
  <2>1. D[i] \in DeviceRecords BY <1>1
  <2> QED BY <2>1 DEF DeviceRecords
<1> QED BY <1>2, <1>3 DEF Registry

\* The recursion of Origin ends, since parents are older than their slices.
LEMMA OriginExists ==
    ASSUME NEW D, Registry(D)
    PROVE  \E f : IsOrigin(D, f)
<1> DEFINE Upto(n, f) == \A i \in 1..n : f[i] = Starts(D, f, i)
           T == {n \in Nat : n <= Len(D) => \E f \in [1..n -> Nat] : Upto(n, f)}
<1>1. /\ Len(D) \in Nat
      /\ \A i \in 1..Len(D) : /\ D[i].parent \in Nat /\ D[i].parent < i
                              /\ D[i].first \in Nat
  BY RegistryFacts
<1>2. 0 \in T
  <2>1. [i \in 1..0 |-> 0] \in [1..0 -> Nat] /\ Upto(0, [i \in 1..0 |-> 0]) OBVIOUS
  <2> QED BY <2>1
<1>3. ASSUME NEW n \in Nat, n \in T PROVE n + 1 \in T
  <2> SUFFICES ASSUME n + 1 <= Len(D) PROVE \E f \in [1..(n + 1) -> Nat] : Upto(n + 1, f)
    OBVIOUS
  <2>1. PICK f \in [1..n -> Nat] : Upto(n, f) BY <1>1, <1>3, SMTT(30)
  <2> HIDE DEF T
  <2> DEFINE g == [i \in 1..(n + 1) |-> IF i <= n THEN f[i] ELSE Starts(D, f, n + 1)]
  <2>2. n + 1 \in 1..Len(D) BY <1>1
  <2>3. Starts(D, f, n + 1) \in Nat BY <1>1, <2>2 DEF Starts
  <2>4. g \in [1..(n + 1) -> Nat]
    <3>1. ASSUME NEW i \in 1..(n + 1) PROVE g[i] \in Nat
      <4>1. CASE i <= n BY <4>1
      <4>2. CASE i = n + 1 BY <4>2, <2>3
      <4> QED BY <4>1, <4>2
    <3> QED BY <3>1
  <2>5. ASSUME NEW i \in 1..(n + 1) PROVE g[i] = Starts(D, g, i)
    <3>1. /\ i \in 1..Len(D) /\ D[i].parent \in Nat
          /\ D[i].parent # 0 => D[i].parent \in 1..n
      BY <1>1
    <3>2. Starts(D, g, i) = Starts(D, f, i) BY <3>1 DEF Starts
    <3>3. CASE i <= n
      <4>1. g[i] = f[i] BY <3>3
      <4>2. i \in 1..n BY <3>3
      <4>3. f[i] = Starts(D, f, i) BY <2>1, <4>2
      <4> HIDE DEF g
      <4> QED BY <3>2, <4>1, <4>3
    <3>4. CASE i = n + 1 BY <3>2, <3>4
    <3> QED BY <3>3, <3>4
  <2> QED BY <2>4, <2>5
<1>4. Nat \subseteq T
  <2> HIDE DEF T
  <2> QED BY <1>2, <1>3, SetInduction
<1>5. \E f \in [1..Len(D) -> Nat] : Upto(Len(D), f)
  <2>1. Len(D) \in T
    <3> HIDE DEF T
    <3> QED BY <1>1, <1>4
  <2>2. Len(D) <= Len(D) BY <1>1
  <2> HIDE DEF Upto
  <2> QED BY <2>1, <2>2
<1>6. PICK f \in [1..Len(D) -> Nat] : Upto(Len(D), f) BY <1>5
<1> QED BY <1>6 DEF IsOrigin

\* Hence Origin is what it is defined to be.
LEMMA OriginIs ==
    ASSUME NEW D, Registry(D)
    PROVE  IsOrigin(D, OriginIn(D))
<1> DEFINE F(f) == [i \in 1..Len(D) |-> IF D[i].parent = 0 THEN 0
                                        ELSE D[i].first + f[D[i].parent]]
<1>1. PICK f : IsOrigin(D, f) BY OriginExists
<1>2. f = F(f) BY <1>1 DEF IsOrigin, Starts
<1>3. OriginIn(D) = F(OriginIn(D)) BY <1>2 DEF OriginIn
<1> DEFINE g == OriginIn(D)
<1>4. g = F(g) BY <1>3
<1> HIDE DEF g
<1>5. DOMAIN g = 1..Len(D) /\ \A i \in 1..Len(D) : g[i] = Starts(D, g, i)
  <2>1. DOMAIN g = 1..Len(D) BY <1>4
  <2>2. ASSUME NEW i \in 1..Len(D) PROVE g[i] = Starts(D, g, i)
    <3>1. g[i] = F(g)[i] BY <1>4
    <3> QED BY <3>1 DEF Starts
  <2> QED BY <2>1, <2>2
<1>6. \A i \in 1..Len(D) : g[i] = f[i]
  <2> SUFFICES ASSUME ~\A i \in 1..Len(D) : g[i] = f[i] PROVE FALSE OBVIOUS
  <2> DEFINE U == {i \in 1..Len(D) : g[i] # f[i]}
  <2>1. U \subseteq Nat /\ U # {} OBVIOUS
  <2>2. PICK m \in U : \A k \in U : m <= k
    <3> HIDE DEF U
    <3> QED BY <2>1, LeastElement
  <2>3. /\ m \in 1..Len(D) /\ g[m] # f[m]
        /\ D[m].parent \in Nat /\ D[m].parent < m /\ Len(D) \in Nat
    BY <2>2, RegistryFacts
  <2>4. D[m].parent # 0 => g[D[m].parent] = f[D[m].parent] BY <2>2, <2>3
  <2>5. g[m] = f[m] BY <1>1, <1>5, <2>3, <2>4 DEF IsOrigin, Starts
  <2> QED BY <2>3, <2>5
<1>7. g \in [1..Len(D) -> Nat] BY <1>1, <1>4, <1>5, <1>6 DEF IsOrigin
<1> QED BY <1>5, <1>7 DEF IsOrigin, g

\* A new device leaves the places of the others.
LEMMA OriginsStay ==
    ASSUME NEW D, Registry(D), NEW E, Registry(E), NEW x, E = Append(D, x), NEW i \in 1..Len(D)
    PROVE  OriginIn(E)[i] = OriginIn(D)[i]
<1> DEFINE f == OriginIn(D)
           g == OriginIn(E)
<1>1. IsOrigin(D, f) /\ IsOrigin(E, g) BY OriginIs
<1> HIDE DEF f, g
<1>2. /\ Len(D) \in Nat /\ Len(E) = Len(D) + 1
      /\ \A j \in 1..Len(D) : E[j] = D[j]
  BY DEF Registry
<1> SUFFICES ASSUME g[i] # f[i] PROVE FALSE BY DEF f, g
<1> DEFINE U == {j \in 1..Len(D) : g[j] # f[j]}
<1>3. U \subseteq Nat /\ U # {} OBVIOUS
<1>4. PICK m \in U : \A k \in U : m <= k
  <2> HIDE DEF U
  <2> QED BY <1>3, LeastElement
<1>5. /\ m \in 1..Len(D) /\ g[m] # f[m] /\ m \in 1..Len(E)
      /\ D[m].parent \in Nat /\ D[m].parent < m
  BY <1>2, <1>4, RegistryFacts
<1>6. D[m].parent # 0 => g[D[m].parent] = f[D[m].parent] BY <1>2, <1>4, <1>5
<1>7. f[m] = Starts(D, f, m) /\ g[m] = Starts(E, g, m) BY <1>1, <1>5 DEF IsOrigin
<1>8. Starts(D, f, m) = Starts(E, g, m) BY <1>2, <1>5, <1>6 DEF Starts
<1> QED BY <1>5, <1>7, <1>8

----------------------------------------------------------------------------
(* The inductive invariant of the SATA disk                                *)

AhciSpec == DeviceInit /\ AhciInit /\ [][AhciNext]_<<deviceVars, ahciVars>>

DiskCalls ==
    [op : {"none", "read", "write", "flush"}, asked : Nat \X Nat, device : Nat, first : Nat,
     count : Nat, data : Seq(Nat),
     stage : {"none", "check", "backend", "issue", "poll", "flush", "flushing", "done", "ok"}]
PortCommands ==
    [kind : {"none", "identify", "read", "write", "flush"}, first : Nat, count : Nat]
PortStates ==
    [running : BOOLEAN, list : {"firmware", "driver"}, command : PortCommands, tfes : BOOLEAN]

HbaRegisters == [memory : BOOLEAN, owned : BOOLEAN, mode : BOOLEAN, ready : BOOLEAN]

\* Types of what the transfers use.
DiskTypeOK ==
    /\ firmware \in HbaRegisters
    /\ Registry(block_devices)
    /\ call \in DiskCalls
    /\ cached \in [DiskBlock -> Nat] /\ medium \in [DiskBlock -> Nat] /\ kept \in [DiskBlock -> Nat]
    /\ identify \in IdentifyData
    /\ port \in PortStates
    /\ bounce_page \in [1..TransferMax -> Nat]
    /\ driver \in {"off", "identify", "ready"}

\* The block of the disk that the caller asked for.
Target == Origin[call.asked[1]] + call.asked[2]

\* A call names registered devices, and on its way through the slices the
\* block it is about stays the same; the driver gets blocks that the disk has.
CallOK ==
    /\ call.stage = "none" <=> call.op = "none"
    /\ call.stage # "none" =>
          /\ call.device \in Devices /\ call.asked[1] \in Devices
          /\ Target = Origin[call.device] + call.first
          /\ call.op = "write" => Len(call.data) = call.count
    /\ call.stage \notin {"none", "check"} /\ call.op # "flush" =>
          /\ Target = call.first /\ call.count > 0
          /\ call.first + call.count <= DiskBlocks
    /\ call.stage \in {"flush", "flushing"} => call.op \in {"write", "flush"}
    /\ call.stage \in {"issue", "poll"} => call.op \in {"read", "write"} /\ call.count <= TransferMax

\* The blocks of the call hold its data; so does the buffer.
Written(disk) == \A i \in 1..call.count : disk[call.first + i - 1] = call.data[i]
InBuffer == \A i \in 1..call.count : bounce_page[i] = call.data[i]

\* What callers count on is in the cache and on the medium; nobody counts on
\* the blocks of a write under way.
KeptOK ==
    /\ \A b \in DiskBlock : kept[b] # 0 => cached[b] = kept[b] /\ medium[b] = kept[b]
    /\ call.stage \notin {"none", "ok"} /\ call.op = "write" =>
          \A b \in DiskBlock : Target <= b /\ b < Target + call.count => kept[b] = 0
    /\ ~identify.write_cache => medium = cached

\* A command that the port may still carry out is the one the driver polls for.
CommandOK ==
    /\ driver # "ready" =>
          /\ block_devices = <<>> /\ call.stage = "none"
          /\ CI => port.command.kind = "identify"
    /\ driver = "ready" /\ CI /\ ~port.tfes =>
          \/ call.stage = "poll"
             /\ port.command = [kind |-> call.op, first |-> call.first, count |-> call.count]
          \/ call.stage = "flushing" /\ port.command.kind = "flush"

\* How far a transfer has come.
ProgressOK ==
    /\ call.op = "write" =>
          /\ call.stage = "issue" \/ (call.stage = "poll" /\ CI) => InBuffer
          /\ call.stage \in {"flush", "flushing", "done"} \/ (call.stage = "poll" /\ ~CI)
                => Written(cached)
          /\ call.stage = "done" \/ (call.stage = "flushing" /\ ~CI) => Written(medium)
    /\ call.op = "read" =>
          /\ call.stage = "poll" /\ ~CI =>
                \A i \in 1..call.count : bounce_page[i] = cached[call.first + i - 1]
          /\ call.stage \in {"done", "ok"} => call.data = DiskReads(call.first, call.count)

AhciInv == DiskTypeOK /\ CallOK /\ KeptOK /\ CommandOK /\ ProgressOK

----------------------------------------------------------------------------
(* Its lemmas                                                              *)

\* Origin is the function of the lemmas above, now and after a step.
LEMMA OriginNow ==
    /\ Origin = OriginIn(block_devices)
    /\ Origin' = OriginIn(block_devices')
BY Zenon DEF Origin, OriginIn, Devices

\* Fields of a call.
LEMMA CallFacts ==
    ASSUME call \in DiskCalls
    PROVE  /\ call.asked[1] \in Nat /\ call.asked[2] \in Nat /\ call.device \in Nat
           /\ call.first \in Nat /\ call.count \in Nat /\ call.data \in Seq(Nat)
           /\ call.op \in {"none", "read", "write", "flush"}
BY DEF DiskCalls

\* DiskHolds, block by block.
LEMMA HoldsFacts ==
    ASSUME NEW c \in [DiskBlock -> Nat], NEW first \in Nat, NEW data \in Seq(Nat)
    PROVE  /\ DiskHolds(c, first, data) \in [DiskBlock -> Nat]
           /\ \A b \in DiskBlock : ~(first <= b /\ b < first + Len(data)) =>
                 DiskHolds(c, first, data)[b] = c[b]
           /\ \A b \in DiskBlock : first <= b /\ b < first + Len(data) =>
                 /\ DiskHolds(c, first, data)[b] = data[b - first + 1]
                 /\ b - first + 1 \in 1..Len(data)
           /\ \A i \in 1..Len(data) : first + i - 1 \in DiskBlock =>
                 DiskHolds(c, first, data)[first + i - 1] = data[i]
<1>1. Len(data) \in Nat /\ \A i \in 1..Len(data) : data[i] \in Nat OBVIOUS
<1>2. \A b \in DiskBlock : b \in Nat BY BlockDeviceAssumption DEF DiskBlock
<1>3. \A b \in DiskBlock :
         DiskHolds(c, first, data)[b] =
            IF b \in first..(first + Len(data) - 1) THEN data[b - first + 1] ELSE c[b]
  BY DEF DiskHolds
<1>4. ASSUME NEW b \in DiskBlock, first <= b, b < first + Len(data)
      PROVE  DiskHolds(c, first, data)[b] = data[b - first + 1] /\ b - first + 1 \in 1..Len(data)
  BY <1>1, <1>2, <1>3, <1>4
<1>5. ASSUME NEW b \in DiskBlock, ~(first <= b /\ b < first + Len(data))
      PROVE  DiskHolds(c, first, data)[b] = c[b]
  BY <1>1, <1>2, <1>3, <1>5
<1>6. ASSUME NEW b \in DiskBlock PROVE DiskHolds(c, first, data)[b] \in Nat
  BY <1>1, <1>4, <1>5
<1>7. ASSUME NEW i \in 1..Len(data), first + i - 1 \in DiskBlock
      PROVE  DiskHolds(c, first, data)[first + i - 1] = data[i]
  <2>1. first <= first + i - 1 /\ first + i - 1 < first + Len(data)
        /\ (first + i - 1) - first + 1 = i
    BY <1>1
  <2>2. DiskHolds(c, first, data)[first + i - 1] = data[(first + i - 1) - first + 1]
    BY <1>4, <1>7, <2>1
  <2> QED BY <2>1, <2>2
<1>8. DiskHolds(c, first, data) \in [DiskBlock -> Nat] BY <1>6 DEF DiskHolds
<1> QED BY <1>4, <1>5, <1>7, <1>8

\* The blocks of a call in the driver are blocks of the disk.
LEMMA BlocksOfCall ==
    ASSUME DiskTypeOK, CallOK, call.stage \notin {"none", "check"}, call.op # "flush"
    PROVE  \A i \in 1..call.count : call.first + i - 1 \in DiskBlock
<1>1. /\ call.first \in Nat /\ call.count \in Nat /\ DiskBlocks \in Nat
      /\ call.first + call.count <= DiskBlocks
  BY CallFacts, BlockDeviceAssumption DEF DiskTypeOK, CallOK
<1> QED BY <1>1 DEF DiskBlock

\* The port as AhciInit leaves it, with no call under way.
LEMMA AhciInitOK == DeviceInit /\ AhciInit => AhciInv
<1> SUFFICES ASSUME DeviceInit, AhciInit PROVE AhciInv OBVIOUS
<1>1. call = NoCall /\ call \in DiskCalls BY DEF DeviceInit, NoCall, DiskCalls
<1>2. call.op = "none" /\ call.stage = "none" BY <1>1 DEF NoCall
<1>3. Registry(block_devices) BY DEF DeviceInit, Registry
<1>4. PICK d \in Datum : medium = [b \in DiskBlock |-> d] BY DEF DeviceInit
<1>5. /\ medium \in [DiskBlock -> Nat] /\ cached = medium
      /\ kept \in [DiskBlock -> Nat] /\ \A b \in DiskBlock : kept[b] = 0
  BY <1>4, BlockDeviceAssumption DEF DeviceInit
<1>6. port.command = NoCommand /\ port \in PortStates
  BY DEF AhciInit, FirmwarePort, PortStates, PortCommands, NoCommand
<1>7. ~CI BY <1>6 DEF CI
<1>8. firmware \in HbaRegisters
  <2>1. PICK given \in BOOLEAN :
           firmware = [memory |-> given, owned |-> given, mode |-> given, ready |-> FALSE]
    BY DEF AhciInit
  <2> QED BY <2>1 DEF HbaRegisters
<1>9. DiskTypeOK
  BY <1>1, <1>3, <1>5, <1>6, <1>8, BlockDeviceAssumption DEF AhciInit, DiskTypeOK, Zeroed
<1> QED BY <1>2, <1>5, <1>7, <1>9
    DEF AhciInit, DeviceInit, AhciInv, CallOK, KeptOK, CommandOK, ProgressOK

----------------------------------------------------------------------------
(* The steps                                                               *)

\* As long as nothing is registered, every device keeps its place.
LEMMA SameOrigin == UNCHANGED block_devices => Origin' = Origin /\ Devices' = Devices
BY OriginNow DEF Devices

\* Nobody but the driver and the disk changes what the progress is about.
LEMMA ControllerStep ==
    ASSUME AhciInv, NEW failing, ahci_init(failing), UNCHANGED deviceVars
    PROVE  AhciInv'
<1>1. Origin' = Origin /\ Devices' = Devices BY SameOrigin DEF deviceVars
<1> QED BY <1>1 DEF ahci_init, portVars, deviceVars, diskVars, AhciInv, DiskTypeOK, CallOK, KeptOK,
        CommandOK, ProgressOK, Written, InBuffer, Target, CI, DiskReads

\* What the port may hold when the driver is off, or waits for IDENTIFY.
LEMMA NoDiskYet ==
    ASSUME AhciInv, UNCHANGED deviceVars, UNCHANGED <<identify, firmware>>, driver # "ready", driver' # "ready",
           driver' \in {"off", "identify"}, port' \in PortStates,
           bounce_page' \in [1..TransferMax -> Nat],
           port'.command # NoCommand => port'.command.kind = "identify"
    PROVE  AhciInv'
<1>1. Origin' = Origin /\ Devices' = Devices BY SameOrigin DEF deviceVars
<1>2. call.stage = "none" /\ call.op = "none" /\ block_devices = <<>>
  BY DEF AhciInv, CommandOK, CallOK
<1>3. DiskTypeOK' BY DEF AhciInv, DiskTypeOK, deviceVars, diskVars
<1> QED BY <1>1, <1>2, <1>3 DEF deviceVars, diskVars, AhciInv, CallOK, KeptOK,
        CommandOK, ProgressOK, CI

\* restore_port leaves at most a command that transfers nothing.
LEMMA Restored ==
    ASSUME port \in PortStates, firmware \in HbaRegisters, restore_port
    PROVE  /\ port' \in PortStates
           /\ port'.command \in {NoCommand, port.command}
<1>1. CASE EngineStops
  <2>1. port' = [running |-> firmware.owned, list |-> "firmware", command |-> NoCommand,
                 tfes |-> FALSE]
    BY <1>1 DEF restore_port, FirmwarePort
  <2>2. firmware.owned \in BOOLEAN BY DEF HbaRegisters
  <2>3. NoCommand \in PortCommands BY DEF NoCommand, PortCommands
  <2> QED BY <2>1, <2>2, <2>3 DEF PortStates
<1>2. CASE ~EngineStops BY <1>2 DEF restore_port, PortStates
<1> QED BY <1>1, <1>2

\* ahci_block_init up to IDENTIFY.
LEMMA BlockInitStep ==
    ASSUME AhciInv, NEW failing \in {"port", "pci", "map", "frames", "stop", "start", "none"},
           ahci_block_init(failing), UNCHANGED deviceVars
    PROVE  AhciInv'
<1>1. driver = "off" /\ UNCHANGED <<identify, firmware>> BY DEF ahci_block_init
<1>2. port \in PortStates /\ bounce_page \in [1..TransferMax -> Nat] /\ firmware \in HbaRegisters
      /\ (port.command # NoCommand => port.command.kind = "identify")
  BY <1>1 DEF AhciInv, DiskTypeOK, CommandOK, CI
<1>3. CASE UNCHANGED <<portVars, dma, driver>>
  BY <1>1, <1>2, <1>3, NoDiskYet DEF portVars
<1>4. CASE cleanup_failed_init /\ UNCHANGED bounce_page
  <2>1. restore_port /\ driver' = "off" BY <1>4 DEF cleanup_failed_init
  <2>2. port' \in PortStates /\ port'.command \in {NoCommand, port.command}
    BY <1>2, <2>1, Restored
  <2> QED BY <1>1, <1>2, <1>4, <2>1, <2>2, NoDiskYet
<1>5. CASE /\ port' = [program_port EXCEPT !.command.kind = "identify"]
           /\ bounce_page' = Zeroed
           /\ driver' = "identify"
  <2>1. port' = [running |-> TRUE, list |-> "driver", tfes |-> FALSE,
                 command |-> [kind |-> "identify", first |-> 0, count |-> 0]]
    BY <1>5 DEF program_port, NoCommand
  <2>2. [kind |-> "identify", first |-> 0, count |-> 0] \in PortCommands BY DEF PortCommands
  <2>3. port' \in PortStates /\ port'.command.kind = "identify" BY <2>1, <2>2 DEF PortStates
  <2>4. bounce_page' \in [1..TransferMax -> Nat] BY <1>5 DEF Zeroed
  <2> QED BY <1>1, <1>5, <2>3, <2>4, NoDiskYet
<1>6. CASE failing \in {"port", "pci", "map"} BY <1>3, <1>6 DEF ahci_block_init
<1>7. CASE failing \in {"frames", "stop", "start"} BY <1>4, <1>7 DEF ahci_block_init
<1>8. CASE failing = "none" BY <1>5, <1>8 DEF ahci_block_init
<1> QED BY <1>6, <1>7, <1>8

\* The rest of ahci_block_init: the disk is registered, with no command left at
\* the port, or everything is undone.
LEMMA IdentifyStep ==
    ASSUME AhciInv, NEW valid \in BOOLEAN, IdentifyReturns(valid)
    PROVE  AhciInv'
<1> DEFINE disk == [name |-> "sata0", blocks |-> DiskBlocks, first |-> 0, parent |-> 0,
                    read_only |-> FALSE]
<1>1. /\ driver = "identify"
      /\ UNCHANGED <<identify, firmware, bounce_page, call, cached, medium, kept>>
  BY DEF IdentifyReturns, diskVars
<1>2. /\ port \in PortStates /\ bounce_page \in [1..TransferMax -> Nat]
      /\ firmware \in HbaRegisters
      /\ port.command # NoCommand => port.command.kind = "identify"
      /\ block_devices = <<>> /\ call.stage = "none" /\ call.op = "none"
  BY <1>1 DEF AhciInv, DiskTypeOK, CommandOK, CallOK, CI
<1>3. CASE cleanup_failed_init /\ UNCHANGED block_devices
  <2>1. restore_port /\ driver' = "off" BY <1>3 DEF cleanup_failed_init
  <2>2. port' \in PortStates /\ port'.command \in {NoCommand, port.command}
    BY <1>2, <2>1, Restored
  <2>3. UNCHANGED deviceVars BY <1>1, <1>3 DEF deviceVars, diskVars
  <2> QED BY <1>1, <1>2, <2>1, <2>2, <2>3, NoDiskYet
<1>4. CASE /\ ~CI
           /\ block_devices' = Append(block_devices, disk)
           /\ driver' = "ready" /\ UNCHANGED port
  <2>1. disk \in DeviceRecords BY BlockDeviceAssumption DEF DeviceRecords, DeviceNames
  <2>2. block_devices' = <<disk>> BY <1>2, <1>4
  <2>3. Registry(block_devices')
    <3>1. <<disk>> \in Seq(DeviceRecords) /\ Len(<<disk>>) = 1 /\ <<disk>>[1] = disk BY <2>1
    <3>2. disk.parent = 0 /\ disk.blocks = DiskBlocks OBVIOUS
    <3> HIDE DEF disk
    <3> QED BY <2>2, <3>1, <3>2 DEF Registry
  <2>4. DiskTypeOK' BY <1>1, <1>4, <2>3 DEF AhciInv, DiskTypeOK
  <2> QED BY <1>1, <1>2, <1>4, <2>4 DEF AhciInv, CallOK, KeptOK, CommandOK, ProgressOK, CI
<1> QED BY <1>3, <1>4 DEF IdentifyReturns

\* block_device_slice_register: the devices before it stay where they are.
LEMMA SliceStep ==
    ASSUME AhciInv, NEW parent \in Devices, NEW s \in SliceRequests,
           block_device_slice_register(parent, s[1], s[2], s[3], s[4]), UNCHANGED ahciVars
    PROVE  AhciInv'
<1> DEFINE slice == [name |-> s[1], blocks |-> s[3], first |-> s[2], parent |-> parent,
                     read_only |-> s[4] \/ block_devices[parent].read_only]
<1>1. /\ call.stage \in {"ok", "none"}
      /\ block_devices' = Append(block_devices, slice)
      /\ UNCHANGED <<call, cached, medium, kept>>
      /\ UNCHANGED <<controller, firmware, identify, port, bounce_page, dma, driver>>
  BY DEF block_device_slice_register, NoneServed, diskVars, ahciVars
<1>2. Registry(block_devices) BY DEF AhciInv, DiskTypeOK
<1>3. parent \in 1..Len(block_devices) /\ Len(block_devices) \in Nat
  BY <1>2, RegistryFacts DEF Devices
<1>4. slice \in DeviceRecords
  <2>1. s[1] \in DeviceNames BY DEF DeviceNames
  <2>2. s[2] \in Nat /\ s[3] \in Nat BY BlockDeviceAssumption
  <2> QED BY <1>3, <2>1, <2>2 DEF DeviceRecords
<1>5. slice.parent = parent /\ parent # 0 BY <1>3
<1> HIDE DEF slice
<1>6. Registry(block_devices')
  <2>1. block_devices \in Seq(DeviceRecords) BY <1>2 DEF Registry
  <2>2. /\ block_devices' \in Seq(DeviceRecords)
        /\ Len(block_devices') = Len(block_devices) + 1
        /\ \A i \in 1..Len(block_devices) : block_devices'[i] = block_devices[i]
        /\ block_devices'[Len(block_devices) + 1] = slice
    BY <1>1, <1>4, <2>1
  <2>3. ASSUME NEW i \in 1..Len(block_devices')
        PROVE  /\ block_devices'[i].parent < i
               /\ block_devices'[i].parent = 0 => block_devices'[i].blocks = DiskBlocks
    <3>1. CASE i \in 1..Len(block_devices) BY <1>2, <2>2, <3>1 DEF Registry
    <3>2. CASE i = Len(block_devices) + 1 BY <1>3, <1>5, <2>2, <3>2
    <3> QED BY <1>3, <2>2, <3>1, <3>2
  <2> QED BY <2>2, <2>3 DEF Registry
<1>7. \A i \in Devices : Origin'[i] = Origin[i] /\ i \in Devices'
  <2> SUFFICES ASSUME NEW i \in Devices PROVE Origin'[i] = Origin[i] /\ i \in Devices' OBVIOUS
  <2>1. i \in 1..Len(block_devices) BY DEF Devices
  <2>2. OriginIn(block_devices')[i] = OriginIn(block_devices)[i]
    BY <1>1, <1>2, <1>6, <2>1, OriginsStay
  <2>3. block_devices \in Seq(DeviceRecords) BY <1>2 DEF Registry
  <2>4. Len(block_devices') = Len(block_devices) + 1 BY <1>1, <1>4, <2>3
  <2> QED BY <1>3, <2>1, <2>2, <2>4, OriginNow DEF Devices
<1>8. DiskTypeOK' BY <1>1, <1>6 DEF AhciInv, DiskTypeOK
<1>9. driver = "ready"
  BY <1>3 DEF AhciInv, CommandOK
<1> QED BY <1>1, <1>7, <1>8, <1>9
    DEF AhciInv, CallOK, KeptOK, CommandOK, ProgressOK, Target, CI, DiskReads

\* A caller asks: nothing is kept of the blocks that are to be written.
LEMMA AskStep ==
    ASSUME AhciInv, NEW op \in {"read", "write", "flush"}, NEW device \in Devices, NEW first \in Nat,
           NEW count \in Nat, NEW data \in Seq(Nat), op = "write" => Len(data) = count,
           Ask(op, device, first, count, data), UNCHANGED ahciVars
    PROVE  AhciInv'
<1> DEFINE zeros == [i \in 1..Len(data) |-> 0]
           asked == [op |-> op, asked |-> <<device, first>>, device |-> device, first |-> first,
                     count |-> count, data |-> data, stage |-> "check"]
<1>1. /\ call' = asked
      /\ kept' = DiskHolds(kept, Origin[device] + first, zeros)
      /\ UNCHANGED <<block_devices, cached, medium>>
      /\ UNCHANGED <<controller, firmware, identify, port, bounce_page, dma, driver>>
      /\ call.stage \in {"ok", "none"}
  BY DEF Ask, NoneServed, ahciVars
<1>2. Registry(block_devices) /\ kept \in [DiskBlock -> Nat] BY DEF AhciInv, DiskTypeOK
<1>3. device \in 1..Len(block_devices) /\ device \in Nat BY <1>2, RegistryFacts DEF Devices
<1>4. Origin[device] \in Nat
  <2>1. IsOrigin(block_devices, Origin) BY <1>2, OriginIs, OriginNow
  <2> QED BY <1>3, <2>1 DEF IsOrigin
<1>5. Origin' = Origin /\ Devices' = Devices BY <1>1, SameOrigin
<1>6. zeros \in Seq(Nat) /\ Len(zeros) = Len(data) /\ \A i \in 1..Len(data) : zeros[i] = 0
  OBVIOUS
<1>7. /\ kept' \in [DiskBlock -> Nat]
      /\ \A b \in DiskBlock : kept'[b] # 0 => kept'[b] = kept[b]
      /\ op = "write" => \A b \in DiskBlock :
            Origin[device] + first <= b /\ b < Origin[device] + first + count => kept'[b] = 0
  <2> DEFINE at == Origin[device] + first
  <2>1. at \in Nat BY <1>4
  <2> HIDE DEF at, zeros
  <2>2. kept' = DiskHolds(kept, at, zeros) BY <1>1 DEF at
  <2>3. /\ kept' \in [DiskBlock -> Nat]
        /\ \A b \in DiskBlock : ~(at <= b /\ b < at + Len(zeros)) => kept'[b] = kept[b]
        /\ \A b \in DiskBlock : at <= b /\ b < at + Len(zeros) =>
              kept'[b] = zeros[b - at + 1] /\ b - at + 1 \in 1..Len(zeros)
    BY <1>2, <1>6, <2>1, <2>2, HoldsFacts, ZenonT(60)
  <2>4. \A b \in DiskBlock : at <= b /\ b < at + Len(data) => kept'[b] = 0
    BY <1>6, <2>3
  <2> QED BY <1>6, <2>3, <2>4 DEF at
<1>8. asked \in DiskCalls BY <1>3 DEF DiskCalls
<1>9. DiskTypeOK' BY <1>1, <1>7, <1>8 DEF AhciInv, DiskTypeOK
<1>10. /\ call'.stage = "check" /\ call'.op = op /\ call'.asked[1] = device
       /\ call'.asked[2] = first /\ call'.device = device /\ call'.first = first
       /\ call'.count = count /\ call'.data = data
  BY <1>1
<1>11. Target' = Origin[device] + first BY <1>5, <1>10 DEF Target
<1>12. CallOK' BY <1>5, <1>10, <1>11 DEF CallOK
<1>13. KeptOK' BY <1>1, <1>7, <1>10, <1>11 DEF AhciInv, KeptOK
<1>14. driver = "ready"
  BY <1>3, <1>2, RegistryFacts DEF AhciInv, CommandOK
<1>15. CommandOK' BY <1>1, <1>10, <1>14 DEF AhciInv, CommandOK, CI
<1>16. ProgressOK' BY <1>10 DEF ProgressOK
<1> QED BY <1>9, <1>12, <1>13, <1>15, <1>16 DEF AhciInv

\* BLOCK_DEVICE_RESULT_OK reaches the caller, who counts on the data from now on.
LEMMA AnswerStep ==
    ASSUME AhciInv, Answer, UNCHANGED ahciVars
    PROVE  AhciInv'
<1>1. /\ call.stage = "done" /\ call' = [call EXCEPT !.stage = "ok"]
      /\ UNCHANGED <<block_devices, cached, medium>>
      /\ UNCHANGED <<controller, firmware, identify, port, bounce_page, dma, driver>>
  BY DEF Answer, ahciVars
<1>2. Origin' = Origin /\ Devices' = Devices BY <1>1, SameOrigin
<1>3. call \in DiskCalls /\ kept \in [DiskBlock -> Nat] BY DEF AhciInv, DiskTypeOK
<1>4. /\ call' \in DiskCalls /\ call'.stage = "ok" /\ call'.op = call.op
      /\ call'.asked = call.asked /\ call'.device = call.device /\ call'.first = call.first
      /\ call'.count = call.count /\ call'.data = call.data
  BY <1>1, <1>3 DEF DiskCalls
<1>5. Target' = Target BY <1>2, <1>4 DEF Target
<1>6. /\ kept' \in [DiskBlock -> Nat]
      /\ \A b \in DiskBlock : kept'[b] # 0 => cached[b] = kept'[b] /\ medium[b] = kept'[b]
  <2>1. CASE call.op # "write" BY <1>3, <2>1 DEF Answer, AhciInv, KeptOK
  <2>2. CASE call.op = "write"
    <3>1. /\ kept' = DiskHolds(kept, call.first, call.data)
          /\ call.first \in Nat /\ call.data \in Seq(Nat)
          /\ Len(call.data) = call.count
      BY <1>1, <1>3, <2>2, CallFacts DEF Answer, AhciInv, CallOK, Target
    <3>2. Written(cached) /\ Written(medium) BY <1>1, <2>2 DEF AhciInv, ProgressOK
    <3>3. \A b \in DiskBlock : b \in Nat BY BlockDeviceAssumption DEF DiskBlock
    <3>4. kept' \in [DiskBlock -> Nat] BY <1>3, <3>1, HoldsFacts
    <3>5. ASSUME NEW b \in DiskBlock, kept'[b] # 0
          PROVE  cached[b] = kept'[b] /\ medium[b] = kept'[b]
      <4>1. CASE ~(call.first <= b /\ b < call.first + Len(call.data))
        <5>1. kept'[b] = kept[b] BY <1>3, <3>1, <4>1, HoldsFacts
        <5> QED BY <3>5, <5>1 DEF AhciInv, KeptOK
      <4>2. CASE call.first <= b /\ b < call.first + Len(call.data)
        <5> DEFINE i == b - call.first + 1
        <5>1. kept'[b] = call.data[i] /\ i \in 1..Len(call.data) BY <1>3, <3>1, <4>2, HoldsFacts, ZenonT(60)
        <5>2. call.first + i - 1 = b BY <3>1, <3>3
        <5> HIDE DEF i
        <5> QED BY <3>1, <3>2, <5>1, <5>2 DEF Written
      <4> QED BY <4>1, <4>2
    <3> QED BY <3>4, <3>5
  <2> QED BY <2>1, <2>2
<1>7. DiskTypeOK' BY <1>1, <1>4, <1>6 DEF AhciInv, DiskTypeOK
<1>8. CallOK' BY <1>1, <1>2, <1>4, <1>5 DEF AhciInv, CallOK
<1>9. KeptOK' BY <1>1, <1>4, <1>6 DEF AhciInv, KeptOK
<1>10. CommandOK' BY <1>1, <1>4 DEF AhciInv, CommandOK, CI
<1>11. ProgressOK' BY <1>1, <1>4 DEF AhciInv, ProgressOK, DiskReads
<1> QED BY <1>7, <1>8, <1>9, <1>10, <1>11 DEF AhciInv

\* A step that gives the call up.
LEMMA FailedCall ==
    ASSUME AhciInv, call' = NoCall, driver = "ready",
           UNCHANGED <<firmware, identify, port, driver, block_devices, cached, medium, kept>>,
           bounce_page' \in [1..TransferMax -> Nat],
           ~(CI /\ ~port.tfes)
    PROVE  AhciInv'
<1>1. call' \in DiskCalls /\ call'.stage = "none" /\ call'.op = "none"
  BY DEF NoCall, DiskCalls
<1> QED BY <1>1 DEF AhciInv, DiskTypeOK, CallOK, KeptOK, CommandOK, ProgressOK, CI

\* A call passes one device: a slice hands it on, and the block stays the same.
LEMMA CallStep ==
    ASSUME AhciInv, block_device_call, UNCHANGED ahciVars
    PROVE  AhciInv'
<1> DEFINE device == block_devices[call.device]
<1>1. /\ call.stage = "check" /\ UNCHANGED <<block_devices, cached, medium, kept>>
      /\ UNCHANGED <<controller, firmware, identify, port, bounce_page, dma, driver>>
      /\ call' = IF ~RequestValid(device) THEN NoCall
                 ELSE IF device.parent = 0 THEN [call EXCEPT !.stage = "backend"]
                 ELSE IF call.op = "flush" THEN [call EXCEPT !.stage = "done"]
                 ELSE block_device_slice_translate(device)
  BY DEF block_device_call, diskVars, ahciVars
<1>2. Origin' = Origin /\ Devices' = Devices BY <1>1, SameOrigin
<1>3. call \in DiskCalls /\ Registry(block_devices) BY DEF AhciInv, DiskTypeOK
<1>4. /\ call.device \in 1..Len(block_devices)
      /\ device.parent \in Nat /\ device.parent < call.device /\ device.first \in Nat
      /\ device.parent = 0 => device.blocks = DiskBlocks
      /\ Len(block_devices) \in Nat
  BY <1>1, <1>3, RegistryFacts DEF AhciInv, CallOK, Devices
<1>5. driver = "ready" BY <1>1 DEF AhciInv, CommandOK
<1>6. ~(CI /\ ~port.tfes) BY <1>1, <1>5 DEF AhciInv, CommandOK
<1>7. Origin[call.device] = Starts(block_devices, Origin, call.device)
  <2>1. IsOrigin(block_devices, Origin) BY <1>3, OriginIs, OriginNow
  <2> QED BY <1>4, <2>1 DEF IsOrigin
<1>8. CASE call' = NoCall
  BY <1>1, <1>5, <1>6, <1>8, FailedCall DEF AhciInv, DiskTypeOK
<1>9. CASE RequestValid(device) /\ device.parent = 0 /\ call' = [call EXCEPT !.stage = "backend"]
  <2>1. /\ call' \in DiskCalls /\ call'.stage = "backend" /\ call'.op = call.op
        /\ call'.asked = call.asked /\ call'.device = call.device /\ call'.first = call.first
        /\ call'.count = call.count /\ call'.data = call.data
    BY <1>3, <1>9 DEF DiskCalls
  <2>2. Target' = Target BY <1>2, <2>1 DEF Target
  <2>3. Origin[call.device] = 0 BY <1>7, <1>9 DEF Starts
  <2>4. call.first \in Nat /\ call.count \in Nat BY <1>3, CallFacts
  <2>5. call.op # "flush" => /\ Target = call.first /\ call.count > 0
                             /\ call.first + call.count <= DiskBlocks
    BY <1>1, <1>4, <1>9, <2>3, <2>4, BlockDeviceAssumption DEF AhciInv, CallOK, RequestValid
  <2>6. DiskTypeOK' BY <1>1, <2>1 DEF AhciInv, DiskTypeOK
  <2>7. CallOK' BY <1>1, <1>2, <2>1, <2>2, <2>5 DEF AhciInv, CallOK
  <2>8. KeptOK' BY <1>1, <2>1, <2>2 DEF AhciInv, KeptOK
  <2>9. CommandOK' BY <1>1, <1>5, <1>6, <2>1 DEF CommandOK, CI
  <2>10. ProgressOK' BY <2>1 DEF ProgressOK
  <2> QED BY <2>6, <2>7, <2>8, <2>9, <2>10 DEF AhciInv
<1>10. CASE call.op = "flush" /\ call' = [call EXCEPT !.stage = "done"]
  <2>1. /\ call' \in DiskCalls /\ call'.stage = "done" /\ call'.op = "flush"
        /\ call'.asked = call.asked /\ call'.device = call.device /\ call'.first = call.first
    BY <1>3, <1>10 DEF DiskCalls
  <2>2. Target' = Target BY <1>2, <2>1 DEF Target
  <2>3. DiskTypeOK' BY <1>1, <2>1 DEF AhciInv, DiskTypeOK
  <2>4. CallOK' BY <1>1, <1>2, <2>1, <2>2 DEF AhciInv, CallOK
  <2>5. KeptOK' BY <1>1, <2>1 DEF AhciInv, KeptOK
  <2>6. CommandOK' BY <1>1, <1>5, <1>6, <2>1 DEF CommandOK, CI
  <2>7. ProgressOK' BY <2>1 DEF ProgressOK
  <2> QED BY <2>3, <2>4, <2>5, <2>6, <2>7 DEF AhciInv
<1>11. CASE device.parent # 0 /\ call' = block_device_slice_translate(device)
  <2>1. call.first \in Nat BY <1>3, CallFacts
  <2>2. /\ call' \in DiskCalls /\ call'.stage = "check" /\ call'.op = call.op
        /\ call'.asked = call.asked /\ call'.device = device.parent
        /\ call'.first = device.first + call.first
        /\ call'.count = call.count /\ call'.data = call.data
    <3>1. call' = [call EXCEPT !.device = device.parent, !.first = device.first + call.first]
      BY <1>3, <1>11 DEF DiskCalls, block_device_slice_translate
    <3>2. device.parent \in Nat /\ device.first + call.first \in Nat BY <1>4, <2>1
    <3> HIDE DEF device
    <3> QED BY <1>1, <1>3, <3>1, <3>2 DEF DiskCalls
  <2>3. Target' = Target BY <1>2, <2>2 DEF Target
  <2>4. Origin[call.device] = device.first + Origin[device.parent] BY <1>7, <1>11 DEF Starts
  <2>5. Origin[device.parent] \in Nat /\ device.parent \in Devices
    <3>1. IsOrigin(block_devices, Origin) BY <1>3, OriginIs, OriginNow
    <3> QED BY <1>4, <1>11, <3>1 DEF IsOrigin, Devices
  <2>6. Target = Origin[device.parent] + (device.first + call.first)
    BY <1>1, <1>4, <2>1, <2>4, <2>5 DEF AhciInv, CallOK
  <2>7. DiskTypeOK' BY <1>1, <2>2 DEF AhciInv, DiskTypeOK
  <2>8. CallOK' BY <1>1, <1>2, <2>2, <2>3, <2>5, <2>6 DEF AhciInv, CallOK
  <2>9. KeptOK' BY <1>1, <2>2, <2>3 DEF AhciInv, KeptOK
  <2>10. CommandOK' BY <1>1, <1>5, <1>6, <2>2 DEF CommandOK, CI
  <2>11. ProgressOK' BY <2>2 DEF ProgressOK
  <2> QED BY <2>7, <2>8, <2>9, <2>10, <2>11 DEF AhciInv
<1> QED BY <1>1, <1>8, <1>9, <1>10, <1>11

\* ahci_backend_read, ahci_backend_write, ahci_backend_flush: the data goes to
\* the buffer.
LEMMA BackendStep ==
    ASSUME AhciInv, ahci_backend
    PROVE  AhciInv'
<1>1. /\ call.stage = "backend" /\ driver = "ready"
      /\ UNCHANGED <<firmware, identify, port, driver, block_devices, cached, medium, kept>>
  BY DEF ahci_backend, diskVars
<1>2. Origin' = Origin /\ Devices' = Devices BY <1>1, SameOrigin
<1>3. /\ call \in DiskCalls /\ bounce_page \in [1..TransferMax -> Nat]
      /\ identify \in IdentifyData
  BY DEF AhciInv, DiskTypeOK
<1>4. ~(CI /\ ~port.tfes) BY <1>1 DEF AhciInv, CommandOK
<1>5. CASE call' = NoCall /\ UNCHANGED bounce_page
  BY <1>1, <1>3, <1>4, <1>5, FailedCall
<1>6. CASE /\ call.op = "flush" /\ UNCHANGED bounce_page
           /\ call' = [call EXCEPT !.stage = IF identify.write_cache THEN "flush" ELSE "done"]
  <2>1. /\ call' \in DiskCalls /\ call'.stage \in {"flush", "done"} /\ call'.op = "flush"
        /\ call'.asked = call.asked /\ call'.device = call.device /\ call'.first = call.first
    BY <1>3, <1>6 DEF DiskCalls
  <2>2. Target' = Target BY <1>2, <2>1 DEF Target
  <2>3. DiskTypeOK' BY <1>1, <1>3, <1>6, <2>1 DEF AhciInv, DiskTypeOK
  <2>4. CallOK' BY <1>1, <1>2, <2>1, <2>2 DEF AhciInv, CallOK
  <2>5. KeptOK' BY <1>1, <2>1 DEF AhciInv, KeptOK
  <2>6. CommandOK' BY <1>1, <1>4, <2>1 DEF CommandOK, CI
  <2>7. ProgressOK' BY <2>1 DEF ProgressOK
  <2> QED BY <2>3, <2>4, <2>5, <2>6, <2>7 DEF AhciInv
<1>7. CASE /\ call.op # "flush" /\ ~(call.count > TransferMax)
           /\ bounce_page' = [i \in 1..TransferMax |->
                  IF call.op = "read" THEN 0
                  ELSE IF i <= call.count THEN call.data[i] ELSE bounce_page[i]]
           /\ call' = [call EXCEPT !.stage = "issue"]
  <2>1. /\ call' \in DiskCalls /\ call'.stage = "issue" /\ call'.op = call.op
        /\ call'.asked = call.asked /\ call'.device = call.device /\ call'.first = call.first
        /\ call'.count = call.count /\ call'.data = call.data
    BY <1>3, <1>7 DEF DiskCalls
  <2>2. Target' = Target BY <1>2, <2>1 DEF Target
  <2>3. /\ call.count \in Nat /\ call.data \in Seq(Nat) /\ TransferMax \in Nat
        /\ call.op \in {"read", "write"} /\ call.count <= TransferMax
        /\ call.op = "write" => Len(call.data) = call.count
    BY <1>1, <1>3, <1>7, CallFacts, BlockDeviceAssumption DEF AhciInv, CallOK
  <2>4. bounce_page' \in [1..TransferMax -> Nat]
    <3>1. ASSUME NEW i \in 1..TransferMax PROVE bounce_page'[i] \in Nat
      BY <1>3, <1>7, <2>3
    <3> QED BY <1>7, <3>1
  <2>5. call.op = "write" => \A i \in 1..call.count : bounce_page'[i] = call.data[i]
    BY <1>7, <2>3
  <2>6. DiskTypeOK' BY <1>1, <2>1, <2>4 DEF AhciInv, DiskTypeOK
  <2>7. CallOK' BY <1>1, <1>2, <2>1, <2>2, <2>3 DEF AhciInv, CallOK
  <2>8. KeptOK' BY <1>1, <2>1, <2>2 DEF AhciInv, KeptOK
  <2>9. CommandOK' BY <1>1, <1>4, <2>1 DEF CommandOK, CI
  <2>10. ProgressOK' BY <2>1, <2>5 DEF ProgressOK, InBuffer
  <2> QED BY <2>6, <2>7, <2>8, <2>9, <2>10 DEF AhciInv
<1> QED BY <1>5, <1>6, <1>7 DEF ahci_backend, CallFails

\* issue_command: the port gets the command of the call, unless it has one.
LEMMA IssueStep ==
    ASSUME AhciInv, issue_command
    PROVE  AhciInv'
<1> DEFINE command == [kind |-> IF call.stage = "flush" THEN "flush" ELSE call.op,
                       first |-> call.first, count |-> call.count]
<1>1. /\ call.stage \in {"issue", "flush"} /\ driver = "ready"
      /\ UNCHANGED <<firmware, identify, bounce_page, driver, block_devices, cached, medium, kept>>
  BY DEF issue_command, diskVars
<1>2. Origin' = Origin /\ Devices' = Devices BY <1>1, SameOrigin
<1>3. /\ call \in DiskCalls /\ bounce_page \in [1..TransferMax -> Nat]
      /\ port \in PortStates
  BY DEF AhciInv, DiskTypeOK
<1>4. ~(CI /\ ~port.tfes) BY <1>1 DEF AhciInv, CommandOK
<1>5. CASE CI /\ call' = NoCall /\ UNCHANGED port
  BY <1>1, <1>3, <1>4, <1>5, FailedCall
<1>6. CASE /\ CommandIssued(command)
           /\ call' = [call EXCEPT !.stage = IF @ = "flush" THEN "flushing" ELSE "poll"]
  <2>1. /\ call' \in DiskCalls /\ call'.op = call.op
        /\ call'.stage = IF call.stage = "flush" THEN "flushing" ELSE "poll"
        /\ call'.asked = call.asked /\ call'.device = call.device /\ call'.first = call.first
        /\ call'.count = call.count /\ call'.data = call.data
    BY <1>1, <1>3, <1>6 DEF DiskCalls
  <2>2. Target' = Target BY <1>2, <2>1 DEF Target
  <2>3. call.stage = "issue" => call.op \in {"read", "write"} BY DEF AhciInv, CallOK
  <2>4. command \in PortCommands /\ command # NoCommand
    BY <1>1, <1>3, <2>3, CallFacts DEF PortCommands, NoCommand
  <2>5. /\ port' \in PortStates /\ port'.command = command
        /\ port' = [port EXCEPT !.tfes = FALSE, !.command = command]
    <3> HIDE DEF command
    <3> QED BY <1>3, <1>6, <2>4 DEF CommandIssued, PortStates
  <2>6. CI' BY <2>4, <2>5 DEF CI
  <2>7. DiskTypeOK' BY <1>1, <2>1, <2>5 DEF AhciInv, DiskTypeOK
  <2>8. CallOK' BY <1>1, <1>2, <2>1, <2>2 DEF AhciInv, CallOK
  <2>9. KeptOK' BY <1>1, <2>1, <2>2 DEF AhciInv, KeptOK
  <2>10. CommandOK'
    <3>1. CASE call.stage = "flush" BY <1>1, <2>1, <2>5, <3>1 DEF CommandOK
    <3>2. CASE call.stage = "issue" BY <1>1, <2>1, <2>5, <3>2 DEF CommandOK
    <3> QED BY <1>1, <3>1, <3>2
  <2>11. ProgressOK' BY <1>1, <2>1, <2>6 DEF AhciInv, ProgressOK, InBuffer, Written
  <2> QED BY <2>7, <2>8, <2>9, <2>10, <2>11 DEF AhciInv
<1> QED BY <1>5, <1>6 DEF issue_command, CallFails

\* The polling ends in time: with the command carried out, or with an error.
LEMMA PollStep ==
    ASSUME AhciInv, ~SlowDisk, PollEnds
    PROVE  AhciInv'
<1>1. /\ call.stage \in {"poll", "flushing"} /\ driver = "ready"
      /\ UNCHANGED <<firmware, identify, port, bounce_page, driver, block_devices, cached, medium,
                     kept>>
      /\ ~(CI /\ ~port.tfes)
  BY DEF PollEnds, diskVars, ahciVars
<1>2. Origin' = Origin /\ Devices' = Devices BY <1>1, SameOrigin
<1>3. /\ call \in DiskCalls /\ bounce_page \in [1..TransferMax -> Nat] /\ identify \in IdentifyData
  BY DEF AhciInv, DiskTypeOK
<1>4. CASE CI
  <2>1. call' = NoCall BY <1>4 DEF PollEnds, CallFails
  <2> QED BY <1>1, <1>3, <2>1, FailedCall
<1>5. CASE ~CI
  <2> DEFINE stage == IF call.stage = "poll" /\ call.op = "write" /\ identify.write_cache
                        THEN "flush" ELSE "done"
             data == IF call.op = "read" THEN SubSeq(bounce_page, 1, call.count) ELSE call.data
  <2>1. call' = [call EXCEPT !.stage = stage, !.data = data]
    BY <1>3, <1>5 DEF PollEnds, CommandComplete, DiskCalls
  <2>2. /\ call.first \in Nat /\ call.count \in Nat /\ call.data \in Seq(Nat)
        /\ TransferMax \in Nat
    BY <1>3, CallFacts, BlockDeviceAssumption
  <2>3. call.op = "read" => /\ call.count <= TransferMax /\ call.stage = "poll"
    BY <1>1 DEF AhciInv, CallOK
  <2>4. call.op = "read" =>
           /\ SubSeq(bounce_page, 1, call.count) = [i \in 1..call.count |-> bounce_page[i]]
           /\ SubSeq(bounce_page, 1, call.count) \in Seq(Nat)
    <3> SUFFICES ASSUME call.op = "read"
                 PROVE  /\ SubSeq(bounce_page, 1, call.count) = [i \in 1..call.count |-> bounce_page[i]]
                        /\ SubSeq(bounce_page, 1, call.count) \in Seq(Nat)
      OBVIOUS
    <3>1. bounce_page \in Seq(Nat) /\ Len(bounce_page) = TransferMax BY <1>3, <2>2
    <3>2. SubSeq(bounce_page, 1, call.count) = [i \in 1..call.count |-> bounce_page[i]]
      BY <2>2, <2>3, <3>1
    <3>3. \A i \in 1..call.count : bounce_page[i] \in Nat BY <1>3, <2>2, <2>3
    <3> QED BY <2>2, <3>2, <3>3
  <2>5. data \in Seq(Nat) /\ stage \in {"flush", "done"} BY <2>2, <2>4
  <2>6. stage = "flush" => call.op = "write" OBVIOUS
  <2>7. call.op # "read" => data = call.data OBVIOUS
  <2>8. call.op = "read" => data = DiskReads(call.first, call.count)
    <3> SUFFICES ASSUME call.op = "read" PROVE data = DiskReads(call.first, call.count) OBVIOUS
    <3>1. \A i \in 1..call.count : bounce_page[i] = cached[call.first + i - 1]
      BY <1>5, <2>3 DEF AhciInv, ProgressOK
    <3> QED BY <2>4, <3>1 DEF DiskReads
  <2>9. call.op = "write" /\ stage = "done" => Written(medium)
    <3> SUFFICES ASSUME call.op = "write", stage = "done" PROVE Written(medium) OBVIOUS
    <3>1. CASE call.stage = "flushing" BY <1>5, <3>1 DEF AhciInv, ProgressOK
    <3>2. CASE call.stage = "poll"
      <4>1. ~identify.write_cache BY <3>2
      <4>2. Written(cached) /\ medium = cached BY <1>5, <3>2, <4>1 DEF AhciInv, ProgressOK, KeptOK
      <4> QED BY <4>2
    <3> QED BY <1>1, <3>1, <3>2
  <2>10. call.op = "write" => Written(cached) BY <1>1, <1>5 DEF AhciInv, ProgressOK
  <2> HIDE DEF stage, data
  <2>11. /\ call' \in DiskCalls /\ call'.op = call.op /\ call'.stage = stage /\ call'.data = data
         /\ call'.asked = call.asked /\ call'.device = call.device /\ call'.first = call.first
         /\ call'.count = call.count
    BY <1>3, <2>1, <2>5 DEF DiskCalls
  <2>12. Target' = Target BY <1>2, <2>11 DEF Target
  <2>13. DiskTypeOK' BY <1>1, <2>11 DEF AhciInv, DiskTypeOK
  <2>14. CallOK' BY <1>1, <1>2, <2>5, <2>6, <2>7, <2>11, <2>12 DEF AhciInv, CallOK
  <2>15. KeptOK' BY <1>1, <2>5, <2>11, <2>12 DEF AhciInv, KeptOK
  <2>16. CommandOK' BY <1>1, <2>11 DEF CommandOK, CI
  <2>17. DiskReads(call.first, call.count)' = DiskReads(call.first, call.count)
    BY <1>1, <2>11 DEF DiskReads
  <2>18. call.op = "write" => Written(cached)' /\ (stage = "done" => Written(medium)')
    BY <1>1, <2>7, <2>9, <2>10, <2>11 DEF Written
  <2>19. ProgressOK' BY <1>1, <2>5, <2>8, <2>11, <2>17, <2>18 DEF ProgressOK
  <2> QED BY <2>13, <2>14, <2>15, <2>16, <2>19 DEF AhciInv
<1> QED BY <1>4, <1>5

\* The port carries out its command: that of IDENTIFY, or the one of the call.
LEMMA CompletesStep ==
    ASSUME AhciInv, PortCompletes
    PROVE  AhciInv'
<1> DEFINE c == port.command
<1>1. /\ CI /\ ~port.tfes
      /\ port' = [port EXCEPT !.command = NoCommand]
      /\ bounce_page' = [i \in 1..TransferMax |->
            IF c.kind = "read" /\ i <= c.count THEN cached[c.first + i - 1] ELSE bounce_page[i]]
      /\ cached' = IF c.kind # "write" THEN cached
                   ELSE DiskHolds(cached, c.first, SubSeq(bounce_page, 1, c.count))
      /\ medium' = IF c.kind = "flush" \/ ~identify.write_cache THEN cached' ELSE medium
      /\ UNCHANGED <<firmware, identify, driver, block_devices, call, kept>>
  BY DEF PortCompletes
<1>2. Origin' = Origin /\ Devices' = Devices BY <1>1, SameOrigin
<1>3. /\ call \in DiskCalls /\ bounce_page \in [1..TransferMax -> Nat] /\ identify \in IdentifyData
      /\ port \in PortStates /\ cached \in [DiskBlock -> Nat] /\ medium \in [DiskBlock -> Nat]
  BY DEF AhciInv, DiskTypeOK
<1>4. /\ call.first \in Nat /\ call.count \in Nat /\ call.data \in Seq(Nat) /\ TransferMax \in Nat
  BY <1>3, CallFacts, BlockDeviceAssumption
<1>5. port' \in PortStates /\ ~CI'
  <2>1. NoCommand \in PortCommands BY DEF NoCommand, PortCommands
  <2> QED BY <1>1, <1>3, <2>1 DEF PortStates, CI
<1>6. CallOK' /\ Target' = Target BY <1>1, <1>2 DEF AhciInv, CallOK, Target
<1>7. CommandOK'
  BY <1>1, <1>5 DEF AhciInv, CommandOK
<1>8. CASE c.kind \notin {"read", "write"}
  <2>1. cached' = cached BY <1>1, <1>8
  <2>2. bounce_page' = bounce_page
    <3>1. \A i \in 1..TransferMax : bounce_page'[i] = bounce_page[i] BY <1>1, <1>8
    <3> QED BY <1>1, <1>3, <3>1
  <2>3. medium' \in {medium, cached}
        /\ (~identify.write_cache => medium' = cached) /\ (c.kind = "flush" => medium' = cached)
    BY <1>1, <2>1
  <2>4. DiskTypeOK' BY <1>1, <1>3, <1>5, <2>1, <2>2, <2>3 DEF AhciInv, DiskTypeOK
  <2>5. KeptOK' BY <1>1, <1>6, <2>1, <2>3 DEF AhciInv, KeptOK
  <2>6. driver = "ready" => call.stage = "flushing" /\ c.kind = "flush"
    <3> SUFFICES ASSUME driver = "ready" PROVE call.stage = "flushing" /\ c.kind = "flush" OBVIOUS
    <3>1. CASE call.stage = "poll" /\ c = [kind |-> call.op, first |-> call.first, count |-> call.count]
      <4>1. call.op \in {"read", "write"} BY <3>1 DEF AhciInv, CallOK
      <4>2. c.kind = call.op BY <3>1
      <4> QED BY <1>8, <4>1, <4>2
    <3> QED BY <1>1, <3>1 DEF AhciInv, CommandOK
  <2>7. driver # "ready" => call.op = "none" BY DEF AhciInv, CommandOK, CallOK
  <2>8. ProgressOK'
    <3>1. CASE driver # "ready" BY <1>1, <2>7, <3>1 DEF ProgressOK
    <3>2. CASE driver = "ready"
      <4>1. call.stage = "flushing" /\ medium' = cached BY <2>3, <2>6, <3>2
      <4>2. call.op = "write" => Written(cached) BY <4>1 DEF AhciInv, ProgressOK
      <4>3. call.op = "write" => Written(cached)' /\ Written(medium)'
        BY <1>1, <2>1, <4>1, <4>2 DEF Written
      <4> QED BY <1>1, <4>1, <4>3 DEF ProgressOK
    <3> QED BY <3>1, <3>2
  <2> QED BY <1>6, <1>7, <2>4, <2>5, <2>8 DEF AhciInv
<1>9. CASE c.kind \in {"read", "write"}
  <2>1. driver = "ready" /\ call.stage = "poll"
        /\ c = [kind |-> call.op, first |-> call.first, count |-> call.count]
    BY <1>1, <1>9 DEF AhciInv, CommandOK
  <2>2. c.kind = call.op /\ c.first = call.first /\ c.count = call.count BY <2>1
  <2>3. /\ call.op \in {"read", "write"} /\ call.count <= TransferMax
        /\ call.op = "write" => Len(call.data) = call.count
        /\ Target = call.first
    BY <2>1 DEF AhciInv, CallOK
  <2>4. \A i \in 1..call.count : call.first + i - 1 \in DiskBlock
    BY <2>1, <2>3, BlocksOfCall DEF AhciInv
  <2>5. CASE call.op = "read"
    <3>1. cached' = cached BY <1>1, <2>2, <2>5
    <3>2. bounce_page' \in [1..TransferMax -> Nat]
      <4>1. ASSUME NEW i \in 1..TransferMax PROVE bounce_page'[i] \in Nat
        <5>1. CASE i <= call.count BY <1>1, <1>3, <1>4, <2>2, <2>4, <2>5, <5>1
        <5>2. CASE ~(i <= call.count) BY <1>1, <1>3, <1>4, <2>2, <5>2
        <5> QED BY <5>1, <5>2
      <4> QED BY <1>1, <4>1
    <3>3. \A i \in 1..call.count : bounce_page'[i] = cached[call.first + i - 1]
      BY <1>1, <1>4, <2>2, <2>3, <2>5
    <3>4. medium' \in {medium, cached} /\ (~identify.write_cache => medium' = cached)
      BY <1>1, <3>1
    <3>5. DiskTypeOK' BY <1>1, <1>3, <1>5, <3>1, <3>2, <3>4 DEF AhciInv, DiskTypeOK
    <3>6. KeptOK' BY <1>1, <1>6, <2>5, <3>1, <3>4 DEF AhciInv, KeptOK
    <3>7. ProgressOK' BY <1>1, <2>1, <2>5, <3>1, <3>3 DEF ProgressOK
    <3> QED BY <1>6, <1>7, <3>5, <3>6, <3>7 DEF AhciInv
  <2>6. CASE call.op = "write"
    <3> DEFINE d == SubSeq(bounce_page, 1, call.count)
    <3>1. d \in Seq(Nat) /\ Len(d) = call.count
          /\ \A i \in 1..call.count : d[i] = bounce_page[i]
      <4>1. bounce_page \in Seq(Nat) /\ Len(bounce_page) = TransferMax BY <1>3, <1>4
      <4> QED BY <1>4, <2>3, <4>1
    <3>2. cached' = DiskHolds(cached, call.first, d) BY <1>1, <2>2, <2>6
    <3>3. InBuffer BY <1>1, <2>1, <2>6 DEF AhciInv, ProgressOK
    <3> HIDE DEF d
    <3>4. /\ cached' \in [DiskBlock -> Nat]
          /\ \A b \in DiskBlock : ~(call.first <= b /\ b < call.first + call.count) =>
                cached'[b] = cached[b]
          /\ \A i \in 1..call.count : cached'[call.first + i - 1] = d[i]
      <4>1. /\ DiskHolds(cached, call.first, d) \in [DiskBlock -> Nat]
            /\ \A b \in DiskBlock : ~(call.first <= b /\ b < call.first + Len(d)) =>
                 DiskHolds(cached, call.first, d)[b] = cached[b]
            /\ \A i \in 1..Len(d) : call.first + i - 1 \in DiskBlock =>
                 DiskHolds(cached, call.first, d)[call.first + i - 1] = d[i]
        BY <1>3, <1>4, <3>1, HoldsFacts, ZenonT(60)
      <4> QED BY <2>4, <3>1, <3>2, <4>1
    <3>5. bounce_page' = bounce_page
      <4>1. \A i \in 1..TransferMax : bounce_page'[i] = bounce_page[i] BY <1>1, <2>2, <2>6
      <4> QED BY <1>1, <1>3, <4>1
    <3>6. medium' \in {medium, cached'} /\ (~identify.write_cache => medium' = cached')
      BY <1>1
    <3>7. DiskTypeOK' BY <1>1, <1>3, <1>5, <3>4, <3>5, <3>6 DEF AhciInv, DiskTypeOK
    <3>8. ASSUME NEW b \in DiskBlock, kept[b] # 0 PROVE cached'[b] = kept[b]
      <4>1. ~(call.first <= b /\ b < call.first + call.count)
        BY <2>1, <2>3, <2>6, <3>8 DEF AhciInv, KeptOK
      <4> QED BY <3>4, <3>8, <4>1 DEF AhciInv, KeptOK
    <3>9. KeptOK' BY <1>1, <1>6, <3>6, <3>8 DEF AhciInv, KeptOK
    <3>10. Written(cached)' BY <1>1, <3>1, <3>3, <3>4 DEF Written, InBuffer
    <3>11. ProgressOK' BY <1>1, <1>5, <2>1, <2>6, <3>10 DEF ProgressOK
    <3> QED BY <1>6, <1>7, <3>7, <3>9, <3>11 DEF AhciInv
  <2> QED BY <2>3, <2>5, <2>6
<1> QED BY <1>8, <1>9

\* An error: the port keeps the command and does nothing more.
LEMMA PortFailsStep ==
    ASSUME AhciInv, PortFails
    PROVE  AhciInv'
<1>1. /\ CI /\ port' = [port EXCEPT !.tfes = TRUE]
      /\ UNCHANGED <<firmware, identify, bounce_page, driver, block_devices, call, cached, medium, kept>>
  BY DEF PortFails, deviceVars, diskVars
<1>2. Origin' = Origin /\ Devices' = Devices BY <1>1, SameOrigin
<1>3. port \in PortStates BY DEF AhciInv, DiskTypeOK
<1>4. port' \in PortStates /\ port'.command = port.command /\ port'.tfes
  BY <1>1, <1>3 DEF PortStates
<1>5. CI' <=> CI BY <1>4 DEF CI
<1>6. DiskTypeOK' BY <1>1, <1>4 DEF AhciInv, DiskTypeOK
<1>7. CallOK' /\ KeptOK' BY <1>1, <1>2 DEF AhciInv, CallOK, KeptOK, Target
<1>8. CommandOK' BY <1>1, <1>4, <1>5 DEF AhciInv, CommandOK
<1>9. ProgressOK' BY <1>1, <1>5 DEF AhciInv, ProgressOK, InBuffer, Written, DiskReads
<1> QED BY <1>6, <1>7, <1>8, <1>9 DEF AhciInv

\* Every step of a disk that is never slow keeps the invariant.
LEMMA AhciStep ==
    ASSUME ~SlowDisk
    PROVE  AhciInv /\ [AhciNext]_<<deviceVars, ahciVars>> => AhciInv'
<1> SUFFICES ASSUME AhciInv, [AhciNext]_<<deviceVars, ahciVars>> PROVE AhciInv' OBVIOUS
<1>1. CASE UNCHANGED <<deviceVars, ahciVars>>
  <2>1. Origin' = Origin /\ Devices' = Devices BY <1>1, SameOrigin DEF deviceVars
  <2> QED BY <1>1, <2>1 DEF deviceVars, diskVars, ahciVars, AhciInv, DiskTypeOK, CallOK, KeptOK,
        CommandOK, ProgressOK, Written, InBuffer, Target, CI, DiskReads
<1>2. ASSUME DeviceNext, UNCHANGED ahciVars PROVE AhciInv'
  <2>1. ASSUME NEW device \in Devices, NEW first \in 0..DiskBlocks, NEW count \in 0..(TransferMax + 1),
               Ask("read", device, first, count, <<>>)
        PROVE  AhciInv'
    <3>1. first \in Nat /\ count \in Nat /\ <<>> \in Seq(Nat) BY BlockDeviceAssumption
    <3> QED BY <1>2, <2>1, <3>1, AskStep
  <2>2. ASSUME NEW device \in Devices, NEW first \in 0..DiskBlocks, NEW count \in 0..(TransferMax + 1),
               NEW data \in [1..count -> Datum], Ask("write", device, first, count, data)
        PROVE  AhciInv'
    <3>1. first \in Nat /\ count \in Nat /\ Datum \subseteq Nat BY BlockDeviceAssumption
    <3>2. data \in Seq(Nat) /\ Len(data) = count
      <4>1. data = [i \in 1..count |-> data[i]] /\ \A i \in 1..count : data[i] \in Nat BY <3>1
      <4> QED BY <3>1, <4>1
    <3> QED BY <1>2, <2>2, <3>1, <3>2, AskStep
  <2>3. ASSUME NEW device \in Devices, Ask("flush", device, 0, 0, <<>>) PROVE AhciInv'
    <3>1. <<>> \in Seq(Nat) OBVIOUS
    <3> QED BY <1>2, <2>3, <3>1, AskStep
  <2> QED BY <1>2, <2>1, <2>2, <2>3, SliceStep, CallStep, AnswerStep DEF DeviceNext
<1> QED BY <1>1, <1>2, ControllerStep, BlockInitStep, IdentifyStep, BackendStep, IssueStep,
        PollStep, CompletesStep, PortFailsStep DEF AhciNext

\* What a caller of the block layer got OK for is on the medium of the SATA disk,
\* at the place of the slice it asked, through any depth of slices and any
\* sequence of calls, errors and failed initializations (ahci_block.c,
\* block_slice.c), when the disk is done before the polling gives up.
THEOREM AhciOkMeansDurable ==
    ASSUME ~SlowDisk
    PROVE  AhciSpec => []OkMeansDurable
<1>1. AhciInv => OkMeansDurable
  <2> SUFFICES ASSUME AhciInv PROVE OkMeansDurable OBVIOUS
  <2>1. call.stage = "ok" /\ call.op = "read" =>
           call.data = DiskReads(Origin[call.asked[1]] + call.asked[2], call.count)
    BY DEF AhciInv, ProgressOK, CallOK, Target
  <2> QED BY <2>1 DEF AhciInv, KeptOK, OkMeansDurable
<1> QED BY AhciInitOK, AhciStep, <1>1, PTL DEF AhciSpec

----------------------------------------------------------------------------
(* The frames of the port                                                  *)

\* The frames are the driver's as long as the port may have a command, and a
\* controller that is not taken over has the firmware's registers.
FramesInv ==
    /\ controller \in HbaRegisters /\ firmware \in HbaRegisters /\ ~firmware.ready
    /\ ~controller.ready => controller = firmware
    /\ driver \in {"off", "identify", "ready"}
    /\ driver = "off" => ~CI
    /\ driver # "off" => dma = DmaFrames

\* The port never works on frames that were given back, and a failed ahci_init
\* leaves the registers as they were, when the port stops as it is told to
\* (cleanup_failed_init of ahci_block.c, rollback of ahci.c).
THEOREM PortKeepsToItsFramesAlways ==
    ASSUME EngineStops
    PROVE  AhciSpec => []PortKeepsToItsFrames
<1>1. DeviceInit /\ AhciInit => FramesInv
  <2> SUFFICES ASSUME AhciInit PROVE FramesInv OBVIOUS
  <2>1. PICK given \in BOOLEAN :
           firmware = [memory |-> given, owned |-> given, mode |-> given, ready |-> FALSE]
    BY DEF AhciInit
  <2> QED BY <2>1 DEF AhciInit, FramesInv, HbaRegisters, CI, FirmwarePort
<1>2. FramesInv /\ [AhciNext]_<<deviceVars, ahciVars>> => FramesInv'
  <2> SUFFICES ASSUME FramesInv, [AhciNext]_<<deviceVars, ahciVars>> PROVE FramesInv' OBVIOUS
  <2>1. CASE UNCHANGED ahciVars BY <2>1 DEF FramesInv, ahciVars, CI
  <2>2. ASSUME NEW failing, ahci_init(failing) PROVE FramesInv'
    <3>1. UNCHANGED <<firmware, port, dma, driver>> /\ ~controller.ready
      BY <2>2 DEF ahci_init, portVars
    <3>2. CASE failing = "none"
      <4>1. controller' = Reached(failing) BY <2>2, <3>2 DEF ahci_init
      <4>2. controller' \in HbaRegisters /\ controller'.ready
        BY <3>2, <4>1 DEF Reached, FramesInv, HbaRegisters
      <4> QED BY <3>1, <4>2 DEF FramesInv, CI
    <3>3. CASE failing # "none"
      <4>1. controller' = rollback(Reached(failing)) BY <2>2, <3>3 DEF ahci_init
      <4>2. controller' = [memory |-> firmware.memory, owned |-> firmware.owned,
                           mode |-> firmware.mode, ready |-> FALSE]
        BY <4>1 DEF rollback, Reached, FramesInv, HbaRegisters
      <4>3. firmware = [memory |-> firmware.memory, owned |-> firmware.owned,
                        mode |-> firmware.mode, ready |-> FALSE]
        BY DEF FramesInv, HbaRegisters
      <4>4. controller' = firmware BY <4>2, <4>3
      <4> QED BY <3>1, <4>4 DEF FramesInv, CI
    <3> QED BY <3>2, <3>3
  <2>3. ASSUME cleanup_failed_init, UNCHANGED <<controller, firmware>> PROVE FramesInv'
    <3>1. port' = FirmwarePort /\ driver' = "off" BY <2>3 DEF cleanup_failed_init, restore_port
    <3>2. ~CI' BY <3>1 DEF FirmwarePort, CI
    <3> QED BY <2>3, <3>1, <3>2 DEF FramesInv
  <2>4. ASSUME NEW failing \in {"port", "pci", "map", "frames", "stop", "start", "none"},
               ahci_block_init(failing)
        PROVE  FramesInv'
    <3>1. UNCHANGED <<controller, firmware>> BY <2>4 DEF ahci_block_init
    <3>2. CASE failing \in {"port", "pci", "map"}
      BY <2>4, <3>1, <3>2 DEF ahci_block_init, FramesInv, CI, portVars
    <3>3. CASE failing \in {"frames", "stop", "start"}
      BY <2>3, <2>4, <3>1, <3>3 DEF ahci_block_init
    <3>4. CASE failing = "none"
      <4>1. driver' = "identify" /\ dma' = DmaFrames BY <2>4, <3>4 DEF ahci_block_init
      <4> QED BY <3>1, <4>1 DEF FramesInv
    <3> QED BY <3>2, <3>3, <3>4
  <2>5. ASSUME NEW valid \in BOOLEAN, IdentifyReturns(valid) PROVE FramesInv'
    <3>1. UNCHANGED <<controller, firmware>> /\ driver = "identify" BY <2>5 DEF IdentifyReturns
    <3>2. CASE driver' = "ready" /\ UNCHANGED dma BY <3>1, <3>2 DEF FramesInv
    <3> QED BY <2>3, <2>5, <3>1, <3>2 DEF IdentifyReturns
  <2>6. CASE ahci_backend \/ issue_command
    BY <2>6 DEF ahci_backend, issue_command, FramesInv
  <2>7. CASE PollEnds BY <2>1, <2>7 DEF PollEnds
  <2>8. CASE PortCompletes \/ PortFails
    BY <2>8 DEF PortCompletes, PortFails, FramesInv
  <2> QED BY <2>1, <2>2, <2>4, <2>5, <2>6, <2>7, <2>8 DEF AhciNext
<1>3. FramesInv => PortKeepsToItsFrames BY DEF FramesInv, PortKeepsToItsFrames
<1> QED BY <1>1, <1>2, <1>3, PTL DEF AhciSpec

----------------------------------------------------------------------------
(* The input stream: the inductive invariant                               *)

Events ==
    [type : {"key"}, code : Key, down : BOOLEAN, modifiers : SUBSET DOMAIN Modifier,
     repeat : BOOLEAN, for : Process]
    \cup [type : {"move"}, modifiers : SUBSET DOMAIN Modifier, for : Process]
    \cup [type : {"button"}, code : Button, down : BOOLEAN,
          modifiers : SUBSET DOMAIN Modifier, for : Process]

Places == {"user", "read_empty", "read_halted", "read_woken",
           "event_polled", "event_halted", "event_woken"}

\* Type invariant.
InputTypeOK ==
    /\ alive \subseteq Process /\ blocked \subseteq alive
    /\ cpu \in (alive \ blocked) \cup {NoProcess}
    /\ pc \in [Process -> Places]
    /\ owner \in alive \cup {NoProcess}
    /\ owner_waiting \in BOOLEAN
    /\ queue \in Seq(Events)
    /\ held \subseteq Key
    /\ dropped_events \in 0..DroppedMax
    /\ buttons \subseteq Button
    /\ glitched \in BOOLEAN
    /\ ret \in {"none", "events"}

\* Where the two waiting loops may stand: inside them a process has the CPU,
\* except in EVENT_WAIT after it gave it up; between the test of the queue and
\* the end of the sleep the queue of the owner is empty.
LoopsOK ==
    /\ \A p \in Process : pc[p] \notin {"user", "event_woken"} => cpu = p /\ owner = p
    /\ \A p \in Process :
          pc[p] \in {"read_empty", "read_halted", "event_polled", "event_halted"}
              => queue = <<>>
    /\ \A p \in blocked : pc[p] = "event_woken" /\ (owner = p => queue = <<>>)
    /\ owner_waiting => owner # NoProcess /\ pc[owner] \in {"read_halted", "read_woken"}

\* Two events of one key or of one button.
SameKind(e, f) == e.type # "move" /\ e.type = f.type /\ e.code = f.code

\* What a later event of the same kind says, and what the last one says of the
\* keys H held and the buttons B down.  g: the decoder was reset.
Follows(e, f, g) ==
    IF e.type = "key" THEN f.repeat <=> (e.down /\ f.down) ELSE g \/ (f.down <=> ~e.down)
Tells(e, H, B, g) ==
    IF e.type = "key" THEN e.down <=> e.code \in H ELSE g \/ (e.down <=> e.code \in B)

Chained(q, g) ==
    \A i, j \in 1..Len(q) :
        /\ i < j /\ SameKind(q[i], q[j])
        /\ \A k \in (i + 1)..(j - 1) : ~SameKind(q[i], q[k])
        => Follows(q[i], q[j], g)

Final(q, H, B, g) ==
    \A i \in 1..Len(q) :
        /\ q[i].type # "move"
        /\ \A k \in (i + 1)..Len(q) : ~SameKind(q[i], q[k])
        => Tells(q[i], H, B, g)

\* A stream of the owner o.
States == [queue : Seq(Events), dropped : 0..DroppedMax, waiting : BOOLEAN]
Stream(st, o, H, B, g) ==
    /\ Len(st.queue) <= QueueCapacity
    /\ \A i \in 1..Len(st.queue) : st.queue[i].for = o
    /\ st.dropped = 0 => Chained(st.queue, g) /\ Final(st.queue, H, B, g)

\* The queue is true to what was typed for the owner; without one it is empty.
StreamOK ==
    /\ Stream(Current, owner, held, buttons, glitched)
    /\ modifiers = input_modifier_mask(held)
    /\ owner = NoProcess => queue = <<>> /\ held = {}

InputInv == InputTypeOK /\ LoopsOK /\ StreamOK

----------------------------------------------------------------------------
(* Events                                                                  *)

\* The fields of an event.
LEMMA EventFacts ==
    ASSUME NEW e \in Events
    PROVE  /\ e.type \in {"key", "move", "button"}
           /\ e.type # "move" => e.down \in BOOLEAN
           /\ e.type = "key" => e.code \in Key /\ e.repeat \in BOOLEAN
           /\ e.type = "button" => e.code \in Button
           /\ e.for \in Process
BY DEF Events

\* What an event may say in front of H and B, and what it makes of them.
Fits(e, H, B, H2, B2, g) ==
    /\ e.type = "key" => (e.repeat <=> (e.down /\ e.code \in H))
    /\ e.type = "button" => g \/ (e.down <=> e.code \notin B)
    /\ e.type # "move" => Tells(e, H2, B2, g)
    /\ \A k : (e.type # "key" \/ e.code # k) => (k \in H <=> k \in H2)
    /\ \A k : (e.type # "button" \/ e.code # k) => (k \in B <=> k \in B2)

\* A queue that is true stays true when a fitting event is appended.
LEMMA AppendKeeps ==
    ASSUME NEW q \in Seq(Events), NEW e \in Events, NEW H, NEW B, NEW H2, NEW B2,
           NEW g \in BOOLEAN,
           Chained(q, g), Final(q, H, B, g), Fits(e, H, B, H2, B2, g)
    PROVE  Chained(Append(q, e), g) /\ Final(Append(q, e), H2, B2, g)
<1> DEFINE r == Append(q, e)
           n == Len(q)
<1>1. n \in Nat /\ Len(r) = n + 1 /\ r[n + 1] = e /\ \A i \in 1..n : r[i] = q[i] OBVIOUS
<1>2. \A i \in 1..n : q[i] \in Events OBVIOUS
<1> HIDE DEF r, n
<1>3. ASSUME NEW i \in 1..n, q[i].type # "move",
             \A k \in (i + 1)..n : ~SameKind(r[i], r[k])
      PROVE  Tells(q[i], H, B, g)
  <2>1. \A k \in (i + 1)..n : ~SameKind(q[i], q[k]) BY <1>1, <1>3
  <2> QED BY <1>3, <2>1 DEF Final, n
<1>4. Chained(r, g)
  <2> SUFFICES ASSUME NEW i \in 1..(n + 1), NEW j \in 1..(n + 1), i < j,
                      SameKind(r[i], r[j]),
                      \A k \in (i + 1)..(j - 1) : ~SameKind(r[i], r[k])
               PROVE  Follows(r[i], r[j], g)
    BY <1>1 DEF Chained
  <2>1. CASE j <= n
    <3>1. i \in 1..n /\ j \in 1..n BY <1>1, <2>1
    <3>2. SameKind(q[i], q[j]) /\ \A k \in (i + 1)..(j - 1) : ~SameKind(q[i], q[k])
      BY <1>1, <3>1
    <3>3. Follows(q[i], q[j], g) BY <3>1, <3>2 DEF Chained, n
    <3> QED BY <1>1, <3>1, <3>3
  <2>2. CASE j = n + 1
    <3>1. i \in 1..n /\ r[i] = q[i] /\ r[j] = e BY <1>1, <2>2
    <3>2. \A k \in (i + 1)..n : ~SameKind(r[i], r[k]) BY <1>1, <2>2
    <3>3. Tells(q[i], H, B, g) BY <1>3, <3>1, <3>2 DEF SameKind
    <3>4. q[i] \in Events BY <1>2, <3>1
    <3>5. SameKind(q[i], e) BY <3>1
    <3>6. Follows(q[i], e, g)
      BY <3>3, <3>4, <3>5, EventFacts DEF Fits, SameKind, Follows, Tells
    <3> QED BY <3>1, <3>6
  <2> QED BY <1>1, <2>1, <2>2
<1>5. Final(r, H2, B2, g)
  <2> SUFFICES ASSUME NEW i \in 1..(n + 1), r[i].type # "move",
                      \A k \in (i + 1)..(n + 1) : ~SameKind(r[i], r[k])
               PROVE  Tells(r[i], H2, B2, g)
    BY <1>1 DEF Final
  <2>1. CASE i = n + 1 BY <1>1, <2>1 DEF Fits
  <2>2. CASE i \in 1..n
    <3>1. r[i] = q[i] /\ q[i] \in Events BY <1>1, <1>2, <2>2
    <3>2. n + 1 \in (i + 1)..(n + 1) BY <1>1, <2>2
    <3>3. ~SameKind(q[i], e) BY <1>1, <3>1, <3>2
    <3>4. Tells(q[i], H, B, g) BY <1>1, <1>3, <2>2, <3>1
    <3>5. Tells(q[i], H2, B2, g)
      BY <3>1, <3>3, <3>4, EventFacts DEF Fits, SameKind, Tells
    <3> QED BY <3>1, <3>5
  <2> QED BY <1>1, <2>1, <2>2
<1> QED BY <1>4, <1>5 DEF r

\* A queue that is true stays true when its oldest events are taken.
LEMMA TakeKeeps ==
    ASSUME NEW q \in Seq(Events), NEW n \in Nat, NEW H, NEW B, NEW g
    PROVE  LET r == SubSeq(q, n + 1, Len(q))
           IN  /\ r \in Seq(Events) /\ Len(r) <= Len(q)
               /\ \A i \in 1..Len(r) : i + n \in 1..Len(q) /\ r[i] = q[i + n]
               /\ Chained(q, g) => Chained(r, g)
               /\ Final(q, H, B, g) => Final(r, H, B, g)
<1> DEFINE r == SubSeq(q, n + 1, Len(q))
<1>1. /\ Len(q) \in Nat
      /\ r \in Seq(Events)
      /\ Len(r) = IF n + 1 <= Len(q) THEN Len(q) - n ELSE 0
      /\ \A i \in 1..Len(r) : r[i] = q[n + i]
  <2>1. CASE n + 1 <= Len(q) BY <2>1
  <2>2. CASE n + 1 > Len(q)
    <3>1. r = <<>> BY <2>2
    <3> QED BY <2>2, <3>1
  <2> QED BY <2>1, <2>2
<1> HIDE DEF r
<1>2. \A i \in 1..Len(r) : i + n \in 1..Len(q) /\ r[i] = q[i + n]
  BY <1>1
<1>3. ASSUME Chained(q, g) PROVE Chained(r, g)
  <2> SUFFICES ASSUME NEW i \in 1..Len(r), NEW j \in 1..Len(r), i < j,
                      SameKind(r[i], r[j]),
                      \A k \in (i + 1)..(j - 1) : ~SameKind(r[i], r[k])
               PROVE  Follows(r[i], r[j], g)
    BY DEF Chained
  <2>1. \A k \in (i + n + 1)..(j + n - 1) : ~SameKind(q[i + n], q[k])
    <3> TAKE k \in (i + n + 1)..(j + n - 1)
    <3>1. k - n \in (i + 1)..(j - 1) /\ k - n \in 1..Len(r) /\ (k - n) + n = k BY <1>1
    <3>2. r[k - n] = q[k] BY <1>2, <3>1
    <3> QED BY <1>2, <3>1, <3>2
  <2>2. SameKind(q[i + n], q[j + n]) BY <1>2
  <2>3. i + n < j + n OBVIOUS
  <2>4. Follows(q[i + n], q[j + n], g) BY <1>2, <1>3, <2>1, <2>2, <2>3 DEF Chained
  <2> QED BY <1>2, <2>4
<1>4. ASSUME Final(q, H, B, g) PROVE Final(r, H, B, g)
  <2> SUFFICES ASSUME NEW i \in 1..Len(r), r[i].type # "move",
                      \A k \in (i + 1)..Len(r) : ~SameKind(r[i], r[k])
               PROVE  Tells(r[i], H, B, g)
    BY DEF Final
  <2>1. \A k \in (i + n + 1)..Len(q) : ~SameKind(q[i + n], q[k])
    <3> TAKE k \in (i + n + 1)..Len(q)
    <3>1. k - n \in (i + 1)..Len(r) /\ k - n \in 1..Len(r) /\ (k - n) + n = k BY <1>1
    <3>2. r[k - n] = q[k] BY <1>2, <3>1
    <3> QED BY <1>2, <3>1, <3>2
  <2>2. Tells(q[i + n], H, B, g) BY <1>2, <1>4, <2>1 DEF Final
  <2> QED BY <1>2, <2>2
<1>5. Len(r) <= Len(q) BY <1>1
<1> QED BY <1>1, <1>2, <1>3, <1>4, <1>5 DEF r
----------------------------------------------------------------------------
(* Pushing                                                                 *)

\* A push keeps the stream true, and never sets the wait flag.
LEMMA PushKeeps ==
    ASSUME NEW st \in States, NEW e \in Events, NEW o, NEW H, NEW B, NEW H2, NEW B2,
           NEW g \in BOOLEAN,
           Stream(st, o, H, B, g), e.for = o, Fits(e, H, B, H2, B2, g)
    PROVE  /\ input_push(st, e) \in States
           /\ Stream(input_push(st, e), o, H2, B2, g)
           /\ input_push(st, e).waiting => st.waiting
<1>0. /\ st.queue \in Seq(Events) /\ st.dropped \in 0..DroppedMax /\ st.waiting \in BOOLEAN
      /\ DroppedMax \in Nat \ {0} /\ QueueCapacity \in Nat \ {0}
  BY InputAssumption DEF States
<1>1. CASE Len(st.queue) = QueueCapacity
  <2> DEFINE d == IF st.dropped = DroppedMax THEN st.dropped ELSE st.dropped + 1
             t == [st EXCEPT !.dropped = d]
  <2>1. input_push(st, e) = t BY <1>1 DEF input_push
  <2>2. d \in 0..DroppedMax /\ d # 0 BY <1>0
  <2> HIDE DEF d
  <2>3. /\ t \in States /\ t.queue = st.queue /\ t.waiting = st.waiting /\ t.dropped = d
    BY <2>2 DEF States
  <2> HIDE DEF t
  <2>4. Stream(t, o, H2, B2, g) BY <2>2, <2>3 DEF Stream
  <2> QED BY <1>0, <2>1, <2>3, <2>4
<1>2. CASE Len(st.queue) # QueueCapacity
  <2> DEFINE r == Append(st.queue, e)
             t == [st EXCEPT !.queue = r, !.waiting = FALSE]
  <2>1. input_push(st, e) = t BY <1>2 DEF input_push
  <2>2. r \in Seq(Events) /\ Len(r) = Len(st.queue) + 1 BY <1>0
  <2>3. Len(st.queue) \in Nat /\ Len(r) <= QueueCapacity BY <1>0, <1>2, <2>2 DEF Stream
  <2>4. \A i \in 1..Len(r) : r[i].for = o
    <3>1. \A i \in 1..Len(r) : IF i <= Len(st.queue) THEN r[i] = st.queue[i] ELSE r[i] = e
      BY <1>0, <2>2
    <3>2. \A i \in 1..Len(r) : i <= Len(st.queue) => i \in 1..Len(st.queue) BY <2>3
    <3> HIDE DEF r
    <3> QED BY <3>1, <3>2 DEF Stream
  <2>5. st.dropped = 0 => Chained(r, g) /\ Final(r, H2, B2, g)
    BY <1>0, AppendKeeps DEF Stream
  <2> HIDE DEF r
  <2>6. t \in States /\ t.queue = r /\ t.waiting = FALSE /\ t.dropped = st.dropped
    BY <2>2 DEF States
  <2> HIDE DEF t
  <2>7. Stream(t, o, H2, B2, g) BY <2>3, <2>4, <2>5, <2>6 DEF Stream
  <2> QED BY <2>1, <2>6, <2>7
<1> QED BY <1>1, <1>2

\* The record that the interrupt handlers fold over, at its start, is the state.
LEMMA CurrentFacts ==
    ASSUME InputTypeOK
    PROVE  /\ Current \in States
           /\ Current.queue = queue /\ Current.dropped = dropped_events
           /\ Current.waiting = owner_waiting
BY DEF InputTypeOK, Current, States

\* input_modifier_mask gives bits of modifier keys only.
LEMMA MaskFacts == \A h : input_modifier_mask(h) \subseteq DOMAIN Modifier
BY DEF input_modifier_mask

\* A key transition.
LEMMA KeyKeeps ==
    ASSUME InputInv, owner # NoProcess, NEW k \in Key, NEW down \in BOOLEAN,
           NEW H2, H2 = IF down THEN held \cup {k} ELSE held \ {k},
           NEW e, e = KeyEvent(k, down, input_modifier_mask(H2), down /\ k \in held)
    PROVE  /\ input_push(Current, e) \in States
           /\ Stream(input_push(Current, e), owner, H2, buttons, glitched)
           /\ input_push(Current, e).waiting => owner_waiting
<1>1. owner \in Process /\ glitched \in BOOLEAN BY DEF InputInv, InputTypeOK
<1>2. input_modifier_mask(H2) \in SUBSET DOMAIN Modifier BY MaskFacts
<1>3. e \in Events /\ e.for = owner /\ e.type = "key" /\ e.code = k /\ e.down = down
      /\ e.repeat = (down /\ k \in held)
  BY <1>1, <1>2 DEF KeyEvent, Events
<1>4. Fits(e, held, buttons, H2, buttons, glitched) BY <1>3 DEF Fits, Tells
<1>5. Current \in States /\ Current.waiting = owner_waiting
  BY CurrentFacts DEF InputInv
<1>6. Stream(Current, owner, held, buttons, glitched) BY DEF InputInv, StreamOK
<1> QED BY <1>1, <1>3, <1>4, <1>5, <1>6, PushKeeps

\* The movement of a packet.
LEMMA MoveKeeps ==
    ASSUME InputInv, owner # NoProcess, NEW st \in States, NEW B,
           Stream(st, owner, held, B, glitched)
    PROVE  LET t == boring_input_submit_mouse_move(st)
           IN  t \in States /\ Stream(t, owner, held, B, glitched) /\ (t.waiting => st.waiting)
<1> DEFINE e == [type |-> "move", modifiers |-> modifiers, for |-> owner]
<1>1. owner \in Process /\ glitched \in BOOLEAN /\ modifiers \in SUBSET DOMAIN Modifier
  BY MaskFacts DEF InputInv, InputTypeOK, StreamOK
<1>2. e \in Events /\ e.for = owner /\ e.type = "move" BY <1>1 DEF Events
<1>3. boring_input_submit_mouse_move(st) = input_push(st, e)
  BY DEF boring_input_submit_mouse_move
<1> HIDE DEF e
<1>4. Fits(e, held, B, held, B, glitched) BY <1>2 DEF Fits
<1>5. /\ input_push(st, e) \in States
      /\ Stream(input_push(st, e), owner, held, B, glitched)
      /\ input_push(st, e).waiting => st.waiting
  BY <1>1, <1>2, <1>4, PushKeeps
<1> QED BY <1>3, <1>5

\* A button of a packet that changed.
LEMMA ButtonKeeps ==
    ASSUME InputInv, owner # NoProcess, NEW st \in States, NEW B, NEW B2,
           NEW b \in Button, NEW down \in BOOLEAN,
           Stream(st, owner, held, B, glitched),
           down <=> b \notin B, down <=> b \in B2,
           \A c : c # b => (c \in B <=> c \in B2)
    PROVE  LET t == boring_input_submit_mouse_button(st, b, down)
           IN  t \in States /\ Stream(t, owner, held, B2, glitched) /\ (t.waiting => st.waiting)
<1> DEFINE e == [type |-> "button", code |-> b, down |-> down,
                 modifiers |-> modifiers, for |-> owner]
<1>1. owner \in Process /\ glitched \in BOOLEAN /\ modifiers \in SUBSET DOMAIN Modifier
  BY MaskFacts DEF InputInv, InputTypeOK, StreamOK
<1>2. e \in Events /\ e.for = owner /\ e.type = "button" /\ e.code = b /\ e.down = down
  BY <1>1 DEF Events
<1>3. boring_input_submit_mouse_button(st, b, down) = input_push(st, e)
  BY DEF boring_input_submit_mouse_button
<1> HIDE DEF e
<1>4. Fits(e, held, B, held, B2, glitched) BY <1>2 DEF Fits, Tells
<1>5. /\ input_push(st, e) \in States
      /\ Stream(input_push(st, e), owner, held, B2, glitched)
      /\ input_push(st, e).waiting => st.waiting
  BY <1>1, <1>2, <1>4, PushKeeps
<1> QED BY <1>3, <1>5

\* The buttons the stream tells of after the first n of a packet.
Seen(down, n) == {b \in Button : IF b <= n THEN b \in down ELSE b \in buttons}

\* One turn of the loop over the buttons.
PacketTurn(st, i, down) ==
    IF (i \in down) # (i \in buttons)
      THEN boring_input_submit_mouse_button(st, i, i \in down) ELSE st

\* The turn of a mouse packet for one button keeps the queue within its types.
LEMMA PacketTurnState ==
    ASSUME NEW st \in States, NEW i \in Button, NEW down, InputInv, owner # NoProcess
    PROVE  PacketTurn(st, i, down) \in States
<1> DEFINE e == [type |-> "button", code |-> i, down |-> i \in down,
                 modifiers |-> modifiers, for |-> owner]
<1>1. e \in Events
  <2>1. owner \in Process /\ modifiers \in SUBSET DOMAIN Modifier
    BY MaskFacts DEF InputInv, InputTypeOK, StreamOK
  <2> QED BY <2>1 DEF Events
<1> HIDE DEF e
<1>2. input_push(st, e) \in States
  <2>1. DroppedMax \in Nat \ {0} BY InputAssumption
  <2>2. st.queue \in Seq(Events) /\ st.dropped \in 0..DroppedMax BY DEF States
  <2>3. Append(st.queue, e) \in Seq(Events) BY <1>1, <2>2
  <2>4. (IF st.dropped = DroppedMax THEN st.dropped ELSE st.dropped + 1) \in 0..DroppedMax
    BY <2>1, <2>2
  <2> QED BY <2>3, <2>4 DEF input_push, States
<1>3. PacketTurn(st, i, down) = input_push(st, e) \/ PacketTurn(st, i, down) = st
  BY DEF PacketTurn, boring_input_submit_mouse_button, e
<1> QED BY <1>2, <1>3

\* The turn for button n + 1 extends the true stream from the first n buttons to n + 1.
LEMMA PacketTurnKeeps ==
    ASSUME InputInv, owner # NoProcess, NEW down \in SUBSET Button, NEW n \in Nat,
           n + 1 \in Button, NEW st \in States,
           Stream(st, owner, held, Seen(down, n), glitched)
    PROVE  /\ Stream(PacketTurn(st, n + 1, down), owner, held, Seen(down, n + 1), glitched)
           /\ PacketTurn(st, n + 1, down).waiting => st.waiting
<1> DEFINE i == n + 1
<1>1. Button \subseteq Nat BY DEF Button
<1>2. i \in Button /\ i \in Nat BY <1>1
<1>3. \A b \in Button : b # i => (b <= n <=> b <= i) BY <1>1
<1>4. i <= i /\ ~(i <= n) OBVIOUS
<1> HIDE DEF i
<1>5. \A c : c # i => (c \in Seen(down, n) <=> c \in Seen(down, i)) BY <1>3 DEF Seen
<1>6. (i \in Seen(down, n) <=> i \in buttons) /\ (i \in Seen(down, i) <=> i \in down)
  BY <1>2, <1>4 DEF Seen
<1>7. CASE (i \in down) # (i \in buttons)
  <2>1. PacketTurn(st, i, down) = boring_input_submit_mouse_button(st, i, i \in down)
    BY <1>7 DEF PacketTurn
  <2>2. (i \in down) \in BOOLEAN OBVIOUS
  <2>3. (i \in down) <=> i \notin Seen(down, n) BY <1>6, <1>7
  <2>4. (i \in down) <=> i \in Seen(down, i) BY <1>6
  <2>5. /\ Stream(boring_input_submit_mouse_button(st, i, i \in down), owner, held,
                  Seen(down, i), glitched)
        /\ boring_input_submit_mouse_button(st, i, i \in down).waiting => st.waiting
    BY <1>2, <1>5, <2>2, <2>3, <2>4, ButtonKeeps
  <2> QED BY <2>1, <2>5 DEF i
<1>8. CASE (i \in down) = (i \in buttons)
  <2>1. PacketTurn(st, i, down) = st BY <1>8 DEF PacketTurn
  <2>2. Seen(down, i) = Seen(down, n)
    <3>1. \A c : c \in Seen(down, n) <=> c \in Seen(down, i) BY <1>5, <1>6, <1>8
    <3> QED BY <3>1
  <2> QED BY <2>1, <2>2 DEF i
<1> QED BY <1>7, <1>8

\* The packet: the loop of i8042_emit_mouse_packet.
LEMMA PacketKeeps ==
    ASSUME InputInv, owner # NoProcess, NEW moved \in BOOLEAN, NEW down \in SUBSET Button
    PROVE  LET st == i8042_emit_mouse_packet(moved, down)
           IN  /\ st \in States
               /\ Stream(st, owner, held, down, glitched)
               /\ st.waiting => owner_waiting
<1> DEFINE first == IF moved THEN boring_input_submit_mouse_move(Current) ELSE Current
           F == [x \in States \X (1..ButtonMax) |-> PacketTurn(x[1], x[2], down)]
<1>0. ButtonMax \in Nat /\ Button = 1..ButtonMax BY InputAssumption DEF Button
<1>1. first \in States /\ Stream(first, owner, held, buttons, glitched)
      /\ (first.waiting => owner_waiting)
  <2>1. Current \in States /\ Current.waiting = owner_waiting
    BY CurrentFacts DEF InputInv
  <2>2. Stream(Current, owner, held, buttons, glitched) BY DEF InputInv, StreamOK
  <2> QED BY <2>1, <2>2, MoveKeeps
<1>2. \A st \in States, i \in 1..ButtonMax :
          F[<<st, i>>] = PacketTurn(st, i, down) /\ F[<<st, i>>] \in States
  <2> SUFFICES ASSUME NEW st \in States, NEW i \in 1..ButtonMax
               PROVE  F[<<st, i>>] = PacketTurn(st, i, down) /\ F[<<st, i>>] \in States
    OBVIOUS
  <2>1. F[<<st, i>>] = PacketTurn(st, i, down) OBVIOUS
  <2>2. PacketTurn(st, i, down) \in States BY <1>0, PacketTurnState
  <2> QED BY <2>1, <2>2
<1> HIDE DEF F
<1>3. PICK g : Iterates(g, F, States, first, ButtonMax)
  <2>1. StaysIn(F, States, ButtonMax) BY <1>2 DEF StaysIn
  <2> HIDE DEF first
  <2> QED BY <1>0, <1>1, <2>1, Iteration
<1>4. /\ g \in [0..ButtonMax -> States] /\ g[0] = first
      /\ \A i \in 1..ButtonMax : g[i] = PacketTurn(g[i - 1], i, down)
  <2> HIDE DEF first
  <2>1. /\ g \in [0..ButtonMax -> States] /\ g[0] = first
        /\ \A i \in 1..ButtonMax : g[i] = F[<<g[i - 1], i>>]
    BY <1>3 DEF Iterates
  <2>2. \A i \in 1..ButtonMax : g[i - 1] \in States BY <1>0, <2>1
  <2> QED BY <1>2, <2>1, <2>2
\* The function of the definition exists, since g is one.
<1> DEFINE sent == CHOOSE h : h = [i \in 0..ButtonMax |->
                      IF i = 0 THEN first ELSE PacketTurn(h[i - 1], i, down)]
<1>5. g = [i \in 0..ButtonMax |-> IF i = 0 THEN first ELSE PacketTurn(g[i - 1], i, down)]
  <2> HIDE DEF first
  <2> QED BY <1>0, <1>4
<1>6. sent = [i \in 0..ButtonMax |-> IF i = 0 THEN first ELSE PacketTurn(sent[i - 1], i, down)]
  <2> HIDE DEF first
  <2> QED BY <1>5
<1>7. i8042_emit_mouse_packet(moved, down) = sent[ButtonMax]
  BY DEF i8042_emit_mouse_packet, PacketTurn
<1> HIDE DEF sent, first
<1>8. /\ sent[0] = first
      /\ \A i \in 1..ButtonMax : sent[i] = PacketTurn(sent[i - 1], i, down)
  BY <1>0, <1>6
<1> DEFINE Kept(n) == /\ sent[n] \in States
                      /\ Stream(sent[n], owner, held, Seen(down, n), glitched)
                      /\ sent[n].waiting => owner_waiting
           N == {n \in Nat : n <= ButtonMax => Kept(n)}
<1>9. 0 \in N
  <2>1. buttons \subseteq Button BY DEF InputInv, InputTypeOK
  <2>2. \A b \in Button : ~(b <= 0) BY <1>0
  <2>3. Seen(down, 0) = buttons BY <2>1, <2>2 DEF Seen
  <2> QED BY <1>1, <1>8, <2>3
<1>10. ASSUME NEW n \in Nat, n \in N PROVE n + 1 \in N
  <2> SUFFICES ASSUME n + 1 <= ButtonMax PROVE Kept(n + 1) OBVIOUS
  <2>1. Kept(n) BY <1>0, <1>10
  <2>2. n + 1 \in 1..ButtonMax /\ n + 1 \in Button /\ (n + 1) - 1 = n BY <1>0
  <2>3. sent[n + 1] = PacketTurn(sent[n], n + 1, down) BY <1>8, <2>2
  <2>4. PacketTurn(sent[n], n + 1, down) \in States BY <2>1, <2>2, PacketTurnState
  <2>5. /\ Stream(PacketTurn(sent[n], n + 1, down), owner, held, Seen(down, n + 1), glitched)
        /\ PacketTurn(sent[n], n + 1, down).waiting => sent[n].waiting
    BY <2>1, <2>2, PacketTurnKeeps
  <2> QED BY <2>1, <2>3, <2>4, <2>5
<1>11. ButtonMax \in N
  <2> HIDE DEF N
  <2>1. Nat \subseteq N BY <1>9, <1>10, SetInduction
  <2> QED BY <1>0, <2>1
<1>12. Kept(ButtonMax) BY <1>0, <1>11
<1>13. Seen(down, ButtonMax) = down
  <2>1. \A b \in Button : b <= ButtonMax BY <1>0
  <2> QED BY <2>1 DEF Seen
<1> QED BY <1>7, <1>12, <1>13
----------------------------------------------------------------------------
(* The steps                                                               *)

\* The empty queue, with nobody in a waiting loop.
LEMMA InitInv == InputInit => InputInv
<1> SUFFICES ASSUME InputInit PROVE InputInv OBVIOUS
<1>1. InputTypeOK
  <2>1. dropped_events \in 0..DroppedMax BY InputAssumption DEF InputInit
  <2>2. pc \in [Process -> Places] BY DEF InputInit, Places
  <2>3. queue \in Seq(Events) BY DEF InputInit
  <2> QED BY <2>1, <2>2, <2>3 DEF InputInit, InputTypeOK
<1>2. LoopsOK BY DEF InputInit, LoopsOK
<1>3. StreamOK
  <2>1. Current.queue = <<>> /\ queue = <<>> /\ held = {} /\ modifiers = {}
    BY DEF Current, InputInit
  <2>2. QueueCapacity \in Nat BY InputAssumption
  <2>3. Len(Current.queue) = 0 /\ \A i \in 1..0 : FALSE BY <2>1
  <2>4. Stream(Current, owner, held, buttons, glitched)
    BY <2>2, <2>3 DEF Stream, Chained, Final
  <2>5. input_modifier_mask({}) = {} BY DEF input_modifier_mask
  <2> QED BY <2>1, <2>4, <2>5 DEF StreamOK
<1> QED BY <1>1, <1>2, <1>3 DEF InputInv

\* A step that leaves the stream and the mouse alone.
LEMMA StreamLeft ==
    ASSUME StreamOK, UNCHANGED <<stateVars, mouseVars>>
    PROVE  StreamOK'
<1>1. Current' = Current BY DEF Current, stateVars
<1> QED BY <1>1 DEF StreamOK, stateVars, mouseVars

\* An empty queue, and no key held.
LEMMA StreamEmptied ==
    ASSUME queue' = <<>>, held' = {}, modifiers' = {}
    PROVE  StreamOK'
<1>1. (Current.queue)' = <<>> BY DEF Current
<1>2. QueueCapacity \in Nat BY InputAssumption
<1>3. (Len(Current.queue))' = 0 /\ \A i \in 1..0 : FALSE BY <1>1
<1>4. Stream(Current, owner, held, buttons, glitched)'
  BY <1>2, <1>3 DEF Stream, Chained, Final
<1>5. input_modifier_mask({}) = {} BY DEF input_modifier_mask
<1> QED BY <1>4, <1>5 DEF StreamOK

\* An interrupt finds no process between the test of the queue and the sleep.
LEMMA IrqLoops ==
    ASSUME InputInv, x86_64_interrupts_enabled, AfterHalt, UNCHANGED <<alive, cpu, owner>>,
           \A p \in blocked' : p \in blocked /\ (owner = p => queue' = <<>>),
           owner_waiting' => owner_waiting
    PROVE  LoopsOK' /\ pc' \in [Process -> Places]
<1>1. cpu \in Process /\ pc \in [Process -> Places] /\ blocked \subseteq Process
  BY DEF InputInv, InputTypeOK, x86_64_interrupts_enabled
<1>2. /\ pc[cpu] \in {"user", "read_halted", "event_halted"}
      /\ pc'[cpu] = IF pc[cpu] = "read_halted" THEN "read_woken"
                    ELSE IF pc[cpu] = "event_halted" THEN "event_woken" ELSE "user"
      /\ \A p \in Process : p # cpu => pc'[p] = pc[p]
      /\ pc' \in [Process -> Places]
  BY <1>1 DEF x86_64_interrupts_enabled, AfterHalt, Places
<1>3. \A p \in Process : p # cpu => pc[p] \in {"user", "event_woken"}
  BY DEF InputInv, LoopsOK
<1>4. \A p \in Process : pc'[p] \notin {"user", "event_woken"} => cpu' = p /\ owner' = p
  BY <1>1, <1>2, <1>3 DEF InputInv, LoopsOK
<1>5. \A p \in Process :
         pc'[p] \notin {"read_empty", "read_halted", "event_polled", "event_halted"}
  BY <1>1, <1>2, <1>3
<1>6. \A p \in blocked' : pc'[p] = "event_woken" /\ (owner' = p => queue' = <<>>)
  <2>1. cpu \notin blocked BY DEF InputInv, InputTypeOK, x86_64_interrupts_enabled
  <2> QED BY <1>1, <1>2, <2>1 DEF InputInv, LoopsOK
<1>7. owner_waiting' => owner' # NoProcess /\ pc'[owner'] \in {"read_halted", "read_woken"}
  <2> SUFFICES ASSUME owner_waiting'
               PROVE  owner' # NoProcess /\ pc'[owner'] \in {"read_halted", "read_woken"}
    OBVIOUS
  <2>1. owner # NoProcess /\ pc[owner] \in {"read_halted", "read_woken"} /\ owner \in Process
    BY DEF InputInv, LoopsOK, InputTypeOK
  <2>2. owner = cpu BY <1>3, <2>1
  <2> QED BY <1>2, <2>1, <2>2
<1>8. \A p \in Process :
         pc'[p] \in {"read_empty", "read_halted", "event_polled", "event_halted"}
             => queue' = <<>>
  BY <1>5
<1> QED BY <1>2, <1>4, <1>6, <1>7, <1>8 DEF LoopsOK

\* boring_event_input_irq leaves asleep only who has nothing to read.
LEMMA WakeFacts ==
    ASSUME InputInv, boring_event_input_irq
    PROVE  /\ blocked' \subseteq blocked
           /\ \A p \in blocked' : p \in blocked /\ (owner = p => queue' = <<>>)
<1>1. NoProcess \notin blocked BY InputAssumption DEF InputInv, InputTypeOK
<1> QED BY <1>1 DEF boring_event_input_irq

\* An interrupt that pushes st.
LEMMA IrqTypes ==
    ASSUME InputInv, UNCHANGED <<alive, cpu, owner, ret>>, blocked' \subseteq blocked,
           pc' \in [Process -> Places],
           NEW st \in States, Apply(st), held' \subseteq Key, buttons' \subseteq Button,
           glitched' \in BOOLEAN
    PROVE  /\ InputTypeOK'
           /\ Current' = [queue |-> st.queue, dropped |-> st.dropped, waiting |-> st.waiting]
<1>1. queue' \in Seq(Events) /\ dropped_events' \in 0..DroppedMax /\ owner_waiting' \in BOOLEAN
  BY DEF States, Apply
<1>2. alive' \subseteq Process /\ blocked' \subseteq alive' BY DEF InputInv, InputTypeOK
<1>3. cpu' \in (alive' \ blocked') \cup {NoProcess} BY DEF InputInv, InputTypeOK
<1>4. owner' \in alive' \cup {NoProcess} /\ ret' \in {"none", "events"}
  BY DEF InputInv, InputTypeOK
<1> QED BY <1>1, <1>2, <1>3, <1>4 DEF InputTypeOK, Current, Apply

\* Stream depends on the three fields of the record only.
LEMMA StreamOf ==
    ASSUME NEW st \in States, NEW o, NEW H, NEW B, NEW g, Stream(st, o, H, B, g)
    PROVE  Stream([queue |-> st.queue, dropped |-> st.dropped, waiting |-> st.waiting], o, H, B, g)
BY DEF Stream

\* A keyboard interrupt: the event queued, its repeat flag and its modifiers are true,
\* and the owner is woken.
LEMMA KeyboardStep ==
    ASSUME InputInv, NEW k \in Key, NEW down \in BOOLEAN, KeyboardIrq(k, down)
    PROVE  InputInv'
<1> DEFINE e == KeyEvent(k, down, input_modifier_mask(held'), down /\ k \in held)
           st == input_push(Current, e)
<1> USE DEF KeyboardIrq
<1>1. /\ held' = IF down THEN held \cup {k} ELSE held \ {k}
      /\ modifiers' = input_modifier_mask(held')
      /\ Apply(st)
      /\ owner # NoProcess
  BY DEF boring_input_submit_key, Owned
<1>2. st \in States /\ Stream(st, owner, held', buttons, glitched)
      /\ (st.waiting => owner_waiting)
  BY <1>1, KeyKeeps
<1> HIDE DEF st
<1>3. held' \subseteq Key BY <1>1 DEF InputInv, InputTypeOK
<1>4. owner_waiting' => owner_waiting BY <1>1, <1>2 DEF Apply
<1>5. LoopsOK' /\ pc' \in [Process -> Places] BY <1>4, IrqLoops, WakeFacts
<1>6. UNCHANGED <<buttons, glitched>> BY DEF mouseVars
<1>7. buttons' \subseteq Button /\ glitched' \in BOOLEAN BY <1>6 DEF InputInv, InputTypeOK
<1>8. /\ InputTypeOK'
      /\ Current' = [queue |-> st.queue, dropped |-> st.dropped, waiting |-> st.waiting]
  BY <1>1, <1>2, <1>3, <1>5, <1>7, IrqTypes, WakeFacts
<1>9. Stream(Current, owner, held, buttons, glitched)'
  BY <1>2, <1>6, <1>8, StreamOf
<1>10. StreamOK' BY <1>1, <1>9 DEF StreamOK
<1> QED BY <1>5, <1>8, <1>10 DEF InputInv

\* A mouse packet, which may queue a motion and an event per button.
LEMMA MouseStep ==
    ASSUME InputInv, NEW moved \in BOOLEAN, NEW down \in SUBSET Button, MouseIrq(moved, down)
    PROVE  InputInv'
<1> DEFINE st == IF Owned THEN i8042_emit_mouse_packet(moved, down) ELSE Current
<1> USE DEF MouseIrq
<1>1. Apply(st) /\ buttons' = down /\ UNCHANGED <<owner, held, modifiers, glitched>> OBVIOUS
<1>2. st \in States /\ Stream(st, owner, held, down, glitched)
      /\ (st.waiting => owner_waiting) /\ (owner = NoProcess => st.queue = <<>>)
  <2>1. CASE Owned BY <2>1, PacketKeeps DEF Owned
  <2>2. CASE ~Owned
    <3>1. st = Current BY <2>2
    <3>2. Current \in States /\ Current.queue = <<>> /\ Current.waiting = owner_waiting
      BY <2>2, CurrentFacts DEF Owned, InputInv, StreamOK
    <3>3. QueueCapacity \in Nat /\ Len(Current.queue) = 0 /\ \A i \in 1..0 : FALSE
      BY <3>2, InputAssumption
    <3>4. Stream(Current, owner, held, down, glitched)
      BY <3>3 DEF Stream, Chained, Final
    <3> QED BY <3>1, <3>2, <3>4
  <2> QED BY <2>1, <2>2
<1> HIDE DEF st
<1>3. held' \subseteq Key BY <1>1 DEF InputInv, InputTypeOK
<1>4. owner_waiting' => owner_waiting BY <1>1, <1>2 DEF Apply
<1>5. LoopsOK' /\ pc' \in [Process -> Places] BY <1>4, IrqLoops, WakeFacts
<1>6. buttons' \subseteq Button /\ glitched' \in BOOLEAN BY <1>1 DEF InputInv, InputTypeOK
<1>7. /\ InputTypeOK'
      /\ Current' = [queue |-> st.queue, dropped |-> st.dropped, waiting |-> st.waiting]
  BY <1>1, <1>2, <1>3, <1>5, <1>6, IrqTypes, WakeFacts
<1>8. Stream(Current, owner, held, buttons, glitched)'
  BY <1>1, <1>2, <1>7, StreamOf
<1>9. StreamOK'
  <2>1. modifiers' = input_modifier_mask(held)' BY <1>1 DEF InputInv, StreamOK
  <2>2. owner' = NoProcess => queue' = <<>> /\ held' = {}
    BY <1>1, <1>2 DEF Apply, InputInv, StreamOK
  <2> QED BY <1>8, <2>1, <2>2 DEF StreamOK
<1> QED BY <1>5, <1>7, <1>9 DEF InputInv

\* A mouse packet with a line error resets the decoder and queues nothing.
LEMMA MouseErrorStep == ASSUME InputInv, MouseErrorIrq PROVE InputInv'
<1> USE DEF MouseErrorIrq
<1>1. UNCHANGED <<owner, owner_waiting, queue, held, modifiers, dropped_events>>
  BY DEF stateVars
<1>2. LoopsOK' /\ pc' \in [Process -> Places] BY <1>1, IrqLoops, WakeFacts
<1>3. Current' = Current BY <1>1 DEF Current
<1>4. held' \subseteq Key /\ buttons' \subseteq Button /\ glitched' \in BOOLEAN
  BY <1>1 DEF InputInv, InputTypeOK
<1>5. InputTypeOK'
  <2>1. blocked' \subseteq blocked BY WakeFacts
  <2> QED BY <1>1, <1>2, <1>4, <2>1 DEF InputInv, InputTypeOK
<1>6. Stream(Current, owner, held, {}, TRUE)
  <2>1. Stream(Current, owner, held, buttons, glitched) /\ Current.queue = queue
    BY CurrentFacts DEF InputInv, StreamOK
  <2>2. ASSUME Chained(queue, glitched) PROVE Chained(queue, TRUE)
    BY <2>2 DEF Chained, Follows
  <2>3. ASSUME Final(queue, held, buttons, glitched) PROVE Final(queue, held, {}, TRUE)
    BY <2>3 DEF Final, Tells
  <2> QED BY <2>1, <2>2, <2>3 DEF Stream
<1>7. StreamOK' BY <1>1, <1>3, <1>6 DEF InputInv, StreamOK
<1> QED BY <1>2, <1>5, <1>7 DEF InputInv

\* A timer tick wakes who sleeps in EVENT_WAIT.
LEMMA TimerStep == ASSUME InputInv, timer_handle_irq PROVE InputInv'
<1> USE DEF timer_handle_irq
<1>1. UNCHANGED <<owner, owner_waiting, queue, held, modifiers, dropped_events, buttons, glitched>>
  BY DEF stateVars, mouseVars
<1>2. \A p \in blocked' : p \in blocked /\ (owner = p => queue' = <<>>)
  BY <1>1 DEF InputInv, LoopsOK
<1>3. LoopsOK' /\ pc' \in [Process -> Places] BY <1>1, <1>2, IrqLoops
<1>4. InputTypeOK' BY <1>1, <1>3 DEF InputInv, InputTypeOK
<1>5. StreamOK' BY StreamLeft DEF InputInv
<1> QED BY <1>3, <1>4, <1>5 DEF InputInv

\* In Ring 3 the CPU's process waits for nothing, and nobody else is inside a
\* loop, except for the sleepers of EVENT_WAIT.
LEMMA UserFacts ==
    ASSUME InputInv, NEW p \in Process, Calling(p)
    PROVE  /\ cpu = p /\ p \in alive /\ p \notin blocked /\ pc[p] = "user"
           /\ \A q \in Process : pc[q] \in {"user", "event_woken"}
           /\ owner_waiting = FALSE
<1>1. cpu = p /\ p \in alive /\ p \notin blocked /\ pc[p] = "user"
  BY DEF Calling, Running, Ready
<1>2. \A q \in Process : pc[q] \in {"user", "event_woken"}
  BY <1>1 DEF InputInv, LoopsOK
<1>3. owner # NoProcess => owner \in Process BY DEF InputInv, InputTypeOK
<1>4. owner_waiting = FALSE BY <1>2, <1>3 DEF InputInv, LoopsOK, InputTypeOK
<1> QED BY <1>1, <1>2, <1>4

\* A process gives up the CPU in Ring 3.
LEMMA YieldStep == ASSUME InputInv, NEW p \in Process, yield(p) PROVE InputInv'
<1> USE DEF yield
<1>1. UNCHANGED <<owner, owner_waiting, queue, held, dropped_events, buttons, glitched>>
  BY DEF stateVars, mouseVars
<1>2. LoopsOK' BY <1>1, UserFacts DEF InputInv, LoopsOK
<1>3. InputTypeOK' BY <1>1 DEF InputInv, InputTypeOK, Ready
<1>4. StreamOK' BY StreamLeft DEF InputInv
<1> QED BY <1>2, <1>3, <1>4 DEF InputInv

\* Changing the owner empties the queue, so that the new owner's stream starts true.
LEMMA HandoverTypes ==
    ASSUME InputInv, NEW o, o \in alive' \cup {NoProcess}, Handover(o),
           alive' \subseteq Process, blocked' \subseteq alive',
           cpu' \in (alive' \ blocked') \cup {NoProcess},
           UNCHANGED <<pc, mouseVars, ret>>
    PROVE  InputTypeOK' /\ StreamOK'
<1>1. StreamOK' BY StreamEmptied DEF Handover
<1>2. InputTypeOK'
  <2>1. queue' \in Seq(Events) BY DEF Handover
  <2> QED BY <2>1 DEF InputInv, InputTypeOK, Handover, mouseVars
<1> QED BY <1>1, <1>2

\* boring_input_claim by a process, with or without success.
LEMMA ClaimStep == ASSUME InputInv, NEW p \in Process, boring_input_claim(p) PROVE InputInv'
<1> USE DEF boring_input_claim
<1>1. InputTypeOK' /\ StreamOK'
  BY UserFacts, HandoverTypes DEF InputInv, InputTypeOK
<1>2. LoopsOK' BY UserFacts DEF InputInv, LoopsOK, Handover
<1> QED BY <1>1, <1>2 DEF InputInv

\* boring_input_release by a process.
LEMMA ReleaseStep == ASSUME InputInv, NEW p \in Process, boring_input_release(p) PROVE InputInv'
<1> USE DEF boring_input_release
<1>1. InputTypeOK' /\ StreamOK' BY HandoverTypes DEF InputInv, InputTypeOK
<1>2. LoopsOK' BY UserFacts DEF InputInv, LoopsOK, Handover
<1> QED BY <1>1, <1>2 DEF InputInv

\* m36_exit: an owner that exits gives the stream up.
LEMMA ExitStep == ASSUME InputInv, NEW p \in Process, m36_exit(p) PROVE InputInv'
<1> USE DEF m36_exit
<1>1. /\ alive' \subseteq Process /\ blocked' \subseteq alive'
      /\ cpu' \in (alive' \ blocked') \cup {NoProcess}
  BY UserFacts DEF InputInv, InputTypeOK, Ready
<1>2. CASE owner = p
  <2>1. InputTypeOK' /\ StreamOK' BY <1>1, <1>2, HandoverTypes
  <2>2. LoopsOK' BY <1>2, UserFacts DEF InputInv, LoopsOK, Handover
  <2> QED BY <2>1, <2>2 DEF InputInv
<1>3. CASE owner # p
  <2>1. UNCHANGED <<owner, owner_waiting, queue, held, dropped_events, buttons, glitched>>
    BY <1>3 DEF stateVars, mouseVars
  <2>2. LoopsOK' BY <2>1, UserFacts DEF InputInv, LoopsOK
  <2>3. InputTypeOK' BY <1>1, <1>3, <2>1 DEF InputInv, InputTypeOK
  <2>4. StreamOK' BY <1>3, StreamLeft DEF InputInv
  <2> QED BY <2>2, <2>3, <2>4 DEF InputInv
<1> QED BY <1>2, <1>3

\* The oldest events leave the queue, and nothing else of the stream changes.
LEMMA TakeStream ==
    ASSUME InputInv, NEW n \in Nat, queue' = SubSeq(queue, n + 1, Len(queue)),
           UNCHANGED <<owner, held, modifiers, dropped_events, mouseVars>>
    PROVE  StreamOK' /\ queue' \in Seq(Events)
<1>1. UNCHANGED <<buttons, glitched>> BY DEF mouseVars
<1>2. /\ queue \in Seq(Events) /\ Stream(Current, owner, held, buttons, glitched)
      /\ Current.queue = queue /\ Current.dropped = dropped_events
  BY CurrentFacts DEF InputInv, InputTypeOK, StreamOK
<1>3. /\ queue' \in Seq(Events) /\ Len(queue') <= Len(queue)
      /\ \A i \in 1..Len(queue') : i + n \in 1..Len(queue) /\ queue'[i] = queue[i + n]
      /\ Chained(queue, glitched) => Chained(queue', glitched)
      /\ Final(queue, held, buttons, glitched) => Final(queue', held, buttons, glitched)
  BY <1>2, TakeKeeps
<1>4. Len(queue') <= QueueCapacity
  <2>1. Len(queue) \in Nat /\ Len(queue') \in Nat /\ QueueCapacity \in Nat
    BY <1>2, <1>3, InputAssumption
  <2>2. Len(queue) <= QueueCapacity BY <1>2 DEF Stream
  <2> QED BY <1>3, <2>1, <2>2
<1>5. \A i \in 1..Len(queue') : queue'[i].for = owner BY <1>2, <1>3 DEF Stream
<1>6. (Current.queue)' = queue' /\ (Current.dropped)' = dropped_events'
  BY DEF Current
<1>7. Stream(Current, owner, held, buttons, glitched)'
  BY <1>1, <1>2, <1>3, <1>4, <1>5, <1>6 DEF Stream
<1>8. owner' = NoProcess => queue' = <<>> /\ held' = {}
  <2> SUFFICES ASSUME owner' = NoProcess PROVE queue' = <<>> /\ held' = {} OBVIOUS
  <2>1. queue = <<>> /\ held = {} BY DEF InputInv, StreamOK
  <2> QED BY <2>1
<1> QED BY <1>3, <1>7, <1>8 DEF InputInv, StreamOK

\* A turn of the two loops: where the process is afterwards.
LEMMA TurnLoops ==
    ASSUME InputInv, NEW p \in Process, Running(p), NEW to \in Places,
           pc' = [pc EXCEPT ![p] = to],
           UNCHANGED <<alive, blocked, cpu, owner>>,
           to \notin {"user", "event_woken"} => owner = p,
           to \in {"read_empty", "read_halted", "event_polled", "event_halted"}
              => queue' = <<>>,
           queue = <<>> => queue' = <<>>,
           owner_waiting' => owner = p /\ to \in {"read_halted", "read_woken"}
    PROVE  LoopsOK' /\ pc' \in [Process -> Places]
<1>1. cpu = p /\ p \notin blocked /\ blocked \subseteq Process /\ pc \in [Process -> Places]
  BY DEF Running, Ready, InputInv, InputTypeOK
<1>2. \A q \in Process : q # p => pc[q] \in {"user", "event_woken"}
  BY <1>1 DEF InputInv, LoopsOK
<1>3. pc' \in [Process -> Places] /\ pc'[p] = to /\ \A q \in Process : q # p => pc'[q] = pc[q]
  BY <1>1
<1>4. \A q \in Process : pc'[q] \notin {"user", "event_woken"} => cpu' = q /\ owner' = q
  BY <1>1, <1>2, <1>3
<1>5. \A q \in Process :
         pc'[q] \in {"read_empty", "read_halted", "event_polled", "event_halted"}
             => queue' = <<>>
  <2> SUFFICES ASSUME NEW q \in Process,
                      pc'[q] \in {"read_empty", "read_halted", "event_polled", "event_halted"}
               PROVE  queue' = <<>>
    OBVIOUS
  <2>1. q = p BY <1>2, <1>3
  <2> QED BY <1>3, <2>1
<1>6. \A q \in blocked' : pc'[q] = "event_woken" /\ (owner' = q => queue' = <<>>)
  <2>1. \A q \in blocked : q \in Process /\ q # p /\ pc[q] = "event_woken"
                           /\ (owner = q => queue = <<>>)
    BY <1>1 DEF InputInv, LoopsOK
  <2> QED BY <1>3, <2>1
<1>7. owner_waiting' => owner' # NoProcess /\ pc'[owner'] \in {"read_halted", "read_woken"}
  BY <1>3, InputAssumption
<1> QED BY <1>3, <1>4, <1>5, <1>6, <1>7 DEF LoopsOK

\* A pass of the loop of INPUT_READ: it takes an event, or arms and sleeps on an empty
\* queue.
LEMMA ReadTurnKeeps ==
    ASSUME InputInv, NEW p \in Process, Running(p), ReadTurn(p), owner_waiting' = FALSE
    PROVE  InputInv'
<1> USE DEF ReadTurn
<1>1. CASE queue # <<>>
  <2>1. PICK n \in 1..ReadMax : queue' = SubSeq(queue, n + 1, Len(queue))
    BY <1>1
  <2>2. n \in Nat BY InputAssumption
  <2>3. pc' = [pc EXCEPT ![p] = "user"] /\ ret' = "events" BY <1>1
  <2>4. StreamOK' /\ queue' \in Seq(Events) BY <2>1, <2>2, TakeStream
  <2>5. "user" \in Places BY DEF Places
  <2>6. LoopsOK' /\ pc' \in [Process -> Places] BY <1>1, <2>3, <2>5, TurnLoops
  <2>7. InputTypeOK' BY <2>3, <2>4, <2>6 DEF InputInv, InputTypeOK, mouseVars
  <2> QED BY <2>4, <2>6, <2>7 DEF InputInv
<1>2. CASE queue = <<>>
  <2>1. pc' = [pc EXCEPT ![p] = "read_empty"] /\ UNCHANGED <<queue, ret>> BY <1>2
  <2>2. "read_empty" \in Places BY DEF Places
  <2>3. LoopsOK' /\ pc' \in [Process -> Places] BY <1>2, <2>1, <2>2, TurnLoops
  <2>4. InputTypeOK' BY <2>1, <2>3 DEF InputInv, InputTypeOK, mouseVars
  <2>5. StreamOK'
    <3>1. queue' = SubSeq(queue, 0 + 1, Len(queue))
      <4>1. queue' = <<>> /\ Len(queue) = 0 BY <1>2, <2>1
      <4> QED BY <1>2, <4>1
    <3> QED BY <3>1, TakeStream
  <2> QED BY <2>3, <2>4, <2>5 DEF InputInv
<1> QED BY <1>1, <1>2

\* INPUT_READ is called.
LEMMA ReadStep ==
    ASSUME InputInv, NEW p \in Process, syscall_input_read(p) PROVE InputInv'
<1>1. owner_waiting' = FALSE BY UserFacts DEF syscall_input_read
<1> QED BY <1>1, ReadTurnKeeps DEF syscall_input_read, Calling

\* INPUT_READ continues after it was woken.
LEMMA ReadWokenStep == ASSUME InputInv, NEW p \in Process, ReadWoken(p) PROVE InputInv'
BY ReadTurnKeeps DEF ReadWoken

\* No event came between the test and the sleep, so INPUT_READ does not fail.
LEMMA ReadSleepStep == ASSUME InputInv, NEW p \in Process, ReadSleep(p) PROVE InputInv'
<1> USE DEF ReadSleep
<1>1. queue = <<>> /\ owner = p BY DEF InputInv, LoopsOK
<1>2. /\ owner_waiting' = TRUE
      /\ pc' = [pc EXCEPT ![p] = "read_halted"]
      /\ UNCHANGED ret
  BY <1>1
<1>3. "read_halted" \in Places BY DEF Places
<1>4. LoopsOK' /\ pc' \in [Process -> Places] BY <1>1, <1>2, <1>3, TurnLoops
<1>5. InputTypeOK' BY <1>2, <1>4 DEF InputInv, InputTypeOK, mouseVars
<1>6. queue' = SubSeq(queue, 0 + 1, Len(queue))
  <2>1. queue' = <<>> /\ Len(queue) = 0 BY <1>1
  <2> QED BY <1>1, <2>1
<1>7. StreamOK' BY <1>6, TakeStream
<1> QED BY <1>4, <1>5, <1>7 DEF InputInv

\* A pass of the loop of EVENT_WAIT with the input watched.
LEMMA EventTurnKeeps ==
    ASSUME InputInv, NEW p \in Process, Running(p), pc[p] \in {"user", "event_woken"},
           EventTurn(p)
    PROVE  InputInv'
<1> USE DEF EventTurn
<1> DEFINE to == IF owner # p \/ queue # <<>> THEN "user" ELSE "event_polled"
<1>1. to \in Places /\ pc' = [pc EXCEPT ![p] = to] /\ to \in {"user", "event_polled"}
      /\ (to # "user" => owner = p /\ queue = <<>>)
  BY DEF Places
<1> HIDE DEF to
<1>2. UNCHANGED <<owner, owner_waiting, queue, held, dropped_events, buttons, glitched>>
  BY DEF stateVars, mouseVars
<1>3. owner_waiting' => owner = p /\ to \in {"read_halted", "read_woken"}
  <2>1. owner_waiting = FALSE
    <3>1. cpu = p BY DEF Running
    <3>2. \A q \in Process : pc[q] \in {"user", "event_woken"} BY <3>1 DEF InputInv, LoopsOK
    <3>3. owner # NoProcess => owner \in Process BY DEF InputInv, InputTypeOK
    <3> QED BY <3>2, <3>3 DEF InputInv, LoopsOK, InputTypeOK
  <2> QED BY <1>2, <2>1
<1>4. LoopsOK' /\ pc' \in [Process -> Places] BY <1>1, <1>2, <1>3, TurnLoops
<1>5. InputTypeOK' BY <1>2, <1>4 DEF InputInv, InputTypeOK
<1>6. StreamOK' BY StreamLeft DEF InputInv
<1> QED BY <1>4, <1>5, <1>6 DEF InputInv

\* EVENT_WAIT halts after its test found nothing.
LEMMA EventSleepStep == ASSUME InputInv, NEW p \in Process, EventSleep(p) PROVE InputInv'
<1> USE DEF EventSleep
<1>1. UNCHANGED <<owner, owner_waiting, queue, held, dropped_events, buttons, glitched>>
  BY DEF stateVars, mouseVars
<1>2. StreamOK' BY StreamLeft DEF InputInv
<1>3. /\ queue = <<>> /\ owner = p /\ cpu = p /\ p \in alive /\ p \notin blocked
      /\ owner_waiting = FALSE
  BY DEF InputInv, LoopsOK, InputTypeOK, Running, Ready
<1>4. CASE Ready # {p}
  <2>1. /\ blocked' = blocked \cup {p}
        /\ cpu' \in Ready \ {p}
        /\ pc' = [pc EXCEPT ![p] = "event_woken"]
    BY <1>4
  <2>2. \A q \in Process : q # p => pc[q] \in {"user", "event_woken"}
    BY <1>3 DEF InputInv, LoopsOK
  <2>3. pc' \in [Process -> Places] /\ pc'[p] = "event_woken"
        /\ \A q \in Process : q # p => pc'[q] = pc[q]
    BY <2>1 DEF InputInv, InputTypeOK, Places
  <2>4. \A q \in Process : pc'[q] \in {"user", "event_woken"} BY <2>2, <2>3
  <2>5. \A q \in blocked' : pc'[q] = "event_woken" /\ (owner' = q => queue' = <<>>)
    <3>1. \A q \in blocked : pc[q] = "event_woken" /\ q \in Process
      BY DEF InputInv, LoopsOK, InputTypeOK
    <3> QED BY <1>1, <1>3, <2>1, <2>3, <3>1
  <2>6. LoopsOK' BY <1>1, <1>3, <2>4, <2>5 DEF LoopsOK
  <2>7. InputTypeOK' BY <1>1, <1>3, <2>1, <2>3 DEF InputInv, InputTypeOK, Ready
  <2> QED BY <1>2, <2>6, <2>7 DEF InputInv
<1>5. CASE Ready = {p}
  <2>1. pc' = [pc EXCEPT ![p] = "event_halted"] /\ UNCHANGED <<blocked, cpu>> BY <1>5
  <2>2. "event_halted" \in Places BY DEF Places
  <2>3. LoopsOK' /\ pc' \in [Process -> Places] BY <1>1, <1>3, <2>1, <2>2, TurnLoops
  <2>4. InputTypeOK' BY <1>1, <2>1, <2>3 DEF InputInv, InputTypeOK
  <2> QED BY <1>2, <2>3, <2>4 DEF InputInv
<1> QED BY <1>4, <1>5

\* A wake-up meant for another reason.
LEMMA SpuriousStep == ASSUME InputInv, NEW p \in Process, SpuriousWake(p) PROVE InputInv'
<1> USE DEF SpuriousWake
<1>1. UNCHANGED <<owner, owner_waiting, queue, held, dropped_events, buttons, glitched>>
  BY DEF stateVars, mouseVars
<1>2. LoopsOK' BY <1>1 DEF InputInv, LoopsOK
<1>3. InputTypeOK' BY <1>1 DEF InputInv, InputTypeOK
<1>4. StreamOK' BY StreamLeft DEF InputInv
<1> QED BY <1>2, <1>3, <1>4 DEF InputInv

\* Every step keeps the invariant.
LEMMA InputStep == InputInv /\ [InputNext]_inputVars => InputInv'
<1> SUFFICES ASSUME InputInv, [InputNext]_inputVars PROVE InputInv' OBVIOUS
<1>1. CASE UNCHANGED inputVars
  <2>1. UNCHANGED <<alive, blocked, cpu, pc, stateVars, mouseVars, ret>>
    BY <1>1 DEF inputVars
  <2>2. UNCHANGED <<owner, owner_waiting, queue, held, modifiers, dropped_events,
                    buttons, glitched>>
    BY <2>1 DEF stateVars, mouseVars
  <2>3. StreamOK' BY <2>1, StreamLeft DEF InputInv
  <2>4. LoopsOK' BY <2>1, <2>2 DEF InputInv, LoopsOK
  <2>5. InputTypeOK' BY <2>1, <2>2 DEF InputInv, InputTypeOK
  <2> QED BY <2>3, <2>4, <2>5 DEF InputInv
<1>2. CASE i8042_handle_irq
  BY <1>2, KeyboardStep, MouseStep, MouseErrorStep DEF i8042_handle_irq
<1>3. CASE timer_handle_irq BY <1>3, TimerStep
<1>4. ASSUME NEW p \in Process,
             yield(p) \/ boring_input_claim(p) \/ boring_input_release(p) \/ m36_exit(p)
      PROVE  InputInv'
  BY <1>4, YieldStep, ClaimStep, ReleaseStep, ExitStep
<1>5. ASSUME NEW p \in Process, syscall_input_read(p) \/ ReadSleep(p) \/ ReadWoken(p)
      PROVE  InputInv'
  BY <1>5, ReadStep, ReadSleepStep, ReadWokenStep
<1>6. ASSUME NEW p \in Process, event_wait(p) \/ EventWoken(p) PROVE InputInv'
  BY <1>6, EventTurnKeeps DEF event_wait, EventWoken, Calling
<1>7. ASSUME NEW p \in Process, EventSleep(p) \/ SpuriousWake(p) PROVE InputInv'
  BY <1>7, EventSleepStep, SpuriousStep
<1> QED BY <1>1, <1>2, <1>3, <1>4, <1>5, <1>6, <1>7 DEF InputNext, KernelStep

----------------------------------------------------------------------------
(* The theorems                                                            *)

\* The inductive invariant holds in every reachable state.
LEMMA InputInvAlways == InputSpec => []InputInv
<1>1. InputInit => InputInv BY InitInv
<1>2. InputInv /\ [InputNext]_inputVars => InputInv' BY InputStep
<1> QED BY <1>1, <1>2, PTL DEF InputSpec

\* Type correctness of the input stream and of its waiting loops.
THEOREM InputTypes == InputSpec => []InputTypeOK
<1>1. InputInv => InputTypeOK BY DEF InputInv
<1> QED BY <1>1, InputInvAlways, PTL

\* No process sleeps in EVENT_WAIT or INPUT_READ on a queue that has events for
\* it, and INPUT_READ never fails because one arrived between its test of the
\* queue and the halt: x86_64_enable_and_halt and boring_event_input_irq leave
\* no gap.
THEOREM NoLostWakeupAlways == InputSpec => []NoLostWakeup
<1>1. InputInv => NoLostWakeup
  BY DEF InputInv, InputTypeOK, LoopsOK, NoLostWakeup
<1> QED BY <1>1, InputInvAlways, PTL

\* The stream is true to the devices and to its owner: modifier bits, repeat
\* flags and the alternation of the buttons, for any number of keys and buttons
\* and any size of the queue.
THEOREM StreamTrueAlways == InputSpec => []StreamTrue
<1>1. InputInv => StreamTrue
  <2> SUFFICES ASSUME InputInv PROVE StreamTrue OBVIOUS
  <2>1. /\ Stream(Current, owner, held, buttons, glitched) /\ queue \in Seq(Events)
        /\ Current.queue = queue /\ Current.dropped = dropped_events
    BY CurrentFacts DEF InputInv, StreamOK, InputTypeOK
  <2>2. DOMAIN queue = 1..Len(queue) /\ \A i \in 1..Len(queue) : queue[i] \in Events
    BY <2>1
  <2>3. OwnerIsolation
    BY <2>1, <2>2 DEF OwnerIsolation, Owned, Stream, InputInv, InputTypeOK, LoopsOK, StreamOK
  <2>4. ASSUME dropped_events = 0, NEW i \in DOMAIN queue, NEW j \in DOMAIN queue,
               Successive(i, j)
        PROVE  IF queue[i].type = "key"
                 THEN queue[j].repeat = (queue[i].down /\ queue[j].down)
                 ELSE glitched \/ queue[j].down # queue[i].down
    <3>1. Chained(queue, glitched) BY <2>1, <2>4 DEF Stream
    <3>2. i \in 1..Len(queue) /\ j \in 1..Len(queue) /\ i < j BY <2>2, <2>4 DEF Successive
    <3>3. SameKind(queue[i], queue[j]) BY <2>4 DEF Successive, SameKind
    <3>4. \A k \in (i + 1)..(j - 1) : ~SameKind(queue[i], queue[k])
      BY <2>4 DEF Successive, SameKind
    <3>5. Follows(queue[i], queue[j], glitched) BY <3>1, <3>2, <3>3, <3>4 DEF Chained
    <3>6. queue[i] \in Events /\ queue[j] \in Events BY <2>2, <3>2
    <3>7. queue[i].type = "key" => queue[j].type = "key" BY <3>3 DEF SameKind
    <3>8. /\ queue[i].down \in BOOLEAN /\ queue[j].down \in BOOLEAN
          /\ queue[i].type = "key" => queue[j].repeat \in BOOLEAN
      BY <3>3, <3>6, <3>7, EventFacts DEF SameKind
    <3> QED BY <3>5, <3>8 DEF Follows
  <2> QED BY <2>3, <2>4 DEF StreamTrue, InputInv, StreamOK
<1> QED BY <1>1, InputInvAlways, PTL
----------------------------------------------------------------------------
(* The event ring                                                          *)

\* A number below the divisor is its own remainder.
LEMMA TrbSmall ==
    ASSUME NEW c \in Nat \ {0}, NEW x \in 0..(c - 1)
    PROVE  x % c = x /\ x \div c = 0
BY Z3

\* A number that ran past the end once wraps to the front.
LEMMA TrbWrap ==
    ASSUME NEW c \in Nat \ {0}, NEW x \in Nat, c <= x, x < c + c
    PROVE  x % c = x - c /\ x \div c = 1
<1>1. x - c \in 0..(c - 1) /\ x = c * 1 + (x - c) OBVIOUS
<1>2. x \div c = 1 BY <1>1, Z3
<1>3. x % c = x - c BY <1>1, Z3
<1> QED BY <1>2, <1>3

\* Where a consumer is that has taken c events, and the lap of that place.
Lap(c) == c < EventRingTrbs
PlaceOf(c) == IF Lap(c) THEN c ELSE c - EventRingTrbs

\* Of an event ring with events of a set: an entry has the producer's cycle
\* when it was written in this lap, and the consumer is at most a lap behind.
EventsOK(r, c, events) ==
    /\ r = [slots |-> r.slots, at |-> r.at, cycle |-> r.cycle]
    /\ r.slots \in [0..(EventRingTrbs - 1) -> [cycle : BOOLEAN, event : events]]
    /\ r.at \in 0..(EventRingTrbs - 1) /\ r.cycle \in BOOLEAN
    /\ c \in 0..(2 * EventRingTrbs - 1)
    /\ \A i \in 0..(EventRingTrbs - 1) : r.slots[i].cycle <=> (i < r.at <=> r.cycle)
    /\ IF r.cycle <=> Lap(c) THEN PlaceOf(c) <= r.at ELSE r.at < PlaceOf(c)

EventRingOK(events) == EventsOK(event_ring, event_dequeue_count, events)

\* The place and the lap of the driver, without a division.
LEMMA EventPlace ==
    ASSUME NEW c \in 0..(2 * EventRingTrbs - 1)
    PROVE  /\ c % EventRingTrbs = PlaceOf(c)
           /\ c \div EventRingTrbs = 0 <=> Lap(c)
           /\ PlaceOf(c) \in 0..(EventRingTrbs - 1)
           /\ Lap(c) \in BOOLEAN
<1> USE TrbsAssumption
<1>1. CASE c < EventRingTrbs
  <2>1. c \in 0..(EventRingTrbs - 1) BY <1>1
  <2>2. c % EventRingTrbs = c /\ c \div EventRingTrbs = 0 BY <2>1, TrbSmall
  <2> QED BY <1>1, <2>1, <2>2 DEF Lap, PlaceOf
<1>2. CASE ~(c < EventRingTrbs)
  <2>1. c \in Nat /\ EventRingTrbs <= c /\ c < EventRingTrbs + EventRingTrbs BY <1>2
  <2>2. c % EventRingTrbs = c - EventRingTrbs /\ c \div EventRingTrbs = 1 BY <2>1, TrbWrap
  <2> QED BY <1>2, <2>1, <2>2 DEF Lap, PlaceOf
<1> QED BY <1>1, <1>2

\* How many events wait, and where each of them lies.
Pending(r, c) ==
    IF r.cycle <=> Lap(c) THEN r.at - PlaceOf(c) ELSE r.at + EventRingTrbs - PlaceOf(c)
EventAt(c, i) ==
    IF PlaceOf(c) + i - 1 < EventRingTrbs THEN PlaceOf(c) + i - 1
    ELSE PlaceOf(c) + i - 1 - EventRingTrbs

\* The waiting events, without a remainder.
LEMMA WaitingPlaces ==
    ASSUME NEW r, NEW c, NEW events, EventsOK(r, c, events)
    PROVE  /\ Pending(r, c) \in 0..(EventRingTrbs - 1)
           /\ (r.at + EventRingTrbs - PlaceOf(c)) % EventRingTrbs = Pending(r, c)
           /\ \A i \in 1..Pending(r, c) :
                 /\ EventAt(c, i) \in 0..(EventRingTrbs - 1)
                 /\ (PlaceOf(c) + i - 1) % EventRingTrbs = EventAt(c, i)
                 /\ r.slots[EventAt(c, i)].event \in events
<1> USE TrbsAssumption
<1> DEFINE N == EventRingTrbs
<1>1. /\ PlaceOf(c) \in 0..(N - 1) /\ r.at \in 0..(N - 1)
      /\ r.cycle \in BOOLEAN /\ Lap(c) \in BOOLEAN
      /\ IF r.cycle <=> Lap(c) THEN PlaceOf(c) <= r.at ELSE r.at < PlaceOf(c)
  BY EventPlace DEF EventsOK
<1>2. Pending(r, c) \in 0..(N - 1) BY <1>1 DEF Pending
<1>3. (r.at + N - PlaceOf(c)) % N = Pending(r, c)
  <2>1. CASE r.cycle <=> Lap(c)
    <3> DEFINE x == r.at + N - PlaceOf(c)
    <3>1. x \in Nat /\ N <= x /\ x < N + N BY <1>1, <2>1
    <3> HIDE DEF x
    <3>2. x % N = x - N BY <3>1, TrbWrap
    <3> USE DEF x
    <3> QED BY <1>1, <2>1, <3>2 DEF Pending
  <2>2. CASE ~(r.cycle <=> Lap(c))
    <3>1. r.at + N - PlaceOf(c) \in 0..(N - 1) BY <1>1, <2>2
    <3> QED BY <1>1, <2>2, <3>1, TrbSmall DEF Pending
  <2> QED BY <2>1, <2>2
<1>4. ASSUME NEW i \in 1..Pending(r, c)
      PROVE  EventAt(c, i) \in 0..(N - 1) /\ (PlaceOf(c) + i - 1) % N = EventAt(c, i)
  <2>1. i \in 1..(N - 1) BY <1>2
  <2>2. CASE PlaceOf(c) + i - 1 < N
    <3>1. PlaceOf(c) + i - 1 \in 0..(N - 1) BY <1>1, <2>1, <2>2
    <3> QED BY <2>2, <3>1, TrbSmall DEF EventAt
  <2>3. CASE ~(PlaceOf(c) + i - 1 < N)
    <3> DEFINE x == PlaceOf(c) + i - 1
    <3>1. x \in Nat /\ N <= x /\ x < N + N BY <1>1, <2>1, <2>3
    <3> HIDE DEF x
    <3>2. x % N = x - N BY <3>1, TrbWrap
    <3>3. EventAt(c, i) \in 0..(N - 1) BY <1>1, <2>1, <2>3 DEF EventAt, x
    <3>4. EventAt(c, i) = x - N BY <1>1, <2>1, <2>3 DEF EventAt, x
    <3>5. x % N = EventAt(c, i) BY <3>2, <3>4
    <3>6. (PlaceOf(c) + i - 1) % N = EventAt(c, i) BY ONLY <3>5 DEF x
    <3> QED BY <3>3, <3>6
  <2> QED BY <2>2, <2>3
<1>5. \A i \in 1..Pending(r, c) : r.slots[EventAt(c, i)].event \in events
  BY <1>4 DEF EventsOK
<1> QED BY <1>1, <1>2, <1>3, <1>4, <1>5

\* What waits, as a sequence.
LEMMA WaitingSequence ==
    ASSUME NEW events, EventRingOK(events)
    PROVE  /\ Pending(event_ring, event_dequeue_count) \in 0..(EventRingTrbs - 1)
           /\ WaitingEvents =
                 [i \in 1..Pending(event_ring, event_dequeue_count) |->
                    event_ring.slots[EventAt(event_dequeue_count, i)].event]
           /\ WaitingEvents \in Seq(events)
<1> DEFINE P == Pending(event_ring, event_dequeue_count)
<1>1. /\ P \in 0..(EventRingTrbs - 1)
      /\ (event_ring.at + EventRingTrbs - EventIndex) % EventRingTrbs = P
      /\ \A i \in 1..P :
            /\ (EventIndex + i - 1) % EventRingTrbs = EventAt(event_dequeue_count, i)
            /\ event_ring.slots[EventAt(event_dequeue_count, i)].event \in events
  <2>1. EventIndex = PlaceOf(event_dequeue_count)
    BY EventPlace DEF EventRingOK, EventsOK, EventIndex
  <2> QED BY <2>1, WaitingPlaces DEF EventRingOK
<1> HIDE DEF P
<1>2. WaitingEvents =
        [i \in 1..P |-> event_ring.slots[EventAt(event_dequeue_count, i)].event]
  BY <1>1 DEF WaitingEvents
<1>3. P \in Nat BY <1>1, TrbsAssumption
<1>4. [i \in 1..P |-> event_ring.slots[EventAt(event_dequeue_count, i)].event] \in Seq(events)
  BY <1>1, <1>3
<1> QED BY <1>1, <1>2, <1>4 DEF P

\* The same after a step.
LEMMA WaitingSequenceAfter ==
    ASSUME NEW CONSTANT events, EventRingOK(events)'
    PROVE  /\ Pending(event_ring', event_dequeue_count') \in 0..(EventRingTrbs - 1)
           /\ WaitingEvents' =
                 [i \in 1..Pending(event_ring', event_dequeue_count') |->
                    event_ring'.slots[EventAt(event_dequeue_count', i)].event]
<1> DEFINE P == Pending(event_ring', event_dequeue_count')
<1>1. /\ P \in 0..(EventRingTrbs - 1)
      /\ (event_ring'.at + EventRingTrbs - EventIndex') % EventRingTrbs = P
      /\ \A i \in 1..P :
            (EventIndex' + i - 1) % EventRingTrbs = EventAt(event_dequeue_count', i)
  <2>1. EventIndex' = PlaceOf(event_dequeue_count')
    BY EventPlace DEF EventRingOK, EventsOK, EventIndex
  <2> QED BY <2>1, WaitingPlaces DEF EventRingOK
<1> HIDE DEF P
<1>2. WaitingEvents' =
        [i \in 1..P |-> event_ring'.slots[EventAt(event_dequeue_count', i)].event]
  BY <1>1 DEF WaitingEvents
<1> QED BY <1>1, <1>2 DEF P

\* What the service finds at the head is the oldest event, if there is one.
LEMMA EventHead ==
    ASSUME NEW events, EventRingOK(events)
    PROVE  /\ EventReady <=> Pending(event_ring, event_dequeue_count) # 0
           /\ EventReady <=> WaitingEvents # <<>>
           /\ EventReady => 1 \in DOMAIN WaitingEvents /\ Event = WaitingEvents[1]
<1> USE TrbsAssumption
<1> DEFINE c == event_dequeue_count
           P == Pending(event_ring, c)
<1>1. /\ PlaceOf(c) \in 0..(EventRingTrbs - 1) /\ event_ring.at \in 0..(EventRingTrbs - 1)
      /\ event_ring.cycle \in BOOLEAN /\ Lap(c) \in BOOLEAN
      /\ IF event_ring.cycle <=> Lap(c) THEN PlaceOf(c) <= event_ring.at
         ELSE event_ring.at < PlaceOf(c)
      /\ EventIndex = PlaceOf(c) /\ (EventCycle <=> Lap(c))
  BY EventPlace DEF EventRingOK, EventsOK, EventIndex, EventCycle
<1>2. /\ event_ring.slots[EventIndex].cycle \in BOOLEAN
      /\ event_ring.slots[EventIndex].cycle <=> (EventIndex < event_ring.at <=> event_ring.cycle)
  BY <1>1 DEF EventRingOK, EventsOK
<1>3. EventCycle \in BOOLEAN BY DEF EventCycle
<1>4. EventReady <=> (event_ring.slots[EventIndex].cycle <=> EventCycle)
  BY <1>2, <1>3 DEF EventReady
<1>5. EventReady <=> P # 0 BY <1>1, <1>2, <1>4 DEF Pending
<1>6. /\ P \in Nat
      /\ WaitingEvents = [i \in 1..P |-> event_ring.slots[EventAt(c, i)].event]
      /\ WaitingEvents \in Seq(events)
  BY WaitingSequence
<1>7. P # 0 => EventAt(c, 1) = EventIndex BY <1>1 DEF EventAt
<1> HIDE DEF P
<1>8. Len(WaitingEvents) = P /\ DOMAIN WaitingEvents = 1..P BY <1>6
<1>9. P # 0 => 1 \in DOMAIN WaitingEvents /\ Event = WaitingEvents[1]
  BY <1>6, <1>7 DEF Event
<1>10. WaitingEvents # <<>> <=> P # 0 BY <1>6, <1>8
<1> QED BY <1>5, <1>9, <1>10 DEF P

\* Taking an event leaves the others, in their order.
LEMMA EventTaken ==
    ASSUME NEW CONSTANT events, EventRingOK(events), EventReady,
           xhci_event_dequeue_advance, UNCHANGED event_ring
    PROVE  /\ EventRingOK(events)'
           /\ DOMAIN WaitingEvents' = {i \in Nat \ {0} : i + 1 \in DOMAIN WaitingEvents}
           /\ \A i \in DOMAIN WaitingEvents' :
                 i + 1 \in DOMAIN WaitingEvents /\ WaitingEvents'[i] = WaitingEvents[i + 1]
<1> USE TrbsAssumption
<1> DEFINE N == EventRingTrbs
           c == event_dequeue_count
           P == Pending(event_ring, c)
<1>1. /\ PlaceOf(c) \in 0..(N - 1) /\ event_ring.at \in 0..(N - 1) /\ c \in 0..(2 * N - 1)
      /\ event_ring.cycle \in BOOLEAN /\ Lap(c) \in BOOLEAN
      /\ IF event_ring.cycle <=> Lap(c) THEN PlaceOf(c) <= event_ring.at
         ELSE event_ring.at < PlaceOf(c)
  BY EventPlace DEF EventRingOK, EventsOK
<1>2. c' = IF c = 2 * N - 1 THEN 0 ELSE c + 1
  <2>1. CASE c = 2 * N - 1
    <3> DEFINE n == 2 * N
    <3>1. n \in Nat \ {0} /\ n <= n /\ n < n + n /\ c + 1 = n BY <2>1
    <3> HIDE DEF n
    <3>2. n % n = n - n BY <3>1, TrbWrap
    <3>3. c' = n % n BY <3>1 DEF xhci_event_dequeue_advance, n
    <3> QED BY <2>1, <3>1, <3>2, <3>3
  <2>2. CASE c # 2 * N - 1
    <3>1. 2 * N \in Nat \ {0} /\ c + 1 \in 0..(2 * N - 1) BY <1>1, <2>2
    <3> QED BY <2>2, <3>1, TrbSmall DEF xhci_event_dequeue_advance
  <2> QED BY <2>1, <2>2
<1>3. c' \in 0..(2 * N - 1) BY <1>1, <1>2
<1>4. P # 0 BY EventHead
<1>5. IF event_ring.cycle <=> Lap(c) THEN PlaceOf(c) < event_ring.at
      ELSE event_ring.at < PlaceOf(c)
  BY <1>1, <1>4 DEF Pending
<1>6. IF event_ring.cycle <=> Lap(c') THEN PlaceOf(c') <= event_ring.at
      ELSE event_ring.at < PlaceOf(c')
  BY <1>1, <1>2, <1>5 DEF Lap, PlaceOf
<1>7. EventRingOK(events)' BY <1>3, <1>6 DEF EventRingOK, EventsOK
<1>8. Pending(event_ring', c') = P - 1
  BY <1>1, <1>2, <1>5 DEF Lap, PlaceOf, Pending
<1>9. /\ P \in 0..(N - 1)
      /\ WaitingEvents = [i \in 1..P |-> event_ring.slots[EventAt(c, i)].event]
  BY WaitingSequence
<1>10. WaitingEvents' = [i \in 1..(P - 1) |-> event_ring.slots[EventAt(c', i)].event]
  BY <1>7, <1>8, WaitingSequenceAfter
<1> HIDE DEF P
<1>11. \A i \in 1..(P - 1) : EventAt(c', i) = EventAt(c, i + 1)
  BY <1>1, <1>2, <1>9 DEF Lap, PlaceOf, EventAt
<1>12. DOMAIN WaitingEvents' = 1..(P - 1) /\ DOMAIN WaitingEvents = 1..P
  BY <1>9, <1>10
<1>13. \A i \in 1..(P - 1) : i + 1 \in 1..P BY <1>9
<1>14. \A i \in DOMAIN WaitingEvents' : WaitingEvents'[i] = WaitingEvents[i + 1]
  BY <1>9, <1>10, <1>11, <1>13
<1>15. 1..(P - 1) = {i \in Nat \ {0} : i + 1 \in 1..P} BY <1>9
<1> QED BY <1>7, <1>12, <1>13, <1>14, <1>15

\* Posting an event puts it behind the others.
LEMMA EventPosted ==
    ASSUME NEW CONSTANT events, NEW e \in events, EventRingOK(events), PostEvent(e)
    PROVE  /\ EventRingOK(events)'
           /\ Len(WaitingEvents) \in Nat /\ DOMAIN WaitingEvents = 1..Len(WaitingEvents)
           /\ DOMAIN WaitingEvents' = 1..(Len(WaitingEvents) + 1)
           /\ \A i \in DOMAIN WaitingEvents : WaitingEvents'[i] = WaitingEvents[i]
           /\ WaitingEvents'[Len(WaitingEvents) + 1] = e
<1> USE TrbsAssumption
<1> DEFINE N == EventRingTrbs
           at == event_ring.at
           slots == event_ring.slots
           c == event_dequeue_count
           P == Pending(event_ring, c)
<1>1. /\ PlaceOf(c) \in 0..(N - 1) /\ at \in 0..(N - 1) /\ EventIndex = PlaceOf(c)
      /\ event_ring.cycle \in BOOLEAN /\ Lap(c) \in BOOLEAN
      /\ IF event_ring.cycle <=> Lap(c) THEN PlaceOf(c) <= at ELSE at < PlaceOf(c)
      /\ slots \in [0..(N - 1) -> [cycle : BOOLEAN, event : events]]
      /\ \A i \in 0..(N - 1) : slots[i].cycle <=> (i < at <=> event_ring.cycle)
  BY EventPlace DEF EventRingOK, EventsOK, EventIndex
<1>3. /\ event_ring' = [slots |-> [slots EXCEPT ![at] = [cycle |-> event_ring.cycle, event |-> e]],
                        at |-> IF at = N - 1 THEN 0 ELSE at + 1,
                        cycle |-> event_ring.cycle # (at = N - 1)]
      /\ c' = c
  BY DEF PostEvent
<1>4. (IF at = N - 1 THEN 0 ELSE at + 1) # PlaceOf(c)
  <2>1. CASE at = N - 1
    <3>1. N \in Nat \ {0} /\ N <= N /\ N < N + N /\ at + 1 = N BY <2>1
    <3>2. N % N = N - N BY <3>1, TrbWrap
    <3> QED BY <1>1, <2>1, <3>1, <3>2 DEF PostEvent, CanPost
  <2>2. CASE at # N - 1
    <3>1. at \in 0..(N - 1) /\ N \in Nat BY <1>1
    <3>2. at + 1 \in 0..(N - 1) BY <2>2, <3>1, SMT
    <3> QED BY <1>1, <2>2, <3>2, TrbSmall DEF PostEvent, CanPost
  <2> QED BY <2>1, <2>2
<1>5. /\ event_ring'.at = IF at = N - 1 THEN 0 ELSE at + 1
      /\ event_ring'.cycle = (event_ring.cycle # (at = N - 1))
      /\ event_ring'.slots = [slots EXCEPT ![at] = [cycle |-> event_ring.cycle, event |-> e]]
  BY <1>3
<1>6. event_ring'.slots \in [0..(N - 1) -> [cycle : BOOLEAN, event : events]]
  BY <1>1, <1>5
<1>7. \A i \in 0..(N - 1) : event_ring'.slots[i].cycle <=> (i < event_ring'.at <=> event_ring'.cycle)
  <2> TAKE i \in 0..(N - 1)
  <2>1. CASE i = at
    <3>1. event_ring'.slots[i].cycle = event_ring.cycle BY <1>1, <1>5, <2>1
    <3> QED BY <1>1, <1>5, <2>1, <3>1
  <2>2. CASE i # at
    <3>1. event_ring'.slots[i] = slots[i] BY <1>1, <1>5, <2>2
    <3> QED BY <1>1, <1>5, <2>2, <3>1
  <2> QED BY <2>1, <2>2
<1>8. event_ring'.at \in 0..(N - 1) /\ event_ring'.cycle \in BOOLEAN BY <1>1, <1>5
<1>9. IF event_ring'.cycle <=> Lap(c) THEN PlaceOf(c) <= event_ring'.at
      ELSE event_ring'.at < PlaceOf(c)
  BY <1>1, <1>4, <1>5
<1>10. event_ring' = [slots |-> event_ring'.slots, at |-> event_ring'.at, cycle |-> event_ring'.cycle]
  BY <1>3
<1>11. EventRingOK(events)'
  BY <1>3, <1>6, <1>7, <1>8, <1>9, <1>10 DEF EventRingOK, EventsOK
<1>12. /\ P \in 0..(N - 1)
       /\ WaitingEvents = [i \in 1..P |-> slots[EventAt(c, i)].event]
       /\ WaitingEvents \in Seq(events)
  BY WaitingSequence
<1>13. Pending(event_ring', c') = P + 1
  BY <1>1, <1>3, <1>4, <1>5 DEF Pending
<1>14. WaitingEvents' = [i \in 1..(P + 1) |-> event_ring'.slots[EventAt(c, i)].event]
  BY <1>3, <1>11, <1>13, WaitingSequenceAfter, SMTT(30)
<1>15. EventAt(c, P + 1) = at BY <1>1, <1>4 DEF EventAt, Pending
<1>16. \A i \in 1..P : EventAt(c, i) # at /\ EventAt(c, i) \in 0..(N - 1)
  BY <1>1, SMTT(30) DEF EventAt, Pending
<1> HIDE DEF P
<1>17. Len(WaitingEvents) = P /\ DOMAIN WaitingEvents = 1..P BY <1>12
<1>18. ASSUME NEW i \in 1..P PROVE WaitingEvents'[i] = WaitingEvents[i]
  <2>1. i \in 1..(P + 1) BY <1>12
  <2>2. event_ring'.slots[EventAt(c, i)] = slots[EventAt(c, i)] BY <1>1, <1>5, <1>16
  <2> QED BY <1>12, <1>14, <2>1, <2>2
<1>19. WaitingEvents'[P + 1] = e
  <2>1. P + 1 \in 1..(P + 1) BY <1>12
  <2>2. event_ring'.slots[at].event = e BY <1>1, <1>5
  <2> QED BY <1>14, <1>15, <2>1, <2>2
<1>20. DOMAIN WaitingEvents' = 1..(P + 1) BY <1>14
<1> QED BY <1>11, <1>12, <1>17, <1>18, <1>19, <1>20
----------------------------------------------------------------------------
(* A ring of work                                                          *)

\* The rings with n usable entries.
RingPage == HidEndpoint \cup {"cbw", "data", "csw", "none"}
Trb == [cycle : BOOLEAN, work : [page : RingPage]]
WorkRings(n) ==
    [trbs : [0..(n - 1) -> Trb], usable : {n}, link : BOOLEAN, index : 0..(n - 1),
     cycle : BOOLEAN, at : 0..n, expects : BOOLEAN]

\* An entry has the driver's cycle when it
\* was written in this lap.
RingShape(r, n) ==
    /\ r \in WorkRings(n)
    /\ \A k \in 0..(n - 1) : r.trbs[k].cycle <=> (k < r.index <=> r.cycle)

\* The controller has done all of the work, or all but the last entry.
Idle(r, n) ==
    /\ RingShape(r, n)
    /\ Linked(r).at = r.index /\ (Linked(r).expects <=> r.cycle)
Busy(r, n) ==
    /\ RingShape(r, n)
    /\ Linked(r).at = (IF r.index = 0 THEN n ELSE r.index) - 1
    /\ Linked(r).expects <=> (r.cycle <=> r.index # 0)
    /\ r.index = 0 => ~(r.link <=> r.cycle)

\* The controller changes what is its own.
LEMMA Controlled ==
    ASSUME NEW n \in Nat, NEW r \in WorkRings(n), NEW a \in 0..n, NEW x \in BOOLEAN
    PROVE  [r EXCEPT !.at = a, !.expects = x] \in WorkRings(n)
BY DEF WorkRings

\* What the controller finds behind the link.
LEMMA LinkedShape ==
    ASSUME NEW n \in Nat \ {0, 1}, NEW r, RingShape(r, n)
    PROVE  /\ RingShape(Linked(r), n)
           /\ Linked(r).trbs = r.trbs /\ Linked(r).usable = n /\ Linked(r).link = r.link
           /\ Linked(r).index = r.index /\ Linked(r).cycle = r.cycle
           /\ Linked(r).at = IF r.at = n /\ (r.link <=> r.expects) THEN 0 ELSE r.at
           /\ Linked(r).expects = IF r.at = n /\ (r.link <=> r.expects) THEN ~r.expects
                                  ELSE r.expects
<1>1. /\ r.usable = n /\ r.link \in BOOLEAN /\ r.expects \in BOOLEAN /\ r \in WorkRings(n)
      /\ r.at \in 0..n
  BY DEF RingShape, WorkRings
<1>2. CASE r.at = n /\ (r.link <=> r.expects)
  <2>1. Linked(r) = [r EXCEPT !.at = 0, !.expects = ~@] BY <1>1, <1>2 DEF Linked
  <2>2. [r EXCEPT !.at = 0, !.expects = ~@] \in WorkRings(n)
    <3>1. 0 \in 0..n /\ (~r.expects) \in BOOLEAN OBVIOUS
    <3>2. [r EXCEPT !.at = 0, !.expects = ~r.expects] \in WorkRings(n)
      BY <1>1, <3>1, Controlled
    <3> QED BY <3>2
  <2>3. /\ Linked(r).trbs = r.trbs /\ Linked(r).usable = n /\ Linked(r).link = r.link
        /\ Linked(r).index = r.index /\ Linked(r).cycle = r.cycle
        /\ Linked(r).at = 0 /\ Linked(r).expects = ~r.expects
    BY <1>1, <2>1 DEF WorkRings
  <2>4. RingShape(Linked(r), n) BY <2>1, <2>2, <2>3 DEF RingShape
  <2> QED BY <1>2, <2>3, <2>4
<1>3. CASE ~(r.at = n /\ (r.link <=> r.expects))
  <2>1. Linked(r) = r BY <1>1, <1>3 DEF Linked
  <2> QED BY <1>1, <1>3, <2>1
<1> QED BY <1>2, <1>3

\* A ring that nothing was put onto.
LEMMA NewRingIdle ==
    ASSUME NEW n \in Nat \ {0, 1}
    PROVE  Idle(NewRing(n), n)
<1> DEFINE r == NewRing(n)
<1>1. /\ r.trbs = [i \in 0..(n - 1) |-> [cycle |-> FALSE, work |-> [page |-> "none"]]]
      /\ r.usable = n /\ r.link = TRUE /\ r.index = 0 /\ r.cycle = TRUE /\ r.at = 0
      /\ r.expects = TRUE
  BY DEF NewRing
<1>2. r \in WorkRings(n)
  <2>1. [cycle |-> FALSE, work |-> [page |-> "none"]] \in Trb BY DEF Trb, RingPage
  <2>2. r.trbs \in [0..(n - 1) -> Trb] BY <1>1, <2>1
  <2>3. 0 \in 0..(n - 1) /\ 0 \in 0..n OBVIOUS
  <2> QED BY <1>1, <2>2, <2>3 DEF NewRing, WorkRings
<1> HIDE DEF r
<1>3. RingShape(r, n) BY <1>1, <1>2 DEF RingShape
<1>4. Linked(r).at = 0 /\ Linked(r).expects = TRUE BY <1>1, <1>3, LinkedShape
<1> QED BY <1>1, <1>3, <1>4 DEF Idle, r

\* The controller finds work on a ring that is behind, and none on an idle one.
LEMMA WorkFound ==
    ASSUME NEW n \in Nat \ {0, 1}, NEW r
    PROVE  /\ Idle(r, n) => ~HasWork(r)
           /\ Busy(r, n) => HasWork(r) /\ CurrentTrb(r) \in 0..(n - 1)
<1>1. ASSUME Idle(r, n) PROVE ~HasWork(r)
  <2>1. RingShape(r, n) BY <1>1 DEF Idle
  <2>2. /\ r.index \in 0..(n - 1) /\ r.cycle \in BOOLEAN
        /\ r.trbs[r.index].cycle \in BOOLEAN
        /\ r.trbs[r.index].cycle <=> (r.index < r.index <=> r.cycle)
    BY <2>1 DEF RingShape, WorkRings, Trb
  <2>3. /\ Linked(r).trbs = r.trbs /\ Linked(r).at = r.index /\ Linked(r).expects \in BOOLEAN
        /\ Linked(r).expects <=> r.cycle
    BY <1>1, <2>1, LinkedShape DEF Idle, RingShape, WorkRings, Trb
  <2>4. Linked(r).trbs[Linked(r).at].cycle # Linked(r).expects BY <2>2, <2>3
  <2> QED BY <2>4 DEF HasWork
<1>2. ASSUME Busy(r, n) PROVE HasWork(r) /\ CurrentTrb(r) \in 0..(n - 1)
  <2>1. RingShape(r, n) BY <1>2 DEF Busy
  <2> DEFINE j == (IF r.index = 0 THEN n ELSE r.index) - 1
  <2>2. r.index \in 0..(n - 1) /\ j \in 0..(n - 1) /\ (j < r.index <=> r.index # 0)
    BY <2>1 DEF RingShape, WorkRings, Trb
  <2>3. r.cycle \in BOOLEAN /\ r.trbs[j].cycle \in BOOLEAN
        /\ (r.trbs[j].cycle <=> (j < r.index <=> r.cycle))
    BY <2>1, <2>2 DEF RingShape, WorkRings, Trb
  <2>4. /\ Linked(r).trbs = r.trbs /\ Linked(r).at = j /\ Linked(r).expects \in BOOLEAN
        /\ Linked(r).usable = n
        /\ Linked(r).expects <=> (r.cycle <=> r.index # 0)
    BY <1>2, <2>1, LinkedShape DEF Busy, RingShape, WorkRings, Trb
  <2> HIDE DEF j
  <2>5. Linked(r).trbs[Linked(r).at].cycle = Linked(r).expects BY <2>2, <2>3, <2>4
  <2>6. r.usable = n BY <2>1 DEF RingShape, WorkRings, Trb
  <2> QED BY <2>2, <2>4, <2>5, <2>6 DEF HasWork, CurrentTrb
<1> QED BY <1>1, <1>2

\* An entry on an idle ring is the work that the controller finds.
LEMMA SubmittedBusy ==
    ASSUME NEW n \in Nat \ {0, 1}, NEW r, Idle(r, n), NEW page \in RingPage
    PROVE  LET s == Submitted(r, [page |-> page])
           IN  Busy(s, n) /\ CurrentTrb(s) = r.index /\ CurrentWork(s) = [page |-> page]
<1> DEFINE s == Submitted(r, [page |-> page])
           i == r.index
           last == i = n - 1
<1>1. RingShape(r, n) BY DEF Idle
<1>2. /\ r.usable = n /\ i \in 0..(n - 1) /\ r.cycle \in BOOLEAN /\ r.at \in 0..n
      /\ r.link \in BOOLEAN /\ r.expects \in BOOLEAN
      /\ \A k \in 0..(n - 1) : r.trbs[k].cycle <=> (k < i <=> r.cycle)
  BY <1>1 DEF RingShape, WorkRings, Trb
<1>3. /\ s.trbs = [r.trbs EXCEPT ![i] = [cycle |-> r.cycle, work |-> [page |-> page]]]
      /\ s.link = (IF last THEN r.cycle ELSE r.link)
      /\ s.index = (IF last THEN 0 ELSE i + 1)
      /\ s.cycle = (IF last THEN ~r.cycle ELSE r.cycle)
      /\ s.at = r.at /\ s.expects = r.expects /\ s.usable = n
  BY <1>1, <1>2 DEF Submitted, RingShape, WorkRings
<1>13. s \in WorkRings(n)
  <2> DEFINE t == [cycle |-> r.cycle, work |-> [page |-> page]]
             trbs == [r.trbs EXCEPT ![i] = t]
             link == IF last THEN r.cycle ELSE r.link
             index == IF last THEN 0 ELSE i + 1
             cycle == IF last THEN ~r.cycle ELSE r.cycle
  <2>1. t \in Trb BY <1>2 DEF Trb
  <2>2. trbs \in [0..(n - 1) -> Trb] BY <1>1, <1>2, <2>1 DEF RingShape, WorkRings
  <2>3. index \in 0..(n - 1) BY <1>2
  <2>4. link \in BOOLEAN BY <1>2
  <2>5. cycle \in BOOLEAN BY <1>2
  <2>6. s = [r EXCEPT !.trbs = trbs, !.link = link, !.index = index, !.cycle = cycle]
    BY <1>1, <1>2 DEF Submitted, RingShape, WorkRings
  <2> HIDE DEF trbs, link, index, cycle
  <2> QED BY <1>1, <2>2, <2>3, <2>4, <2>5, <2>6 DEF RingShape, WorkRings
<1>4. s.trbs[i] = [cycle |-> r.cycle, work |-> [page |-> page]]
      /\ \A k \in 0..(n - 1) : k # i => s.trbs[k] = r.trbs[k]
  BY <1>1, <1>2, <1>3 DEF RingShape, WorkRings, Trb
<1> HIDE DEF s
<1>5. ASSUME NEW k \in 0..(n - 1) PROVE s.trbs[k].cycle <=> (k < s.index <=> s.cycle)
  <2>1. s.index \in Nat /\ (k < s.index <=> ~last /\ k <= i) BY <1>2, <1>3
  <2>2. s.cycle <=> (r.cycle <=> ~last) BY <1>2, <1>3
  <2>3. s.trbs[k].cycle <=> (r.cycle <=> k <= i)
    <3>1. CASE k = i BY <1>2, <1>4, <3>1
    <3>2. CASE k # i
      <4>1. k < i <=> k <= i BY <1>2, <3>2
      <4> QED BY <1>2, <1>4, <3>2, <4>1
    <3> QED BY <3>1, <3>2
  <2>4. last => k <= i BY <1>2
  <2> QED BY <2>1, <2>2, <2>3, <2>4
<1>6. RingShape(s, n) BY <1>5, <1>13 DEF RingShape
<1>7. /\ (IF r.at = n /\ (r.link <=> r.expects) THEN 0 ELSE r.at) = i
      /\ (IF r.at = n /\ (r.link <=> r.expects) THEN ~r.expects ELSE r.expects) <=> r.cycle
  <2>1. Linked(r).at = i /\ (Linked(r).expects <=> r.cycle) BY DEF Idle
  <2>2. /\ Linked(r).at = IF r.at = n /\ (r.link <=> r.expects) THEN 0 ELSE r.at
        /\ Linked(r).expects = IF r.at = n /\ (r.link <=> r.expects) THEN ~r.expects
                               ELSE r.expects
    BY <1>1, LinkedShape
  <2> QED BY <2>1, <2>2
<1>8. /\ Linked(s).at = (IF s.at = n /\ (s.link <=> s.expects) THEN 0 ELSE s.at)
      /\ Linked(s).expects = IF s.at = n /\ (s.link <=> s.expects) THEN ~s.expects
                             ELSE s.expects
      /\ Linked(s).trbs = s.trbs
  BY <1>6, LinkedShape
<1>9. Linked(s).at = i /\ (Linked(s).expects <=> r.cycle)
  <2>1. CASE r.at = n /\ (r.link <=> r.expects)
    <3>1. i = 0 /\ ~last BY <1>7, <2>1
    <3> QED BY <1>3, <1>7, <1>8, <2>1, <3>1
  <2>2. CASE ~(r.at = n /\ (r.link <=> r.expects))
    <3>1. r.at = i /\ r.at # n BY <1>2, <1>7, <2>2
    <3> QED BY <1>3, <1>7, <1>8, <3>1
  <2> QED BY <2>1, <2>2
<1>10. /\ i = (IF s.index = 0 THEN n ELSE s.index) - 1
       /\ r.cycle <=> (s.cycle <=> s.index # 0)
       /\ s.index = 0 => ~(s.link <=> s.cycle)
  <2>1. CASE last BY <1>2, <1>3, <2>1
  <2>2. CASE ~last BY <1>2, <1>3, <2>2
  <2> QED BY <2>1, <2>2
<1>11. Busy(s, n) BY <1>6, <1>9, <1>10 DEF Busy
<1>12. CurrentTrb(s) = i /\ CurrentWork(s) = [page |-> page]
  BY <1>4, <1>8, <1>9 DEF CurrentTrb, CurrentWork
<1> QED BY <1>11, <1>12 DEF s

\* When the controller is done with it the ring is idle again.
LEMMA WorkDoneIdle ==
    ASSUME NEW n \in Nat \ {0, 1}, NEW r, Busy(r, n)
    PROVE  Idle(WorkDone(r), n)
<1> DEFINE l == Linked(r)
           s == WorkDone(r)
<1>1. /\ RingShape(l, n) /\ RingShape(r, n) /\ l.index = r.index /\ l.cycle = r.cycle
      /\ l.link = r.link
  BY LinkedShape DEF Busy
<1>2. /\ r.index \in 0..(n - 1) /\ r.cycle \in BOOLEAN /\ r.link \in BOOLEAN
      /\ l.expects \in BOOLEAN
  BY <1>1 DEF RingShape, WorkRings, Trb
<1>3. /\ l.at = (IF r.index = 0 THEN n ELSE r.index) - 1
      /\ l.expects <=> (r.cycle <=> r.index # 0)
      /\ r.index = 0 => ~(r.link <=> r.cycle)
  BY DEF Busy
<1>4. s = [l EXCEPT !.at = @ + 1] BY DEF WorkDone
<1> HIDE DEF l, s
<1>5. /\ s.at = l.at + 1 /\ s.expects = l.expects /\ s.index = r.index /\ s.cycle = r.cycle
      /\ s.link = r.link /\ s.trbs = l.trbs /\ s.usable = n
      /\ s \in WorkRings(n)
  <2>1. l \in WorkRings(n) BY <1>1 DEF RingShape
  <2>2. l.at + 1 \in 0..n BY <1>2, <1>3
  <2>3. s = [l EXCEPT !.at = l.at + 1] BY <1>4
  <2> QED BY <1>1, <2>1, <2>2, <2>3 DEF WorkRings
<1>6. RingShape(s, n) BY <1>1, <1>5 DEF RingShape
<1>7. /\ Linked(s).at = (IF s.at = n /\ (s.link <=> s.expects) THEN 0 ELSE s.at)
      /\ Linked(s).expects = IF s.at = n /\ (s.link <=> s.expects) THEN ~s.expects
                             ELSE s.expects
  BY <1>6, LinkedShape
<1>8. Linked(s).at = s.index /\ (Linked(s).expects <=> s.cycle)
  <2>1. CASE r.index = 0 BY <1>2, <1>3, <1>5, <1>7, <2>1
  <2>2. CASE r.index # 0 BY <1>2, <1>3, <1>5, <1>7, <2>2
  <2> QED BY <2>1, <2>2
<1> QED BY <1>6, <1>8 DEF Idle, s
----------------------------------------------------------------------------
(* Decoding                                                                *)

HidCode == UsbKey \cup UsbButton
Heard == [code : HidCode, down : BOOLEAN]

\* xs tells of each code of a set once: down, if it is one of those that are
\* down now.
Lists(xs, codes, new) ==
    /\ xs \in Seq(Heard)
    /\ \A i \in 1..Len(xs) : xs[i].code \in codes /\ (xs[i].down <=> xs[i].code \in new)
    /\ \A c \in codes : \E i \in 1..Len(xs) : xs[i].code = c
    /\ \A i, j \in 1..Len(xs) : xs[i].code = xs[j].code => i = j

\* It tells of the codes of the one set before those of the other.
Precedes(xs, first, second) ==
    \A i, j \in 1..Len(xs) : xs[i].code \in first /\ xs[j].code \in second => i < j

\* SetToSeq lists a set.
LEMMA SetListed ==
    ASSUME NEW S, IsFiniteSet(S)
    PROVE  /\ Cardinality(S) \in Nat
           /\ SetToSeq(S) \in [1..Cardinality(S) -> S]
           /\ \A i, j \in 1..Cardinality(S) : SetToSeq(S)[i] = SetToSeq(S)[j] => i = j
           /\ \A c \in S : \E i \in 1..Cardinality(S) : SetToSeq(S)[i] = c
<1> DEFINE n == Cardinality(S)
           f == SetToSeq(S)
<1>1. n \in Nat /\ ExistsBijection(1..n, S) BY FS_CardinalityType
<1>2. PICK b \in Bijection(1..n, S) : TRUE BY <1>1 DEF ExistsBijection
<1>3. b \in [1..n -> S] /\ \A i, j \in 1..n : b[i] = b[j] => i = j
  BY <1>2 DEF Bijection, Injection, IsInjective
<1>4. b \in [1..n -> S] /\ IsInjective(b) BY <1>3 DEF IsInjective
<1>5. f \in [1..n -> S] /\ IsInjective(f) BY <1>4 DEF SetToSeq
<1> HIDE DEF f
<1>6. f \in Injection(1..n, S) BY <1>5 DEF Injection, IsInjective
<1>7. IsFiniteSet(1..n) /\ Cardinality(1..n) = n
  <2>1. IsFiniteSet(1..n) /\ Cardinality(1..n) = IF 1 > n THEN 0 ELSE n - 1 + 1
    BY <1>1, FS_Interval
  <2> QED BY <1>1, <2>1
<1>8. f \in Surjection(1..n, S) BY <1>6, <1>7, FS_Injection
<1>9. \A c \in S : \E i \in 1..n : f[i] = c BY <1>8 DEF Surjection
<1>10. \A i, j \in 1..n : f[i] = f[j] => i = j BY <1>5 DEF IsInjective
<1> QED BY <1>1, <1>5, <1>9, <1>10 DEF f

\* The codes of a part go the same way.
LEMMA PartLists ==
    ASSUME NEW codes, IsFiniteSet(codes), codes \subseteq HidCode, NEW down \in BOOLEAN,
           NEW new, \A c \in codes : c \in new <=> down
    PROVE  Lists(Part(codes, down), codes, new)
<1> DEFINE n == Cardinality(codes)
           f == SetToSeq(codes)
           xs == [i \in 1..n |-> [code |-> f[i], down |-> down]]
<1>1. /\ n \in Nat /\ f \in [1..n -> codes]
      /\ \A i, j \in 1..n : f[i] = f[j] => i = j
      /\ \A c \in codes : \E i \in 1..n : f[i] = c
  BY SetListed
<1> HIDE DEF f, n
<1>2. xs \in Seq(Heard) /\ Len(xs) = n
  <2>1. \A i \in 1..n : [code |-> f[i], down |-> down] \in Heard BY <1>1 DEF Heard
  <2> QED BY <1>1, <2>1
<1>3. \A i \in 1..n : xs[i] = [code |-> f[i], down |-> down] OBVIOUS
<1> HIDE DEF xs
<1>4. Lists(xs, codes, new) BY <1>1, <1>2, <1>3 DEF Lists
<1> QED BY <1>4 DEF xs, f, n, Part

\* Two lists one after the other.
LEMMA ListsJoin ==
    ASSUME NEW s, NEW t, NEW A, NEW B, NEW new, Lists(s, A, new), Lists(t, B, new), A \cap B = {}
    PROVE  Lists(s \o t, A \cup B, new) /\ Precedes(s \o t, A, B)
<1> DEFINE xs == s \o t
           m == Len(s)
           n == Len(t)
<1>1. /\ s \in Seq(Heard) /\ t \in Seq(Heard) /\ m \in Nat /\ n \in Nat
      /\ \A i \in 1..m : s[i].code \in A /\ (s[i].down <=> s[i].code \in new)
      /\ \A i \in 1..n : t[i].code \in B /\ (t[i].down <=> t[i].code \in new)
      /\ \A i, j \in 1..m : s[i].code = s[j].code => i = j
      /\ \A i, j \in 1..n : t[i].code = t[j].code => i = j
  BY DEF Lists
<1>2. xs \in Seq(Heard) /\ Len(xs) = m + n BY <1>1
<1>3. \A i \in 1..m : xs[i] = s[i] BY <1>1
<1>4. \A i \in 1..(m + n) : i \notin 1..m => i - m \in 1..n /\ xs[i] = t[i - m] BY <1>1
<1>5. \A i \in 1..n : i + m \in 1..(m + n) /\ xs[i + m] = t[i]
  <2> TAKE i \in 1..n
  <2>1. i + m \in 1..(m + n) /\ i + m \notin 1..m /\ i + m - m = i BY <1>1
  <2> QED BY <1>4, <2>1
<1> HIDE DEF xs, m, n
<1>6. \A i \in 1..(m + n) :
         \/ i \in 1..m /\ xs[i] = s[i] /\ xs[i].code \in A
         \/ i - m \in 1..n /\ i \notin 1..m /\ xs[i] = t[i - m] /\ xs[i].code \in B
  BY <1>1, <1>3, <1>4
<1>7. \A i \in 1..Len(xs) : xs[i].code \in A \cup B /\ (xs[i].down <=> xs[i].code \in new)
  BY <1>1, <1>2, <1>6
<1>8. ASSUME NEW c \in A \cup B PROVE \E i \in 1..Len(xs) : xs[i].code = c
  <2>1. CASE c \in A
    <3>1. PICK i \in 1..m : s[i].code = c BY <2>1 DEF Lists, m
    <3>2. i \in 1..Len(xs) /\ xs[i].code = c BY <1>1, <1>2, <1>3, <3>1
    <3> QED BY <3>2
  <2>2. CASE c \in B
    <3>1. PICK i \in 1..n : t[i].code = c BY <2>2 DEF Lists, n
    <3>2. i + m \in 1..Len(xs) /\ xs[i + m].code = c BY <1>2, <1>5, <3>1
    <3> QED BY <3>2
  <2> QED BY <2>1, <2>2
<1>9. \A i, j \in 1..Len(xs) : xs[i].code = xs[j].code => i = j
  <2> TAKE i, j \in 1..Len(xs)
  <2>1. i \in 1..(m + n) /\ j \in 1..(m + n) BY <1>2
  <2>2. CASE i \in 1..m /\ j \in 1..m BY <1>1, <1>3, <2>2
  <2>3. CASE i \notin 1..m /\ j \notin 1..m
    <3>1. i - m \in 1..n /\ j - m \in 1..n /\ xs[i] = t[i - m] /\ xs[j] = t[j - m]
      BY <1>6, <2>1, <2>3
    <3>2. i - m = j - m => i = j BY <1>1, <2>1
    <3> QED BY <1>1, <3>1, <3>2
  <2>4. CASE (i \in 1..m) # (j \in 1..m) BY <1>6, <2>1, <2>4
  <2> QED BY <2>2, <2>3, <2>4
<1>10. \A i, j \in 1..Len(xs) : xs[i].code \in A /\ xs[j].code \in B => i < j
  <2> SUFFICES ASSUME NEW i \in 1..Len(xs), NEW j \in 1..Len(xs), xs[i].code \in A,
                      xs[j].code \in B
               PROVE  i < j
    OBVIOUS
  <2>1. i \in 1..m /\ j \notin 1..m /\ j \in 1..(m + n) BY <1>2, <1>6
  <2> QED BY <1>1, <2>1
<1>11. Lists(xs, A \cup B, new) BY <1>2, <1>7, <1>8, <1>9 DEF Lists
<1> QED BY <1>10, <1>11 DEF Precedes, xs

\* A keyboard's report: the keys that go down come after all of the modifiers.
LEMMA KeysListed ==
    ASSUME NEW before \in SUBSET UsbKey, NEW report, report.down \subseteq UsbKey
    PROVE  LET xs == KeyTransitions(before, report)
               changed == (before \ report.down) \cup (report.down \ before)
           IN  /\ Lists(xs, changed, report.down)
               /\ Precedes(xs, changed \cap UsbModifier,
                           (report.down \ before) \ UsbModifier)
<1> DEFINE new == report.down
           A == (before \ new) \ UsbModifier
           B == (before \ new) \cap UsbModifier
           C == (new \ before) \cap UsbModifier
           D == (new \ before) \ UsbModifier
           xs == KeyTransitions(before, report)
           changed == (before \ new) \cup (new \ before)
<1>1. /\ IsFiniteSet(A) /\ IsFiniteSet(B) /\ IsFiniteSet(C) /\ IsFiniteSet(D)
      /\ A \subseteq HidCode /\ B \subseteq HidCode /\ C \subseteq HidCode /\ D \subseteq HidCode
  BY UsbHidAssumption, FS_Subset DEF HidCode
<1>2. /\ \A c \in A : c \in new <=> FALSE
      /\ \A c \in B : c \in new <=> FALSE
      /\ \A c \in C : c \in new <=> TRUE
      /\ \A c \in D : c \in new <=> TRUE
  OBVIOUS
<1>3. A \cap B = {} /\ (A \cup B) \cap C = {} /\ ((A \cup B) \cup C) \cap D = {} OBVIOUS
<1>4. changed = ((A \cup B) \cup C) \cup D /\ changed \cap UsbModifier \subseteq ((A \cup B) \cup C)
  OBVIOUS
<1>5. xs = ((Part(A, FALSE) \o Part(B, FALSE)) \o Part(C, TRUE)) \o Part(D, TRUE)
  BY DEF KeyTransitions
<1> HIDE DEF new, A, B, C, D, xs, changed
<1>6. /\ Lists(Part(A, FALSE), A, new) /\ Lists(Part(B, FALSE), B, new)
      /\ Lists(Part(C, TRUE), C, new) /\ Lists(Part(D, TRUE), D, new)
  BY <1>1, <1>2, PartLists
<1>7. Lists(Part(A, FALSE) \o Part(B, FALSE), A \cup B, new) BY <1>3, <1>6, ListsJoin
<1>8. Lists((Part(A, FALSE) \o Part(B, FALSE)) \o Part(C, TRUE), (A \cup B) \cup C, new)
  BY <1>3, <1>6, <1>7, ListsJoin
<1>9. Lists(xs, ((A \cup B) \cup C) \cup D, new) /\ Precedes(xs, (A \cup B) \cup C, D)
  BY <1>3, <1>5, <1>6, <1>8, ListsJoin
<1>10. Precedes(xs, changed \cap UsbModifier, D) BY <1>4, <1>9 DEF Precedes
<1>11. Lists(xs, changed, new) BY <1>4, <1>9
<1> QED BY <1>10, <1>11 DEF new, D, xs, changed

\* A mouse's report.
LEMMA ButtonsListed ==
    ASSUME NEW before \in SUBSET UsbButton, NEW report, report.down \subseteq UsbButton
    PROVE  Lists(ButtonTransitions(before, report),
                 (before \ report.down) \cup (report.down \ before), report.down)
<1> DEFINE codes == (before \ report.down) \cup (report.down \ before)
           n == Cardinality(codes)
           f == SetToSeq(codes)
           xs == [i \in 1..n |-> [code |-> f[i], down |-> f[i] \in report.down]]
<1>1. IsFiniteSet(codes) /\ codes \subseteq HidCode
  BY UsbHidAssumption, FS_Subset DEF HidCode
<1> HIDE DEF codes
<1>2. /\ n \in Nat /\ f \in [1..n -> codes]
      /\ \A i, j \in 1..n : f[i] = f[j] => i = j
      /\ \A c \in codes : \E i \in 1..n : f[i] = c
  BY <1>1, SetListed
<1> HIDE DEF f, n
<1>3. Len(f) = n BY <1>2
<1>4. xs \in Seq(Heard) /\ Len(xs) = n
  <2>1. ASSUME NEW i \in 1..n
        PROVE  [code |-> f[i], down |-> f[i] \in report.down] \in Heard
    <3>1. f[i] \in HidCode BY <1>1, <1>2
    <3>2. (f[i] \in report.down) \in BOOLEAN OBVIOUS
    <3> QED BY <3>1, <3>2 DEF Heard
  <2> QED BY <1>2, <2>1
<1>5. \A i \in 1..n : xs[i].code = f[i] /\ (xs[i].down <=> f[i] \in report.down) OBVIOUS
<1>6. xs = ButtonTransitions(before, report) BY <1>3 DEF ButtonTransitions, codes, f
<1> HIDE DEF xs
<1>7. Lists(xs, codes, report.down) BY <1>2, <1>4, <1>5 DEF Lists
<1> QED BY <1>6, <1>7 DEF codes
\* What the stream has heard after a list of what changed in a device: what the
\* device reports, each transition truly.
LEMMA HeardAll ==
    ASSUME NEW C, C \subseteq HidCode, NEW report, report.down \subseteq C,
           NEW t \in [down : SUBSET HidCode, true : {TRUE}],
           C \cap (UsbKey \ UsbModifier) # {} => UsbModifier \subseteq C,
           NEW xs,
           Lists(xs, ((t.down \cap C) \ report.down) \cup (report.down \ (t.down \cap C)),
                 report.down),
           Precedes(xs, (((t.down \cap C) \ report.down) \cup (report.down \ (t.down \cap C)))
                           \cap UsbModifier,
                    (report.down \ (t.down \cap C)) \ UsbModifier)
    PROVE  HearsAll(report, t, xs) = [down |-> (t.down \ C) \cup report.down, true |-> TRUE]
<1> DEFINE N == Len(xs)
           before == t.down \cap C
           new == report.down
           changed == (before \ new) \cup (new \ before)
           Turned(i) == {xs[j].code : j \in 1..i}
           D(i) == {c \in HidCode : c \in t.down <=> c \notin Turned(i)}
           g == [i \in 0..N |-> [down |-> D(i), true |-> TRUE]]
           heard == CHOOSE h : h = [i \in 0..N |->
                        IF i = 0 THEN t ELSE Hears(report, h[i - 1], xs[i])]
<1>1. /\ xs \in Seq(Heard) /\ N \in Nat
      /\ \A i \in 1..N : xs[i].code \in changed /\ (xs[i].down <=> xs[i].code \in new)
      /\ \A c \in changed : \E i \in 1..N : xs[i].code = c
      /\ \A i, j \in 1..N : xs[i].code = xs[j].code => i = j
      /\ \A i, j \in 1..N : xs[i].code \in changed \cap UsbModifier
                              /\ xs[j].code \in (new \ before) \ UsbModifier => i < j
  BY DEF Lists, Precedes
<1>2. t = [down |-> t.down, true |-> TRUE] /\ t.down \subseteq HidCode OBVIOUS
<1>3. g[0] = t
  <2>1. Turned(0) = {} OBVIOUS
  <2>2. D(0) = t.down BY <1>2, <2>1
  <2>3. 0 \in 0..N BY <1>1
  <2> QED BY <1>2, <2>2, <2>3
<1>4. ASSUME NEW i \in 1..N PROVE g[i] = Hears(report, g[i - 1], xs[i])
  <2> DEFINE c == xs[i].code
             u == g[i - 1]
  <2>1. i \in 0..N /\ i - 1 \in 0..N /\ i - 1 \in Nat BY <1>1
  <2>2. u.down = D(i - 1) /\ u.true = TRUE /\ g[i] = [down |-> D(i), true |-> TRUE] BY <2>1
  <2>3. c \notin Turned(i - 1)
    <3>1. \A j \in 1..(i - 1) : j \in 1..N /\ j # i BY <1>1
    <3> QED BY <1>1, <3>1
  <2>4. Turned(i) = Turned(i - 1) \cup {c}
    <3>1. \A j : j \in 1..i <=> j \in 1..(i - 1) \/ j = i BY <2>1
    <3> QED BY <3>1
  <2>5. c \in HidCode /\ c \in C /\ (c \in new <=> c \notin t.down) /\ (xs[i].down <=> c \in new)
    BY <1>1
  <2>6. D(i) = IF xs[i].down THEN D(i - 1) \cup {c} ELSE D(i - 1) \ {c}
    <3> HIDE DEF Turned, c
    <3> QED BY <2>3, <2>4, <2>5
  <2>7. xs[i].down <=> c \notin D(i - 1)
    <3> HIDE DEF Turned, c
    <3> QED BY <2>3, <2>5
  <2>8. ASSUME xs[i].down, c \in UsbKey \ UsbModifier
        PROVE  D(i - 1) \cap UsbModifier = new \cap UsbModifier
    <3>1. UsbModifier \subseteq C BY <2>5, <2>8
    <3>2. c \in (new \ before) \ UsbModifier BY <2>5, <2>8
    <3>3. ASSUME NEW m \in UsbModifier PROVE m \in Turned(i - 1) <=> m \in changed
      <4>1. ASSUME m \in changed PROVE m \in Turned(i - 1)
        <5>1. PICK j \in 1..N : xs[j].code = m BY <1>1, <4>1
        <5>2. j < i BY <1>1, <3>2, <4>1, <5>1
        <5>3. j \in 1..(i - 1) BY <2>1, <5>2
        <5> QED BY <5>1, <5>3
      <4>2. ASSUME m \in Turned(i - 1) PROVE m \in changed
        <5>1. PICK j \in 1..(i - 1) : xs[j].code = m BY <4>2
        <5>2. j \in 1..N BY <1>1
        <5> QED BY <1>1, <5>1, <5>2
      <4> QED BY <4>1, <4>2
    <3> HIDE DEF Turned
    <3>4. \A m \in UsbModifier : m \in D(i - 1) <=> m \in new BY <1>2, <3>1, <3>3
    <3> QED BY <3>4
  <2> HIDE DEF g, D, c, Turned, new
  <2>9. Hears(report, u, xs[i]).down = D(i) BY <2>2, <2>6 DEF Hears, c
  <2>10. Hears(report, u, xs[i]).true = TRUE
    <3>1. /\ u.true
          /\ xs[i].down <=> c \notin u.down
          /\ xs[i].down /\ c \in UsbKey \ UsbModifier =>
               u.down \cap UsbModifier = report.down \cap UsbModifier
      BY <2>2, <2>7, <2>8 DEF new
    <3> HIDE DEF u
    <3> QED BY <3>1 DEF Hears, c
  <2>11. Hears(report, u, xs[i])
           = [down |-> Hears(report, u, xs[i]).down, true |-> Hears(report, u, xs[i]).true]
    BY DEF Hears
  <2> QED BY <2>2, <2>9, <2>10, <2>11
<1>5. g = [i \in 0..N |-> IF i = 0 THEN t ELSE Hears(report, g[i - 1], xs[i])]
  <2>1. g = [i \in 0..N |-> g[i]] OBVIOUS
  <2> HIDE DEF g
  <2>2. \A i \in 0..N : g[i] = IF i = 0 THEN t ELSE Hears(report, g[i - 1], xs[i])
    <3>1. \A i \in 0..N : i = 0 \/ i \in 1..N BY <1>1
    <3> QED BY <1>3, <1>4, <3>1
  <2> QED BY <2>1, <2>2
<1>6. g[N] = [down |-> (t.down \ C) \cup report.down, true |-> TRUE]
  <2>1. N \in 0..N BY <1>1
  <2>2. \A c : c \in Turned(N) <=> c \in changed BY <1>1
  <2> HIDE DEF Turned
  <2>3. D(N) = (t.down \ C) \cup report.down BY <1>2, <2>2
  <2> QED BY <2>1, <2>3
<1> HIDE DEF g
<1>7. heard = [i \in 0..N |-> IF i = 0 THEN t ELSE Hears(report, heard[i - 1], xs[i])]
  BY <1>5
<1> HIDE DEF heard
<1> DEFINE T == {i \in Nat : i <= N => heard[i] = g[i]}
<1>8. 0 \in T BY <1>1, <1>3, <1>7
<1>9. ASSUME NEW i \in Nat, i \in T PROVE i + 1 \in T
  <2> SUFFICES ASSUME i + 1 <= N PROVE heard[i + 1] = g[i + 1] OBVIOUS
  <2>0. PICK e \in Nat : e = i + 1 OBVIOUS
  <2>1. heard[i] = g[i] /\ e \in 1..N /\ e \in 0..N /\ e - 1 = i /\ e # 0
    BY <1>1, <1>9, <2>0
  <2>2. heard[e] = Hears(report, heard[i], xs[e]) BY <1>7, <2>1
  <2>3. g[e] = Hears(report, g[i], xs[e]) BY <1>4, <2>1
  <2>4. heard[e] = g[e] BY <2>1, <2>2, <2>3
  <2> QED BY <2>0, <2>4
<1>10. Nat \subseteq T
  <2> HIDE DEF T
  <2> QED BY <1>8, <1>9, SetInduction
<1>11. heard[N] = g[N] BY <1>1, <1>10
<1> QED BY <1>6, <1>11 DEF heard, HearsAll

\* A report that is decoded leaves in the stream what the device reports.
LEMMA Decoded ==
    ASSUME NEW e \in HidEndpoint, NEW t \in [down : SUBSET HidCode, true : {TRUE}],
           hid[e].down = t.down \cap Codes(e), hid[e].buffer.down \subseteq Codes(e)
    PROVE  m52_decode_report(e, t)
             = [down |-> (t.down \ Codes(e)) \cup hid[e].buffer.down, true |-> TRUE]
<1> DEFINE report == hid[e].buffer
           before == hid[e].down
           C == Codes(e)
           xs == IF e = "keyboard" THEN KeyTransitions(before, report)
                 ELSE ButtonTransitions(before, report)
           changed == (before \ report.down) \cup (report.down \ before)
<1>1. C \subseteq HidCode /\ (C \cap (UsbKey \ UsbModifier) # {} => UsbModifier \subseteq C)
  BY UsbHidAssumption DEF Codes, HidCode
<1>2. /\ Lists(xs, changed, report.down)
      /\ Precedes(xs, changed \cap UsbModifier, (report.down \ before) \ UsbModifier)
  <2>1. CASE e = "keyboard"
    <3>1. C = UsbKey BY <2>1 DEF Codes
    <3>2. before \in SUBSET UsbKey /\ report.down \subseteq UsbKey BY <3>1
    <3>3. xs = KeyTransitions(before, report) BY <2>1
    <3> HIDE DEF xs, report, before
    <3> QED BY <3>2, <3>3, KeysListed
  <2>2. CASE e = "mouse"
    <3>1. C = UsbButton BY <2>2 DEF Codes
    <3>2. before \in SUBSET UsbButton /\ report.down \subseteq UsbButton BY <3>1
    <3>3. xs = ButtonTransitions(before, report) BY <2>2
    <3>4. changed \cap UsbModifier = {} BY <3>2, UsbHidAssumption
    <3> HIDE DEF xs, report, before, changed
    <3>5. Lists(xs, (before \ report.down) \cup (report.down \ before), report.down)
      BY <3>2, <3>3, ButtonsListed
    <3> QED BY <3>4, <3>5 DEF Precedes, changed
  <2> QED BY <2>1, <2>2 DEF HidEndpoint
<1>3. before = t.down \cap C OBVIOUS
<1>4. m52_decode_report(e, t) = HearsAll(report, t, xs)
  BY DEF m52_decode_report
<1> HIDE DEF xs, report, before, C
<1>5. Lists(xs, ((t.down \cap C) \ report.down) \cup (report.down \ (t.down \cap C)), report.down)
  BY <1>2, <1>3
<1>6. Precedes(xs, (((t.down \cap C) \ report.down) \cup (report.down \ (t.down \cap C)))
                      \cap UsbModifier,
               (report.down \ (t.down \cap C)) \ UsbModifier)
  BY <1>2, <1>3
<1>7. report.down \subseteq C BY DEF report, C
<1>8. HearsAll(report, t, xs) = [down |-> (t.down \ C) \cup report.down, true |-> TRUE]
  BY <1>1, <1>5, <1>6, <1>7, HeardAll
<1>9. m52_decode_report(e, t) = [down |-> (t.down \ C) \cup report.down, true |-> TRUE]
  BY <1>4, <1>8
<1> QED BY <1>9 DEF C, report
----------------------------------------------------------------------------
(* Keyboard and mouse                                                      *)

HidUsable == InterruptRingUsable
HidEvent ==
    [type : {"transfer"}, endpoint : HidEndpoint, trb : Nat, ok : {TRUE}]
    \cup {[type |-> "port"], [type |-> "none"]}
HidRecords ==
    [outstanding : BOOLEAN, expected : Nat, frame : BOOLEAN,
     buffer : [valid : BOOLEAN, down : SUBSET HidCode], down : SUBSET HidCode,
     ring : WorkRings(HidUsable)]

\* An endpoint with waiting events, whose device reported last: nothing is
\* out, or the transfer is with the controller, or its one event waits and
\* the buffer has what the device reported.
EndpointOK(x, waits, last, codes) ==
    /\ x \in HidRecords /\ x.down \subseteq codes /\ x.buffer.down \subseteq codes
    /\ IF waits = {}
         THEN /\ x.down = last
              /\ IF x.outstanding THEN Busy(x.ring, HidUsable) ELSE Idle(x.ring, HidUsable)
         ELSE /\ x.outstanding /\ Idle(x.ring, HidUsable) /\ x.buffer.down = last
              /\ \E j : waits = {j}

\* The same of both endpoints.
EndpointsOK(h, waits, last) ==
    /\ h \in [HidEndpoint -> HidRecords]
    /\ \A e \in HidEndpoint : EndpointOK(h[e], waits[e], last[e], Codes(e))

HidWaits == [e \in HidEndpoint |-> EventsOf(e)]

HidInv ==
    /\ EventRingOK(HidEvent)
    /\ EndpointsOK(hid, HidWaits, delivered)
    /\ delivered \in [HidEndpoint -> SUBSET HidCode]
    /\ told \in [down : SUBSET HidCode, true : {TRUE}]
    /\ \A e \in HidEndpoint : hid[e].down = told.down \cap Codes(e)

\* The ring of an endpoint has a place for more than one entry.
LEMMA HidUsableType == HidUsable \in Nat \ {0, 1}
BY UsbHidAssumption DEF HidUsable

\* What the invariant says of the properties.
LEMMA HidInvReports == HidInv => ReportsTrue
<1> SUFFICES ASSUME HidInv PROVE ReportsTrue OBVIOUS
<1>1. told.true BY DEF HidInv
<1>2. ASSUME NEW e \in HidEndpoint
      PROVE  /\ EventsOf(e) = {} => hid[e].down = delivered[e]
             /\ Cardinality(EventsOf(e)) + (IF HasWork(hid[e].ring) THEN 1 ELSE 0)
                  = IF hid[e].outstanding THEN 1 ELSE 0
  <2>1. EndpointOK(hid[e], EventsOf(e), delivered[e], Codes(e))
    BY DEF HidInv, EndpointsOK, HidWaits
  <2>2. CASE EventsOf(e) = {}
    <3>1. /\ hid[e].down = delivered[e]
          /\ IF hid[e].outstanding THEN Busy(hid[e].ring, HidUsable)
             ELSE Idle(hid[e].ring, HidUsable)
      BY <2>1, <2>2 DEF EndpointOK
    <3>2. HasWork(hid[e].ring) <=> hid[e].outstanding
      BY <3>1, HidUsableType, WorkFound
    <3>3. Cardinality(EventsOf(e)) = 0 BY <2>2, FS_EmptySet
    <3> QED BY <3>1, <3>2, <3>3
  <2>3. CASE EventsOf(e) # {}
    <3>1. /\ hid[e].outstanding /\ Idle(hid[e].ring, HidUsable)
          /\ \E j : EventsOf(e) = {j}
      BY <2>1, <2>3 DEF EndpointOK
    <3>2. ~HasWork(hid[e].ring) BY <3>1, HidUsableType, WorkFound
    <3>3. Cardinality(EventsOf(e)) = 1 BY <3>1, FS_Singleton
    <3> QED BY <2>3, <3>1, <3>2, <3>3
  <2> QED BY <2>2, <2>3
<1>3. \A e \in HidEndpoint : hid[e].down = told.down \cap Codes(e) BY DEF HidInv
<1> QED BY <1>1, <1>2, <1>3 DEF ReportsTrue

\* Arming an endpoint without a transfer hands one to the controller.
LEMMA ArmedOK ==
    ASSUME NEW h, NEW waits, NEW last, EndpointsOK(h, waits, last), NEW e \in HidEndpoint
    PROVE  /\ EndpointsOK(m52_submit_endpoint(h, e), waits, last)
           /\ \A f \in HidEndpoint : m52_submit_endpoint(h, e)[f].down = h[f].down
<1>1. CASE h[e].outstanding
  <2>1. m52_submit_endpoint(h, e) = h BY <1>1 DEF m52_submit_endpoint
  <2> QED BY <2>1
<1>2. CASE ~h[e].outstanding
  <2> DEFINE x == h[e]
             ring == Submitted(x.ring, [page |-> e])
             y == [x EXCEPT !.frame = TRUE, !.buffer = Blank, !.ring = ring,
                            !.expected = x.ring.index, !.outstanding = TRUE]
             new == m52_submit_endpoint(h, e)
  <2>1. /\ h \in [HidEndpoint -> HidRecords] /\ EndpointOK(x, waits[e], last[e], Codes(e))
        /\ x \in HidRecords
    BY DEF EndpointsOK
  <2>2. new = [h EXCEPT ![e] = y] BY <1>2, <2>1 DEF m52_submit_endpoint, HidRecords
  <2>3. waits[e] = {} /\ x.down = last[e] /\ Idle(x.ring, HidUsable)
    BY <1>2, <2>1 DEF EndpointOK
  <2>4. e \in RingPage BY DEF RingPage
  <2>5. Busy(ring, HidUsable) /\ ring \in WorkRings(HidUsable)
    BY <2>3, <2>4, HidUsableType, SubmittedBusy DEF Busy, RingShape
  <2>6. x.ring.index \in Nat BY <2>1, HidUsableType DEF HidRecords, WorkRings
  <2>7. Blank \in [valid : BOOLEAN, down : SUBSET HidCode] /\ Blank.down = {} BY DEF Blank
  <2> HIDE DEF ring
  <2>8. y \in HidRecords /\ y.down = x.down /\ y.buffer = Blank /\ y.outstanding /\ y.ring = ring
    BY <2>1, <2>5, <2>6, <2>7 DEF HidRecords
  <2> HIDE DEF y
  <2>9. EndpointOK(y, waits[e], last[e], Codes(e))
    BY <2>1, <2>3, <2>5, <2>7, <2>8 DEF EndpointOK
  <2> HIDE DEF new, x
  <2>10. new \in [HidEndpoint -> HidRecords] /\ new[e] = y
         /\ \A f \in HidEndpoint : f # e => new[f] = h[f]
    BY <2>1, <2>2, <2>8
  <2>11. \A f \in HidEndpoint : EndpointOK(new[f], waits[f], last[f], Codes(f))
    BY <2>9, <2>10 DEF EndpointsOK
  <2>12. \A f \in HidEndpoint : new[f].down = h[f].down BY <2>8, <2>10 DEF x
  <2> QED BY <2>10, <2>11, <2>12 DEF EndpointsOK, new
<1> QED BY <1>1, <1>2

\* Arming all of them, up to the first that gets no frame.
LEMMA RearmedOK ==
    ASSUME NEW h, NEW waits, NEW last, EndpointsOK(h, waits, last), NEW without
    PROVE  /\ EndpointsOK(m60_rearm_hid_endpoints(h, without), waits, last)
           /\ \A f \in HidEndpoint : m60_rearm_hid_endpoints(h, without)[f].down = h[f].down
<1>1. "keyboard" \in HidEndpoint /\ "mouse" \in HidEndpoint BY DEF HidEndpoint
<1> DEFINE k == m52_submit_endpoint(h, "keyboard")
           m == m52_submit_endpoint(k, "mouse")
<1>2. EndpointsOK(k, waits, last) /\ \A f \in HidEndpoint : k[f].down = h[f].down
  BY <1>1, ArmedOK
<1> HIDE DEF k
<1>3. EndpointsOK(m, waits, last) /\ \A f \in HidEndpoint : m[f].down = k[f].down
  BY <1>1, <1>2, ArmedOK
<1> HIDE DEF m
<1>4. CASE without = "keyboard" BY <1>4 DEF m60_rearm_hid_endpoints
<1>5. CASE without = "mouse"
  <2>1. m60_rearm_hid_endpoints(h, without) = k BY <1>5 DEF m60_rearm_hid_endpoints, k
  <2> QED BY <1>2, <2>1
<1>6. CASE without \notin {"keyboard", "mouse"}
  <2>1. m60_rearm_hid_endpoints(h, without) = m BY <1>6 DEF m60_rearm_hid_endpoints, m, k
  <2> QED BY <1>2, <1>3, <2>1
<1> QED BY <1>4, <1>5, <1>6

\* Nothing is pressed, nothing is out and nothing waits.
LEMMA HidInitInv == EventInit /\ HidInit => HidInv
<1> SUFFICES ASSUME EventInit, HidInit PROVE HidInv OBVIOUS
<1> USE TrbsAssumption, HidUsableType
<1>1. EventRingOK(HidEvent)
  <2> DEFINE slot == [cycle |-> FALSE, event |-> [type |-> "none"]]
             slots == [i \in 0..(EventRingTrbs - 1) |-> slot]
  <2>1. slot \in [cycle : BOOLEAN, event : HidEvent] BY DEF HidEvent
  <2>2. event_ring = [slots |-> slots, at |-> 0, cycle |-> TRUE] /\ event_dequeue_count = 0
    BY DEF EventInit
  <2>3. slots \in [0..(EventRingTrbs - 1) -> [cycle : BOOLEAN, event : HidEvent]]
        /\ \A i \in 0..(EventRingTrbs - 1) : slots[i].cycle = FALSE
    BY <2>1
  <2> HIDE DEF slots
  <2>4. Lap(0) /\ PlaceOf(0) = 0 BY DEF Lap, PlaceOf
  <2> QED BY <2>2, <2>3, <2>4 DEF EventRingOK, EventsOK
<1>2. \A e \in HidEndpoint : EventsOf(e) = {}
  <2>1. EventReady <=> WaitingEvents # <<>> BY <1>1, EventHead
  <2>2. EventReady <=> Pending(event_ring, event_dequeue_count) # 0 BY <1>1, EventHead
  <2>3. Pending(event_ring, event_dequeue_count) = 0
    BY DEF EventInit, Pending, Lap, PlaceOf
  <2>4. WaitingEvents = <<>> BY <2>1, <2>2, <2>3
  <2> QED BY <2>4 DEF EventsOf
<1>3. ASSUME NEW e \in HidEndpoint PROVE EndpointOK(hid[e], {}, {}, Codes(e))
  <2>1. hid[e] = [outstanding |-> FALSE, expected |-> 0, frame |-> FALSE, buffer |-> Blank,
                  down |-> {}, ring |-> NewRing(HidUsable)]
    BY DEF HidInit, HidUsable
  <2>2. Idle(NewRing(HidUsable), HidUsable) BY NewRingIdle
  <2>3. NewRing(HidUsable) \in WorkRings(HidUsable) BY <2>2 DEF Idle, RingShape
  <2>4. Blank \in [valid : BOOLEAN, down : SUBSET HidCode] /\ Blank.down = {} BY DEF Blank
  <2>5. hid[e] \in HidRecords BY <2>1, <2>3, <2>4 DEF HidRecords
  <2> QED BY <2>1, <2>2, <2>4, <2>5 DEF EndpointOK
<1>4. delivered = [e \in HidEndpoint |-> {}] /\ told = [down |-> {}, true |-> TRUE]
  BY DEF HidInit
<1>5. hid \in [HidEndpoint -> HidRecords]
  <2>1. \A e \in HidEndpoint : hid[e] \in HidRecords BY <1>3 DEF EndpointOK
  <2>2. hid = [e \in HidEndpoint |-> hid[e]] BY DEF HidInit
  <2> QED BY <2>1, <2>2
<1>6. EndpointsOK(hid, HidWaits, delivered) BY <1>2, <1>3, <1>4, <1>5 DEF EndpointsOK, HidWaits
<1>7. \A e \in HidEndpoint : hid[e].down = {} BY DEF HidInit
<1> QED BY <1>1, <1>4, <1>6, <1>7 DEF HidInv

\* Arming changes nothing that was reported or told.
LEMMA StartOK ==
    ASSUME HidInv, NEW without, ServiceStart(without)
    PROVE  HidInv'
<1>1. /\ hid' = m60_rearm_hid_endpoints(hid, without)
      /\ told' = told /\ delivered' = delivered /\ UNCHANGED eventVars
  BY DEF ServiceStart
<1>2. /\ EndpointsOK(hid', HidWaits, delivered)
      /\ \A f \in HidEndpoint : hid'[f].down = hid[f].down
  BY <1>1, RearmedOK DEF HidInv
<1>3. HidWaits' = HidWaits
  BY <1>1 DEF HidWaits, EventsOf, WaitingEvents, EventIndex, eventVars
<1>4. EventRingOK(HidEvent)' BY <1>1 DEF HidInv, EventRingOK, EventsOK, eventVars
<1>5. EndpointsOK(hid, HidWaits, delivered)' BY <1>1, <1>2, <1>3 DEF EndpointsOK
<1> QED BY <1>1, <1>2, <1>4, <1>5 DEF HidInv
\* Where the events of an endpoint are when the head was taken.
LEMMA WaitsTaken ==
    ASSUME HidInv, EventReady, xhci_event_dequeue_advance, UNCHANGED event_ring,
           NEW e \in HidEndpoint
    PROVE  /\ EventRingOK(HidEvent)'
           /\ 1 \in EventsOf(e) => EventsOf(e)' = {}
           /\ 1 \notin EventsOf(e) =>
                 /\ EventsOf(e)' = {} <=> EventsOf(e) = {}
                 /\ (\E j : EventsOf(e) = {j}) => \E j : EventsOf(e)' = {j}
<1>1. EventRingOK(HidEvent) BY DEF HidInv
<1>2. /\ EventRingOK(HidEvent)'
      /\ DOMAIN WaitingEvents' = {i \in Nat \ {0} : i + 1 \in DOMAIN WaitingEvents}
      /\ \A i \in DOMAIN WaitingEvents' :
            i + 1 \in DOMAIN WaitingEvents /\ WaitingEvents'[i] = WaitingEvents[i + 1]
  BY <1>1, EventTaken
<1>3. WaitingEvents \in Seq(HidEvent) BY <1>1, WaitingSequence
<1>4. DOMAIN WaitingEvents \subseteq Nat \ {0} BY <1>3
<1>5. EventsOf(e) \subseteq Nat \ {0} BY <1>4 DEF EventsOf
<1>6. EventsOf(e)' = {i \in DOMAIN WaitingEvents' :
          WaitingEvents'[i].type = "transfer" /\ WaitingEvents'[i].endpoint = e}
  BY DEF EventsOf
<1>7. EventsOf(e)' = {i \in Nat \ {0} : i + 1 \in EventsOf(e)}
  <2>1. \A i : i \in EventsOf(e)' <=> i \in Nat \ {0} /\ i + 1 \in EventsOf(e)
    BY <1>2, <1>6 DEF EventsOf
  <2> QED BY <2>1
<1>8. EndpointOK(hid[e], EventsOf(e), delivered[e], Codes(e))
  BY DEF HidInv, EndpointsOK, HidWaits
<1>9. EventsOf(e) = {} \/ \E j : EventsOf(e) = {j} BY <1>8 DEF EndpointOK
<1>10. ASSUME NEW j, EventsOf(e) = {j}, j # 1 PROVE EventsOf(e)' = {j - 1}
  <2>1. j \in Nat \ {0, 1} BY <1>5, <1>10
  <2>2. \A i \in Nat : i + 1 = j <=> i = j - 1 BY <2>1
  <2>3. j - 1 \in Nat \ {0} BY <2>1
  <2> QED BY <1>7, <1>10, <2>2, <2>3
<1>11. ASSUME EventsOf(e) = {1} PROVE EventsOf(e)' = {} BY <1>7, <1>11
<1>12. EventsOf(e) = {} => EventsOf(e)' = {} BY <1>7
<1> QED BY <1>2, <1>9, <1>10, <1>11, <1>12

\* Where they are when an event was posted.
LEMMA WaitsPosted ==
    ASSUME HidInv, NEW event \in HidEvent, PostEvent(event), NEW e \in HidEndpoint
    PROVE  /\ EventRingOK(HidEvent)'
           /\ event.type = "transfer" /\ event.endpoint = e /\ EventsOf(e) = {} =>
                \E j : EventsOf(e)' = {j}
           /\ ~(event.type = "transfer" /\ event.endpoint = e) => EventsOf(e)' = EventsOf(e)
<1>1. EventRingOK(HidEvent) BY DEF HidInv
<1> DEFINE L == Len(WaitingEvents)
<1>2. /\ EventRingOK(HidEvent)'
      /\ L \in Nat /\ DOMAIN WaitingEvents = 1..L
      /\ DOMAIN WaitingEvents' = 1..(L + 1)
      /\ \A i \in DOMAIN WaitingEvents : WaitingEvents'[i] = WaitingEvents[i]
      /\ WaitingEvents'[L + 1] = event
  BY <1>1, EventPosted
<1>3. EventsOf(e)' = {i \in DOMAIN WaitingEvents' :
          WaitingEvents'[i].type = "transfer" /\ WaitingEvents'[i].endpoint = e}
  BY DEF EventsOf
<1> HIDE DEF L
<1> DEFINE mine == event.type = "transfer" /\ event.endpoint = e
           Of(ev) == ev.type = "transfer" /\ ev.endpoint = e
<1>4. \A i : i \in 1..(L + 1) <=> i \in 1..L \/ i = L + 1 BY <1>2
<1>8. EventsOf(e) = {i \in 1..L : Of(WaitingEvents[i])} BY <1>2 DEF EventsOf
<1>9. EventsOf(e)' = {i \in 1..(L + 1) : Of(WaitingEvents'[i])} BY <1>2, <1>3
<1>10. \A i \in 1..L : Of(WaitingEvents'[i]) <=> Of(WaitingEvents[i]) BY <1>2
<1>11. L + 1 \notin 1..L /\ (Of(WaitingEvents'[L + 1]) <=> mine) BY <1>2
<1> HIDE DEF Of
<1>5. EventsOf(e)' = EventsOf(e) \cup (IF mine THEN {L + 1} ELSE {})
  <2>1. CASE mine BY <1>4, <1>8, <1>9, <1>10, <1>11, <2>1
  <2>2. CASE ~mine BY <1>4, <1>8, <1>9, <1>10, <1>11, <2>2
  <2> QED BY <2>1, <2>2
<1>6. event.type = "transfer" /\ event.endpoint = e /\ EventsOf(e) = {} => EventsOf(e)' = {L + 1}
  BY <1>5
<1>7. ~(event.type = "transfer" /\ event.endpoint = e) => EventsOf(e)' = EventsOf(e) BY <1>5
<1> QED BY <1>2, <1>6, <1>7

\* An endpoint whose events only moved up, or were not touched.
LEMMA StaysOK ==
    ASSUME NEW x, NEW waits, NEW after, NEW last, NEW codes, EndpointOK(x, waits, last, codes),
           after = {} <=> waits = {}, (\E j : waits = {j}) => \E j : after = {j}
    PROVE  EndpointOK(x, after, last, codes)
BY DEF EndpointOK

\* The service takes the event of a port, or a report, or finds nothing.
LEMMA TakeOK ==
    ASSUME HidInv, NEW without, ServiceTake(without)
    PROVE  HidInv'
<1>1. delivered' = delivered /\ event_ring' = event_ring BY DEF ServiceTake
<1>2. CASE ~EventReady /\ UNCHANGED <<hid, told, event_dequeue_count>>
  <2>1. HidWaits' = HidWaits
    BY <1>1, <1>2 DEF HidWaits, EventsOf, WaitingEvents, EventIndex
  <2>2. EventRingOK(HidEvent)' BY <1>1, <1>2 DEF HidInv, EventRingOK, EventsOK
  <2> QED BY <1>1, <1>2, <2>1, <2>2 DEF HidInv, EndpointsOK
<1>3. EventReady => 1 \in DOMAIN WaitingEvents /\ Event = WaitingEvents[1]
  BY EventHead DEF HidInv
<1>4. CASE EventReady /\ Event.type = "port" /\ xhci_event_dequeue_advance /\ UNCHANGED <<hid, told>>
  <2>1. \A e \in HidEndpoint : 1 \notin EventsOf(e) BY <1>3, <1>4 DEF EventsOf
  <2>2. "mouse" \in HidEndpoint BY DEF HidEndpoint
  <2>3. EventRingOK(HidEvent)' BY <1>1, <1>4, <2>2, WaitsTaken
  <2>4. ASSUME NEW e \in HidEndpoint
        PROVE  EndpointOK(hid[e], EventsOf(e)', delivered[e], Codes(e))
    <3>1. EndpointOK(hid[e], EventsOf(e), delivered[e], Codes(e))
      BY DEF HidInv, EndpointsOK, HidWaits
    <3>2. /\ EventsOf(e)' = {} <=> EventsOf(e) = {}
          /\ (\E j : EventsOf(e) = {j}) => \E j : EventsOf(e)' = {j}
      BY <1>1, <1>4, <2>1, WaitsTaken
    <3> QED BY <3>1, <3>2, StaysOK
  <2>5. EndpointsOK(hid, HidWaits, delivered)'
    BY <1>1, <1>4, <2>4 DEF HidInv, EndpointsOK, HidWaits
  <2> QED BY <1>1, <1>4, <2>3, <2>5 DEF HidInv
<1>5. ASSUME EventReady, NEW e \in HidEndpoint, IsExpected(Event, e), ConsumeHid(e, without)
      PROVE  HidInv'
  <2> DEFINE x == hid[e]
             y == [x EXCEPT !.outstanding = FALSE, !.down = x.buffer.down]
             h == [hid EXCEPT ![e] = y]
             waits == [f \in HidEndpoint |-> EventsOf(f)']
  <2>1. /\ xhci_event_dequeue_advance /\ told' = m52_decode_report(e, told)
        /\ hid' = m60_rearm_hid_endpoints(
                     [hid EXCEPT ![e].outstanding = FALSE, ![e].down = hid[e].buffer.down], without)
    BY <1>5 DEF ConsumeHid
  <2>2. hid \in [HidEndpoint -> HidRecords] /\ x \in HidRecords
        /\ EndpointOK(x, EventsOf(e), delivered[e], Codes(e))
    BY DEF HidInv, EndpointsOK, HidWaits
  <2>3. hid' = m60_rearm_hid_endpoints(h, without) BY <2>1, <2>2
  <2>4. Event.type = "transfer" /\ Event.endpoint = e BY <1>5 DEF IsExpected
  <2>5. 1 \in EventsOf(e) /\ \A f \in HidEndpoint : f # e => 1 \notin EventsOf(f)
    BY <1>3, <1>5, <2>4 DEF EventsOf
  <2>6. EventRingOK(HidEvent)' /\ EventsOf(e)' = {} BY <1>1, <1>5, <2>1, <2>5, WaitsTaken
  <2>7. Idle(x.ring, HidUsable) /\ x.buffer.down = delivered[e] /\ x.buffer.down \subseteq Codes(e)
    BY <2>2, <2>5 DEF EndpointOK
  <2>8. /\ y \in HidRecords /\ y.down = x.buffer.down /\ y.buffer = x.buffer
        /\ y.ring = x.ring /\ ~y.outstanding
    BY <2>2 DEF HidRecords
  <2> HIDE DEF y
  <2>9. EndpointOK(y, {}, delivered[e], Codes(e)) BY <2>7, <2>8 DEF EndpointOK
  <2>10. /\ h \in [HidEndpoint -> HidRecords] /\ h[e] = y
         /\ \A f \in HidEndpoint : f # e => h[f] = hid[f]
    BY <2>2, <2>8
  <2> HIDE DEF h
  <2>11. ASSUME NEW f \in HidEndpoint PROVE EndpointOK(h[f], EventsOf(f)', delivered[f], Codes(f))
    <3>1. CASE f = e BY <2>6, <2>9, <2>10, <3>1
    <3>2. CASE f # e
      <4>1. EndpointOK(hid[f], EventsOf(f), delivered[f], Codes(f))
        BY DEF HidInv, EndpointsOK, HidWaits
      <4>2. /\ EventsOf(f)' = {} <=> EventsOf(f) = {}
            /\ (\E j : EventsOf(f) = {j}) => \E j : EventsOf(f)' = {j}
        BY <1>1, <1>5, <2>1, <2>5, <3>2, WaitsTaken
      <4>3. EndpointOK(hid[f], EventsOf(f)', delivered[f], Codes(f)) BY <4>1, <4>2, StaysOK
      <4> QED BY <2>10, <3>2, <4>3
    <3> QED BY <3>1, <3>2
  <2>12. EndpointsOK(h, waits, delivered) BY <2>10, <2>11 DEF EndpointsOK
  <2> HIDE DEF waits
  <2>13. EndpointsOK(hid', waits, delivered) /\ \A f \in HidEndpoint : hid'[f].down = h[f].down
    BY <2>3, <2>12, RearmedOK
  <2>14. EndpointsOK(hid, HidWaits, delivered)'
    BY <1>1, <2>13 DEF EndpointsOK, HidWaits, waits
  <2>15. told' = [down |-> (told.down \ Codes(e)) \cup x.buffer.down, true |-> TRUE]
    BY <2>1, <2>7, Decoded DEF HidInv
  <2>16. x.buffer.down \subseteq HidCode BY <2>2 DEF HidRecords
  <2>17. told'.down \subseteq HidCode /\ told' \in [down : SUBSET HidCode, true : {TRUE}]
    BY <2>15, <2>16 DEF HidInv
  <2>18. ASSUME NEW f \in HidEndpoint PROVE hid'[f].down = told'.down \cap Codes(f)
    <3>1. hid'[f].down = h[f].down BY <2>13
    <3>2. CASE f = e BY <2>7, <2>8, <2>10, <2>15, <3>1, <3>2
    <3>3. CASE f # e
      <4>1. Codes(f) \cap Codes(e) = {}
        BY <3>3, UsbHidAssumption DEF Codes, HidEndpoint
      <4>2. hid[f].down = told.down \cap Codes(f) BY DEF HidInv
      <4>3. h[f] = hid[f] BY <2>10, <3>3
      <4> QED BY <2>7, <2>15, <3>1, <4>1, <4>2, <4>3
    <3> QED BY <3>2, <3>3
  <2> QED BY <1>1, <2>6, <2>14, <2>17, <2>18 DEF HidInv
<1>6. \/ ~EventReady /\ UNCHANGED <<hid, told, event_dequeue_count>>
      \/ EventReady /\ Event.type = "port" /\ xhci_event_dequeue_advance /\ UNCHANGED <<hid, told>>
      \/ EventReady /\ \E e \in HidEndpoint : IsExpected(Event, e) /\ ConsumeHid(e, without)
  BY DEF ServiceTake
<1> QED BY <1>2, <1>4, <1>5, <1>6

\* A device reports on the transfer that the controller has for it.
LEMMA ReportsOK ==
    ASSUME HidInv, NEW e \in HidEndpoint, NEW report \in Reports(e), DeviceReports(e, report)
    PROVE  HidInv'
<1> DEFINE x == hid[e]
           event == [type |-> "transfer", endpoint |-> e, trb |-> CurrentTrb(x.ring), ok |-> TRUE]
           y == [x EXCEPT !.buffer = report, !.ring = WorkDone(x.ring)]
<1>1. /\ HasWork(x.ring) /\ PostEvent(event) /\ told' = told
      /\ hid' = [hid EXCEPT ![e].buffer = report, ![e].ring = WorkDone(@)]
      /\ delivered' = [delivered EXCEPT ![e] = report.down]
  BY DEF DeviceReports
<1>2. /\ hid \in [HidEndpoint -> HidRecords] /\ x \in HidRecords
      /\ delivered \in [HidEndpoint -> SUBSET HidCode]
      /\ EndpointOK(x, EventsOf(e), delivered[e], Codes(e))
  BY DEF HidInv, EndpointsOK, HidWaits
<1>3. EventsOf(e) = {} /\ x.outstanding /\ Busy(x.ring, HidUsable)
  BY <1>1, <1>2, HidUsableType, WorkFound DEF EndpointOK
<1>4. CurrentTrb(x.ring) \in Nat /\ Idle(WorkDone(x.ring), HidUsable)
  BY <1>3, HidUsableType, WorkFound, WorkDoneIdle
<1>5. event \in HidEvent BY <1>4 DEF HidEvent
<1>6. /\ EventRingOK(HidEvent)' /\ \E j : EventsOf(e)' = {j}
      /\ \A f \in HidEndpoint : f # e => EventsOf(f)' = EventsOf(f)
  BY <1>1, <1>3, <1>5, WaitsPosted
<1>7. /\ report \in [valid : BOOLEAN, down : SUBSET HidCode] /\ report.down \subseteq Codes(e)
  <2>1. Codes(e) \subseteq HidCode BY DEF Codes, HidCode
  <2>2. report \in [valid : {TRUE}, down : SUBSET Codes(e)] \/ report = [valid |-> FALSE, down |-> {}]
    BY DEF Reports
  <2>3. CASE report \in [valid : {TRUE}, down : SUBSET Codes(e)] BY <2>1, <2>3
  <2>4. CASE report = [valid |-> FALSE, down |-> {}] BY <2>4
  <2> QED BY <2>2, <2>3, <2>4
<1>8. WorkDone(x.ring) \in WorkRings(HidUsable) BY <1>4 DEF Idle, RingShape
<1>9. hid' = [hid EXCEPT ![e] = y] BY <1>1, <1>2
<1> HIDE DEF event
<1>10. /\ y \in HidRecords /\ y.down = x.down /\ y.buffer = report /\ y.outstanding
       /\ y.ring = WorkDone(x.ring)
  BY <1>2, <1>3, <1>7, <1>8 DEF HidRecords
<1> HIDE DEF y
<1>11. /\ hid' \in [HidEndpoint -> HidRecords] /\ hid'[e] = y
       /\ \A f \in HidEndpoint : f # e => hid'[f] = hid[f]
  BY <1>2, <1>9, <1>10
<1>12. /\ delivered' \in [HidEndpoint -> SUBSET HidCode] /\ delivered'[e] = report.down
       /\ \A f \in HidEndpoint : f # e => delivered'[f] = delivered[f]
  BY <1>1, <1>2, <1>7
<1>13. EndpointOK(y, EventsOf(e)', report.down, Codes(e))
  BY <1>2, <1>4, <1>6, <1>7, <1>10 DEF EndpointOK
<1>14. ASSUME NEW f \in HidEndpoint
       PROVE  EndpointOK(hid'[f], EventsOf(f)', delivered'[f], Codes(f))
  <2>1. CASE f = e BY <1>11, <1>12, <1>13, <2>1
  <2>2. CASE f # e
    <3>1. EndpointOK(hid[f], EventsOf(f), delivered[f], Codes(f))
      BY DEF HidInv, EndpointsOK, HidWaits
    <3> QED BY <1>6, <1>11, <1>12, <2>2, <3>1
  <2> QED BY <2>1, <2>2
<1>15. EndpointsOK(hid, HidWaits, delivered)' BY <1>11, <1>14 DEF EndpointsOK, HidWaits
<1>16. \A f \in HidEndpoint : hid'[f].down = told'.down \cap Codes(f)
  BY <1>1, <1>10, <1>11 DEF HidInv
<1> QED BY <1>1, <1>6, <1>12, <1>15, <1>16 DEF HidInv

\* The change of a port is nobody's report.
LEMMA PortsOK == HidInv /\ PortChanges => HidInv'
<1> SUFFICES ASSUME HidInv, PortChanges PROVE HidInv' OBVIOUS
<1> DEFINE event == [type |-> "port"]
<1>1. PostEvent(event) /\ UNCHANGED <<hid, told, delivered>> BY DEF PortChanges, hidVars
<1>2. event \in HidEvent /\ event.type # "transfer" BY DEF HidEvent
<1>3. "mouse" \in HidEndpoint BY DEF HidEndpoint
<1> HIDE DEF event
<1>4. EventRingOK(HidEvent)' /\ \A e \in HidEndpoint : EventsOf(e)' = EventsOf(e)
  BY <1>1, <1>2, <1>3, WaitsPosted
<1>5. EndpointsOK(hid, HidWaits, delivered)' BY <1>1, <1>4 DEF HidInv, EndpointsOK, HidWaits
<1> QED BY <1>1, <1>4, <1>5 DEF HidInv

\* Nothing changes.
LEMMA HidStutters == HidInv /\ UNCHANGED <<hid, told, delivered, eventVars>> => HidInv'
<1> SUFFICES ASSUME HidInv, UNCHANGED <<hid, told, delivered, eventVars>> PROVE HidInv' OBVIOUS
<1>1. HidWaits' = HidWaits BY DEF HidWaits, EventsOf, WaitingEvents, EventIndex, eventVars
<1>2. EventRingOK(HidEvent)' BY DEF HidInv, EventRingOK, EventsOK, eventVars
<1> QED BY <1>1, <1>2 DEF HidInv, EndpointsOK

\* No key or button is lost, stuck or told twice by xhci_service_hid_reports,
\* m52_complete_event and m52_submit_endpoint, for every set of keys and of
\* buttons and every size of the two rings, however often they have gone round,
\* with reports that do not decode and without frames.
THEOREM ReportsTrueAlways == HidSpec => []ReportsTrue
<1>1. EventInit /\ HidInit => HidInv BY HidInitInv
<1>2. HidInv /\ [HidNext]_<<hidVars, eventVars>> => HidInv'
  <2> SUFFICES ASSUME HidInv, [HidNext]_<<hidVars, eventVars>> PROVE HidInv' OBVIOUS
  <2>1. CASE \E without \in OutOfFrames : ServiceStart(without) BY <2>1, StartOK
  <2>2. CASE ServiceTake("none") BY <2>2, TakeOK
  <2>3. CASE ServiceRefuses BY <2>3, HidStutters DEF ServiceRefuses
  <2>4. CASE \E e \in HidEndpoint : \E report \in Reports(e) : DeviceReports(e, report)
    BY <2>4, ReportsOK
  <2>5. CASE PortChanges BY <2>5, PortsOK
  <2>6. CASE UNCHANGED <<hidVars, eventVars>> BY <2>6, HidStutters DEF hidVars
  <2> QED BY <2>1, <2>2, <2>3, <2>4, <2>5, <2>6 DEF HidNext, HidService, HidDevices
<1> QED BY <1>1, <1>2, HidInvReports, PTL DEF HidSpec
=============================================================================
