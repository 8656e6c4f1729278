---------------------------- MODULE BlockDevice ----------------------------
(***************************************************************************)
(* The registry of block devices (kernel/core/block_device.c), the slices    *)
(* of a device that are devices of their own (kernel/core/block_slice.c), and *)
(* the call that passes through them down to a driver.  The kernel makes one   *)
(* call at a time.                                                          *)
(*                                                                         *)
(* The disk has a cache: what a driver has written is in the cache, and only   *)
(* what is on the medium outlives a loss of power.                           *)
(***************************************************************************)
EXTENDS Naturals, Sequences

CONSTANTS
    DiskBlocks,         \* block_count of the disk
    TransferMax,        \* blocks that fit the driver's buffer
    DeviceMax,          \* BLOCK_DEVICE_MAX_DEVICES
    SliceRequests,      \* the slices that are asked for: <<name, first, count, read_only>>
    Datum               \* contents of a block

ASSUME BlockDeviceAssumption ==
    /\ DiskBlocks \in Nat \ {0} /\ TransferMax \in Nat \ {0} /\ DeviceMax \in Nat \ {0}
    /\ \A s \in SliceRequests : s[2] \in Nat /\ s[3] \in Nat /\ s[4] \in BOOLEAN
    /\ Datum \subseteq Nat \ {0} /\ Datum # {}

VARIABLES
    block_devices,      \* the registry; parent 0 marks the disk itself
    call,               \* the call that is being served, or the last one that went well
    cached, medium,     \* the contents of the disk
    kept                \* what the callers may count on: the contents of each block after
                        \* a write that went well, 0 when there is nothing to count on

diskVars == <<cached, medium, kept>>
deviceVars == <<block_devices, call, diskVars>>

DiskBlock == 0..(DiskBlocks - 1)
Devices == 1..Len(block_devices)
NoCall == [op |-> "none", asked |-> <<0, 0>>, device |-> 0, first |-> 0, count |-> 0,
           data |-> <<>>, stage |-> "none"]
CallFails == call' = NoCall
NoneServed == call.stage \in {"ok", "none"}

DeviceInit ==
    /\ block_devices = <<>>
    /\ call = NoCall
    /\ \E d \in Datum : medium = [b \in DiskBlock |-> d]
    /\ cached = medium
    /\ kept = [b \in DiskBlock |-> 0]

----------------------------------------------------------------------------
(* The registry                                                            *)

\* block_device_register: a free entry and a name that no entry has.
CanRegister(device) ==
    /\ device.blocks > 0
    /\ \A i \in Devices : block_devices[i].name # device.name
    /\ Len(block_devices) < DeviceMax

\* block_device_slice_register: a part of a registered device.  A slice of a
\* device that cannot be written cannot be written either.
block_device_slice_register(parent, name, first, count, read_only) ==
    LET slice == [name |-> name, blocks |-> count, first |-> first, parent |-> parent,
                  read_only |-> read_only \/ block_devices[parent].read_only]
    IN  /\ NoneServed
        /\ first < block_devices[parent].blocks
        /\ count > 0 /\ count <= block_devices[parent].blocks - first
        /\ block_devices[parent].read_only => read_only
        /\ CanRegister(slice)
        /\ block_devices' = Append(block_devices, slice)
        /\ UNCHANGED <<call, diskVars>>

----------------------------------------------------------------------------
(* A call                                                                  *)

\* The block of the disk at which a device starts.
Origin[i \in Devices] ==
    IF block_devices[i].parent = 0 THEN 0
    ELSE block_devices[i].first + Origin[block_devices[i].parent]

\* The contents of a disk with data from a block on.
DiskHolds(contents, first, data) ==
    [b \in DiskBlock |-> IF b \in first..(first + Len(data) - 1) THEN data[b - first + 1]
                         ELSE contents[b]]

\* A caller asks a device for blocks; the data of a write comes with it.  What
\* the blocks hold is open until the call has gone well.
Ask(op, device, first, count, data) ==
    /\ NoneServed
    /\ call' = [op |-> op, asked |-> <<device, first>>, device |-> device, first |-> first,
                count |-> count, data |-> data, stage |-> "check"]
    /\ kept' = DiskHolds(kept, Origin[device] + first, [i \in 1..Len(data) |-> 0])
    /\ UNCHANGED <<block_devices, cached, medium>>

\* BLOCK_DEVICE_RESULT_OK reaches the caller.
Answer ==
    /\ call.stage = "done"
    /\ call' = [call EXCEPT !.stage = "ok"]
    /\ kept' = IF call.op # "write" THEN kept
               ELSE DiskHolds(kept, Origin[call.asked[1]] + call.asked[2], call.data)
    /\ UNCHANGED <<block_devices, cached, medium>>

\* block_device_validate_request and the test of block_device_write.
RequestValid(device) ==
    \/ call.op = "flush"
    \/ /\ call.count > 0
       /\ call.first < device.blocks /\ call.count <= device.blocks - call.first
       /\ call.op = "write" => ~device.read_only

\* slice_read and slice_write: the block of the parent.
block_device_slice_translate(device) ==
    [call EXCEPT !.device = device.parent, !.first = device.first + @]

\* block_device_read, block_device_write, block_device_flush: a slice passes
\* the call on to its parent, and has no flush of its own.
block_device_call ==
    /\ call.stage = "check"
    /\ LET device == block_devices[call.device]
       IN  call' = IF ~RequestValid(device) THEN NoCall
                   ELSE IF device.parent = 0 THEN [call EXCEPT !.stage = "backend"]
                   ELSE IF call.op = "flush" THEN [call EXCEPT !.stage = "done"]
                   ELSE block_device_slice_translate(device)
    /\ UNCHANGED <<block_devices, diskVars>>

DeviceNext ==
    \/ \E parent \in Devices, s \in SliceRequests :
          block_device_slice_register(parent, s[1], s[2], s[3], s[4])
    \/ \E device \in Devices, first \in 0..DiskBlocks, count \in 0..(TransferMax + 1) :
          \/ Ask("read", device, first, count, <<>>)
          \/ \E data \in [1..count -> Datum] : Ask("write", device, first, count, data)
    \/ \E device \in Devices : Ask("flush", device, 0, 0, <<>>)
    \/ block_device_call
    \/ Answer

----------------------------------------------------------------------------
(* The disk carries out a command                                          *)

DiskReads(first, count) == [i \in 1..count |-> cached[first + i - 1]]

----------------------------------------------------------------------------
(* Properties                                                              *)

\* BLOCK_DEVICE_RESULT_OK means: what was written is on the medium, at the place
\* of the slice that was asked, so that it survives a loss of power, and stays
\* there until the block is written again, whatever else is asked, fails or
\* comes too late; and what was read is what the disk holds.
OkMeansDurable ==
    /\ \A b \in DiskBlock : kept[b] # 0 => medium[b] = kept[b]
    /\ call.stage = "ok" /\ call.op = "read" =>
          call.data = DiskReads(Origin[call.asked[1]] + call.asked[2], call.count)
=============================================================================
