-------------------------------- MODULE Ahci --------------------------------
(***************************************************************************)
(* The SATA disk: taking the controller over from the firmware              *)
(* (kernel/arch/x86_64/ahci_hw.c, kernel/core/ahci.c) and the driver of one   *)
(* port (kernel/drivers/ahci_block.c, kernel/core/ahci_block.c).  The port has  *)
(* one command slot.  The driver polls and gives up after a number of spins;   *)
(* the port works at its own speed on the command list and the buffer that    *)
(* both share.                                                              *)
(***************************************************************************)
EXTENDS BlockDevice

CONSTANTS
    Lba28Limit,         \* ATA_LBA28_LIMIT
    EngineStops,        \* whether the port stops within AHCI_WAIT_LIMIT when told to
    SlowDisk            \* whether a transfer may outlast AHCI_BLOCK_POLL_LIMIT

ASSUME AhciAssumption ==
    Lba28Limit \in Nat /\ EngineStops \in BOOLEAN /\ SlowDisk \in BOOLEAN

VARIABLES
    controller,         \* PCI command, BOHC and GHC, and active_state.initialized
    firmware,           \* these registers as the firmware left them
    identify,           \* what the disk answers to IDENTIFY
    port,               \* the registers of the port, and the command of its slot while
                        \* PxCI has it
    bounce_page,        \* AHCI_DMA_BOUNCE
    dma,                \* DMA frames the driver owns
    driver              \* "off", "identify" or "ready"

ahciVars == <<controller, firmware, identify, port, bounce_page, dma, driver>>
portVars == <<port, bounce_page>>

DmaFrames == 4
NoCommand == [kind |-> "none", first |-> 0, count |-> 0]
CI == port.command # NoCommand
Zeroed == [i \in 1..TransferMax |-> 0]

\* The firmware may have used the disk, and may have left the port running.
FirmwarePort ==
    [running |-> firmware.owned, list |-> "firmware", command |-> NoCommand, tfes |-> FALSE]

\* What a disk may answer, as ahci_identify_decode reads it.
IdentifyData == [lba48 : BOOLEAN, write_cache : BOOLEAN]

AhciInit ==
    /\ \E given \in BOOLEAN :
          firmware = [memory |-> given, owned |-> given, mode |-> given, ready |-> FALSE]
    /\ controller = firmware
    /\ identify \in IdentifyData
    /\ port = FirmwarePort
    /\ bounce_page = Zeroed
    /\ dma = 0 /\ driver = "off"

----------------------------------------------------------------------------
(* Taking over the controller                                              *)

\* The registers when ahci_init has got as far as a step that fails.
Reached(failing) ==
    [controller EXCEPT !.memory = failing # "pci" \/ @,
                       !.owned = failing \in {"handoff", "mode", "ports", "none"} \/ @,
                       !.mode = failing \in {"mode", "ports", "none"} \/ @,
                       !.ready = failing = "none"]

\* rollback: every register that was changed gets its old value again.
rollback(reached) ==
    [reached EXCEPT !.memory = firmware.memory, !.owned = firmware.owned,
                    !.mode = firmware.mode, !.ready = FALSE]

ahci_init(failing) ==
    /\ ~controller.ready
    /\ controller' = IF failing = "none" THEN Reached(failing) ELSE rollback(Reached(failing))
    /\ UNCHANGED <<firmware, identify, portVars, dma, driver>>

----------------------------------------------------------------------------
(* The port                                                                *)

\* prepare_command and the write to PxCI.  The command is taken by the port
\* whenever it likes.
CommandIssued(command) ==
    port' = [port EXCEPT !.tfes = FALSE, !.command = command]

\* Mutant: a failed initialization gives the frames back without stopping the
\* port.
FramesFirst == UNCHANGED port

\* restore_port: the port is stopped, which withdraws its command, and works on
\* the firmware's lists again.
restore_port ==
    port' = IF EngineStops THEN FirmwarePort ELSE [port EXCEPT !.list = "firmware"]

cleanup_failed_init ==
    /\ restore_port
    /\ dma' = 0
    /\ driver' = "off"

\* program_port: the port works on the driver's lists.
program_port == [running |-> TRUE, list |-> "driver", tfes |-> FALSE, command |-> NoCommand]

\* ahci_block_init up to the first command.  It may fail to find a disk, to map
\* the registers, to get its frames, to stop the port and to start it.
ahci_block_init(failing) ==
    /\ driver = "off" /\ controller.ready
    /\ UNCHANGED <<controller, firmware, identify>>
    /\ CASE failing \in {"port", "pci", "map"} -> UNCHANGED <<portVars, dma, driver>>
         [] failing \in {"frames", "stop", "start"} ->
                cleanup_failed_init /\ UNCHANGED bounce_page
         [] failing = "none" ->
                /\ port' = [program_port EXCEPT !.command.kind = "identify"]
                /\ bounce_page' = Zeroed
                /\ dma' = DmaFrames
                /\ driver' = "identify"

\* The rest of ahci_block_init: IDENTIFY fails, takes too long or answers with
\* nonsense, or the disk is registered.
IdentifyReturns(valid) ==
    LET disk == [name |-> "sata0", blocks |-> DiskBlocks, first |-> 0, parent |-> 0,
                 read_only |-> FALSE]
    IN  /\ driver = "identify"
        /\ IF port.tfes \/ CI \/ ~valid \/ ~CanRegister(disk)
             THEN cleanup_failed_init /\ UNCHANGED block_devices
             ELSE /\ block_devices' = Append(block_devices, disk)
                  /\ driver' = "ready"
                  /\ UNCHANGED <<port, dma>>
        /\ UNCHANGED <<controller, firmware, identify, bounce_page, call, diskVars>>

----------------------------------------------------------------------------
(* Calls of the block device                                               *)

\* ahci_build_read_fis: without LBA48 the address has 28 bits.
Addressable == identify.lba48 \/ call.first + call.count <= Lba28Limit

\* ahci_backend_read, ahci_backend_write and ahci_backend_flush up to
\* issue_command.
ahci_backend ==
    /\ call.stage = "backend" /\ driver = "ready"
    /\ IF call.op = "flush"
         THEN /\ call' = [call EXCEPT !.stage = IF identify.write_cache THEN "flush" ELSE "done"]
              /\ UNCHANGED bounce_page
         ELSE IF call.count > TransferMax \/ ~Addressable
                THEN CallFails /\ UNCHANGED bounce_page
                ELSE /\ bounce_page' = [i \in 1..TransferMax |->
                            IF call.op = "read" THEN 0
                            ELSE IF i <= call.count THEN call.data[i] ELSE bounce_page[i]]
                     /\ call' = [call EXCEPT !.stage = "issue"]
    /\ UNCHANGED <<controller, firmware, identify, port, dma, driver, block_devices,
                   diskVars>>

\* issue_command up to the polling: a port that still has a command is left
\* alone.
issue_command ==
    /\ call.stage \in {"issue", "flush"} /\ driver = "ready"
    /\ IF CI
         THEN CallFails /\ UNCHANGED port
         ELSE /\ CommandIssued([kind |-> IF call.stage = "flush" THEN "flush" ELSE call.op,
                                first |-> call.first, count |-> call.count])
              /\ call' = [call EXCEPT !.stage = IF @ = "flush" THEN "flushing" ELSE "poll"]
    /\ UNCHANGED <<controller, firmware, identify, bounce_page, dma, driver, block_devices,
                   diskVars>>

\* Mutant: a write is answered as soon as the disk has taken it.
AnsweredUnflushed ==
    [call EXCEPT !.stage = "done",
                 !.data = IF call.op = "read" THEN SubSeq(bounce_page, 1, call.count) ELSE @]

\* The command is complete: a write has yet to be flushed.
CommandComplete ==
    [call EXCEPT !.stage = IF @ = "poll" /\ call.op = "write" /\ identify.write_cache
                             THEN "flush" ELSE "done",
                 !.data = IF call.op = "read" THEN SubSeq(bounce_page, 1, call.count) ELSE @]

\* The polling ends: with an error of the disk, with the command, or without
\* either, and then the command stays with the port.
PollEnds ==
    /\ call.stage \in {"poll", "flushing"} /\ driver = "ready"
    /\ CI /\ ~port.tfes => SlowDisk
    /\ IF CI THEN CallFails ELSE call' = CommandComplete
    /\ UNCHANGED <<ahciVars, block_devices, diskVars>>

----------------------------------------------------------------------------
(* The disk                                                                *)

\* The port carries out its command on the shared buffer as it is then.
PortCompletes ==
    /\ CI /\ ~port.tfes
    /\ port' = [port EXCEPT !.command = NoCommand]
    /\ bounce_page' = [i \in 1..TransferMax |->
                          IF port.command.kind = "read" /\ i <= port.command.count
                            THEN cached[port.command.first + i - 1] ELSE bounce_page[i]]
    /\ cached' = IF port.command.kind # "write" THEN cached
                 ELSE DiskHolds(cached, port.command.first, SubSeq(bounce_page, 1, port.command.count))
    /\ medium' = IF port.command.kind = "flush" \/ ~identify.write_cache THEN cached' ELSE medium
    /\ UNCHANGED <<controller, firmware, identify, dma, driver, block_devices, call, kept>>

\* An error: the port reports it and keeps the command, and nobody restarts it.
PortFails ==
    /\ CI /\ ~port.tfes
    /\ port' = [port EXCEPT !.tfes = TRUE]
    /\ UNCHANGED <<controller, firmware, identify, bounce_page, dma, driver, deviceVars>>

----------------------------------------------------------------------------
AhciNext ==
    \/ /\ \/ \E failing \in {"pci", "map", "handoff", "mode", "ports", "none"} : ahci_init(failing)
          \/ \E failing \in {"port", "pci", "map", "frames", "stop", "start", "none"} :
                ahci_block_init(failing)
       /\ UNCHANGED deviceVars
    \/ \E valid \in BOOLEAN : IdentifyReturns(valid)
    \/ DeviceNext /\ UNCHANGED ahciVars
    \/ ahci_backend
    \/ issue_command
    \/ PollEnds
    \/ PortCompletes
    \/ PortFails

----------------------------------------------------------------------------
(* Properties                                                              *)

\* The port never works on frames that were given back: a command that is still
\* with the port when the initialization fails has been withdrawn before its
\* list and its buffer go to somebody else.  A controller that was not taken
\* over is as the firmware left it.
PortKeepsToItsFrames ==
    /\ CI => dma = DmaFrames
    /\ ~controller.ready => controller = firmware
=============================================================================
