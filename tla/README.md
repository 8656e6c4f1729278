# A TLA+ verification of BoringOS

BoringOS is a small x86-64 operating system: a kernel in C (`src/kernel`), a
file-system library shared with host tools (`src/libs/boringfs`, `src/tools`),
and user programs (`src/user`) that form a desktop session: an init process, a
display server, a window manager, a terminal, a shell and a few applications.
This directory holds TLA+ models of the parts of it that keep shared state, the
TLC configurations that check them on small instances, and TLAPS proofs of the
theorems that hold for every size.

`PROJECT.json` maps every definition to the lines it models and lists runs,
mutants, hazards, findings and theorems.

## 1. The system

### Execution model

One CPU. A system call runs with interrupts off and does not lose the CPU,
except where it blocks (`task_block_current`) or halts for an interrupt. A
scheduled process leaves the CPU by yielding, blocking or exiting (cooperative
mode); the timer moves the CPU only between tasks that were created preemptive,
while preemption is on. Interrupts therefore arrive while a program executes in
Ring 3, or at a `HLT` inside a system call. This gives the granularity of all
kernel models here: **an action is one system call, one interrupt, or the part
of a blocking call from one wake-up to the next block or return.** A block
device is different: an operation of the file system is a series of block
writes, each of which can fail, and the power can fail between two of them.

### Components, state and what makes them correct

| component | state | operations | hard behaviours | correct when |
|---|---|---|---|---|
| scheduler and process registry (`task.c`, `process.c`) | task list, current task, active address space, preemption flags, counters, limits | create, yield, block, wake, exit, finish, reap, cleanup, timer tick, preemption start and stop | exit while others wait, cleanup against running tasks, limits, two kinds of context | one task runs, only READY tasks get the CPU, no address space is used after it is destroyed, a READY task runs eventually |
| SPAWN, EXIT, WAITPID (`m36_syscall.c`) | a spawn record per child | spawn (attached, detached), exit, waitpid on one or any child, reaping | exit before or after the wait, spurious wake-ups, parents that exit first | no exit is lost, a child is reaped once and by its parent, waiters return |
| IPC (`ipc.c`, `ipc_syscall.c`) | services, connections with two queues, handles, waiting flags | create, connect, accept, send, receive, close, exit | blocking calls against close and exit, messages that carry a buffer, tables at their limit | reference counts exact, queued messages are delivered after a close, no lost wake-up |
| shared buffers (`user_memory.c`) | reference-counted objects, handles, mappings | create, map, unmap, close, transfer | references held by queued messages | an object lives exactly as long as it is referenced |
| bounded rings, handles | ring indices; generation per slot | push, pop, clear; encode, decode, invalidate | wrap-around, stale handle values | FIFO; a closed handle is refused |
| PTYs, descriptor tables, EVENT_WAIT (`pty.c`, `fd.c`, `event_syscall.c`) | rings per direction, end-point references, one waiter per end, descriptor tables | create, inherit through SPAWN, read, write, close, wait, exit | inherited ends, blocked readers, close of the last peer | reference counts exact, nobody sleeps on a ready end |
| input stream (`input.c`, `i8042.c`, `irq.c`) | owner, event queue, held keys, modifiers | claim, release, read, wait, interrupts | an interrupt between test and sleep, hand-over between owners, full queue | no event of another owner, no event slept through |
| RAM file system, VFS, file calls (`ramfs.c`, `vfs.c`, `fd.c`, FS_* and FD_* of `syscall.c`, working directories of `process.c`) | node slots and file buffers per instance; mounts, paths, handles and their references; descriptors and working directories, as a path and as text | create, remove, rename, write, truncate, mount, unmount, resolve, open, read, close, CHDIR, SPAWN's inheritance, exit | calls that fail between two references, removal of what another program uses, mounts in the middle of a path, slots and buffers used again | reference counts exact, no old bytes come back, ".." leads home, GETCWD tells where relative paths start |
| BoringFS (`boringfs_vfs.c`, `validate.c`) | bitmap, object table, directory blocks, one-block cache, VFS nodes | create, mkdir, unlink, rmdir, write, truncate, lookup, mount | failure of the n-th write, loss of power | operations are atomic, a volume stays mountable |
| memory manager and heap (`pmm.c`, `heap.c`) | regions and a bitmap of frames; a list of blocks | initialise from the memory map, allocate, free | unaligned and touching entries, splitting and merging, growth | memory is usable and handed out once; the heap never gives itself up |
| address spaces, areas, programs (`address_space.c`, `ring3_memory.c`, `user_memory.c`, `elf_loader.c`) | page tables, areas, views and images per process, buffer objects | load, map, unmap, free, exit, destroy | memory that ends half way through a call | every frame has one owner, page tables agree with the records |
| block devices (`block_device.c`, `block_slice.c`) | registered devices, slices of them | register, slice, read, write, flush | slices of slices, transfers at the end of the disk, a device that fails | OK means durable, at the place of the slice |
| VirtIO disk (`virtio_blk.c`) | virtqueue indices, bounce buffer, status byte | read, write in chunks with polling | timeout against a late completion | OK means transferred |
| SATA disk (`ahci.c`, `ahci_block.c`) | port state, command list, frames for DMA | take over, start and stop the port, IDENTIFY, commands with polling, flush | an engine that does not stop, a command that fails half way, initialisation that is given up | OK means durable, the port keeps to frames the driver owns |
| xHCI, USB topology and hubs (`kernel/core/xhci.c`, `kernel/arch/x86_64/xhci.c`) | command, control and event rings, slots, device table, frames | start, address, read descriptors, power hubs, configure, rollback | a failure at each step of a device with frames and slots half set up, ring wrap | nothing is left of a device that failed, the controller holds no freed frame |
| USB keyboard, mouse, stick (`usb_hid.c`, `usb_hid_impl.inc`, `usb_mass_storage_impl.inc`) | a ring and a buffer per endpoint, the keys that are down; phases of a command, tags | arm, service, decode, rearm; inquiry, read, write, synchronise, sense | three drivers wait at one event ring, a transfer outlasts the wait, a stick that cannot synchronise | no key lost, stuck or told twice; OK means durable |
| network (`net.c`, `e1000.c`) | descriptors and indices of the card, lease, ARP cache | NET_PING: start of the card, link, DHCP, ARP, DNS, echo | answers lost, late, repeated, of another server or to another question; a clock that stands still | answers are to the call's own questions, a call ends |
| display server, window manager (`user/boring-display`, `user/boringwm`) | surfaces, placements, damage, pointer and underlay; windows, order, focus, one input put aside | create surface, register, commit, place, present, focus, reorder, close, input and acknowledgement, death of any of them | an application dies in the middle of a layout, input arrives while the window manager waits for an answer, partial repaint | server and window manager agree on the windows, the screen shows them, no input is lost or acknowledged twice |

Interactions: SPAWN creates a process and a task, hands PTY ends to the child
and starts it READY; EXIT tears down, in this order, descriptors, input
ownership, IPC and memory, and wakes the parent; IPC, PTY and input all block
through `task_block_current` and wake by pid through `task_wake_process`, which
makes every wake-up possibly spurious for whoever is asleep for another reason;
IPC messages carry references to shared buffers; the file system reads and
writes through the block layer, whose backend is VirtIO, AHCI or USB. HID and mass
storage share the event ring of the xHCI controller, and EVENT_WAIT polls it.
The window manager and the display server are two processes that talk over one
IPC connection, and each application talks to both.

Components that are not modelled yet are listed in `PROJECT.json` with what is
planned for them or why they are left out; see also section 7.

## 2. Modules

| module | models | state ↔ code |
|---|---|---|
| `Sched` | `task.c`, `process.c` | `tstate`, `ctx`, `owner` per task (the registry list is the set of identifiers that are not "free", in identifier order), `pstate` per process, `current`, `active`, preemption and interrupt flags. One action per function, or per caller of one: `process_create`, `task_create_internal`, `process_mark_finished` and `process_destroy` are operators with the code's own tests, which look at no task; what keeps the two registries together is the order in which their callers (`spawn`, `m36_reap_record`, `task_exit_current_process`, `BootTeardown`) call them. |
| `Spawn` (extends `Sched`) | `m36_syscall.c` | `rec` is the spawn record of a child, `wait` the selector of a process inside WAITPID, `ret` how the last WAITPID ended. Everything else a process can do is `OtherSyscall` and spurious wake-ups. |
| `Buffer`, `Ipc` (extends `Buffer`) | `user_memory.c` (shared buffers), `ipc.c`, `ipc_syscall.c` | `refs`, `bhandle`, `bmap`; services, connections, handles, queues and the blocked calls. A message is its number and the buffer it carries. |
| `Ring`, `Fifo` | the rings of `pty.c`, `ipc.c`, `input.c`; the queue they promise | array, head, count and (in `pty.c`) the stored tail; `Fifo` is the abstract specification, `Ring` implements it. |
| `Handles` | handle values of `ipc.c`, `user_memory.c` | slot and generation packed into one number. |
| `Pty` | `pty.c`, `fd.c`, PTY part of `m36_syscall.c`, `event_syscall.c` | pairs with ring counts, references and a waiter per end; descriptor tables; reads and waits in progress. |
| `Input` | `input.c`, `i8042.c`, `irq.c`, INPUT_READ, input watch | owner, queue, held keys, decoder state, `pc` inside the two waiting loops. |
| `BoringFs`, `Tree` | `boringfs_vfs.c`, `validate.c`, node references of `vfs.c` | `disk` maps the bitmap, the object table and every data block to their content, `cache` is the one-block cache, `node` the prepared VFS nodes, `job` the writes an operation still has to do, each with its rollback; `tree` is a history variable. `Tree` is the abstract file system. |
| `Pmm`, `Heap` | `pmm.c`, `heap.c` | regions, `bitmap`, `free_frames`; `blocks` in address order with `corrupted`. |
| `Space` | `address_space.c`, `ring3_memory.c`, `elf_loader.c`, `user_memory.c` | per process `tables` and `pages` map to frames, `image`, `areas`, `views`, `handles`; `objects`; `heap_frames` are the frames under the heap. A call is a fold over its pages that hands on the frames left, the tables and the pages, with the code's rollback at the first failure; EXIT releases one thing per step. |
| `RamFs`, `Vfs` (extends `RamFs`), `FileCalls` (extends `Vfs`) | `ramfs.c`; `vfs.c`; file calls of `syscall.c`, `fd.c`, working directories of `process.c` | `nodes` are the slots with size, buffer and reference count; `content` is a history variable with the bytes a file should hold. Mounts, paths of kernel users (`Holder`) and handles (`Reader`); per program `fds` and `cwd` with its text, which the code edits component by component while it walks the path. |
| `BlockDevice` | `block_device.c`, `block_slice.c`; the disk is external | devices and slices, the call on its way through them, and a disk with a write cache (`cached`, `medium`). The two drivers below extend it. |
| `Ahci` | `ahci.c`, `ahci_block.c` | the port's engine, command slot and frames, the controller as firmware left it, and the steps of initialisation. |
| `VirtioBlk` | transfer path of `virtio_blk.c`; the device is external | the driver's and the device's ring indices, header, status and bounce buffer in shared memory. |
| `Trbs` | rings of `xhci.c` | producer ring with link entry and cycle bit, event ring with the consumer's index and cycle. |
| `Xhci` (extends `Trbs`) | `xhci.c` (both), hubs | the controller's slots and context array, the device table, frames per device, and `job`: the call under way with the steps a device still has to take. A step that fails takes the rollback of the function it is in; so does a wait that ends, and a start that is not reported in time (`xhc.late`). |
| `UsbHid` (extends `Trbs`) | `usb_hid.c`, `usb_hid_impl.inc` | endpoint state with its ring and buffer, the service that takes one event at a time; `told` and `delivered` are history variables for the input stream and the device. |
| `UsbStorage` (extends `UsbHid`, `BlockDevice`) | `usb_mass_storage_impl.inc` | the command and phase under way, two bulk rings, three pages, and the stick as an external device with a cache. |
| `Net` | `net.c`, `e1000.c`; the network is external | the card's and the driver's side of the receive ring, lease, ARP cache, where the call waits (`ping`), and `requests`, what the network can answer, any number of times and in any order. |
| `Display`, `Wm` (extends `Display`) | `user/boring-display` (`core.c`, `managed.c`, `server.c`), `user/boringwm` (`core.c`, `main.c`) | surfaces with generations, placements, damage of a layout, the screen as rows of what is drawn there; the window manager's list, focus, the request it waits for, the input its turn began with (`wm.taken`) and the two message queues between the processes. |
| `ProcessProofs`, `IpcProofs`, `SessionProofs`, `DeviceProofs`, `FileProofs`, `SpaceProofs`, `TableProofs` | | theorems about `Sched` and `Spawn`; `Ipc` with `Buffer`; `Pty` and `Wm`; the disks (`VirtioBlk`, `Ahci` with `BlockDevice`), `Input` and `UsbHid`; `FileCalls` with `Vfs` and `RamFs`; `Space`; `Ring`, `Handles`, `Pmm`, `Heap` and `Net`. See section 5. |
| `Induction` | | induction over numbers stated about a set, and what a loop of N turns computes: lemmas the proofs share. |

`MC*` modules bind a component for TLC. `MCSched` (scheduler, input), `MCTables` (rings,
handles, memory, AHCI, USB, network) and `MCStorage` (file systems, VirtIO) are suites: they
hold several components; the initial state chooses one, its `focus`, and the variables of
all others keep their first values. A suite's state space is the sum, not the
product, of its members'.

What is abstracted: names, payloads, packet and register layouts, stack contents,
statistics, logging. A call
that fails without changing state is left out; a call that fails after changing
state is there with its rollback. Some details deserve mention. In `BoringFs` a
record, a bitmap bit or an object is written by rewriting the block that contains
it, through the cache, as the code does; a block write happens or fails as a
whole. In `Pty`, `ExclusiveReaders` says whether programs keep to the convention
that only one process reads or waits at an end; the code has one waiter per end,
and the run `pty_shared` shows what happens without the convention. In `Net`,
`TicksInCall` says whether the clock of the waits moves inside a system call: it
does not in this kernel (the run `net_hang`), and the safety property is checked
with a clock that moves, since only then does a call reach its error paths. In the
desktop a row stands for the pixels of a line, windows fill one column (the master
area that `wm_layout` puts beside it is left out), a window is named by its application,
and a message to an application may find its queue full at any time, as the
application decides how often it reads (`app_send`).

## 3. Runs

| run | question | instance |
|---|---|---|
| `sched` | Do all interleavings of creation, blocking, exit, cleanup and preemption keep the scheduler's invariants, and does a READY task run? Can an owner of the input see another's events, or sleep through its own? | 3 tasks, 3 pids, at most 2 processes alive: every limit is hit, a pid and a task identifier are exhausted; for the input 2 processes, both shift keys, one button, queue of 2 |
| `spawn` | Is an exit ever lost, reaped twice or by the wrong parent; does every waiter return? | 4 pids: init, a parent, two children; 3 alive at a time |
| `spawn_boot` (violation) | Does the boot code stay out after the session has started? | same, 4 alive |
| `ipc` | Are reference counts exact, is a close drained, does a blocked caller return? | 2 processes, one service, connection and buffer, queues of 2, 3 handle slots |
| `pty` | Are end-point references exact through SPAWN, close and exit; is a wake-up lost; does a reader return? | 3 processes, one pair, ring of 1, 4 descriptors |
| `pty_shared` (violation) | The same without the one-reader convention | ring of 2 |
| `tables` | Does a ring implement a FIFO; is a closed handle refused; does memory management lose a frame or give one twice, whatever fails half way? | ring of 3, 3 slots of 3 generations, a slot used 5 times (so generations wrap); maps of up to 3 entries on 8 addresses; a heap of 3 pages; 2 processes, 15 frames, 3 levels of tables |
| `tables`, drivers | Does OK from a SATA disk or a stick mean durable; are USB transitions told once; is anything left of a device that failed; are answers taken for another's? | disk of 2 blocks, slices of it and slices of slices, a stick of one block that may outlast the wait, 7 commands (6 if it knows how to synchronise), beside the keyboard; an event ring of 3 (so it wraps), two keys and a button; a hub and a disk at the controller, a keyboard and an empty port at the hub, 3 slots, a device table of 3; receive ring of 2, ARP cache of 1, two calls, three DHCP servers (one refuses, one names no gateway), two host names |
| `storage` | Are file-system operations atomic under failing writes and loss of power, does the volume stay mountable; does OK from the disk mean transferred; are references of nodes exact, contents and working directories true? | BoringFS: 4 objects, 3 data blocks, one record per block (so that directories grow and the volume fills), 2 extents; disk of 3 sectors in chunks of 2; RAM file system: 2 instances of 4 nodes, files of 3 bytes within 4 in total; VFS: 4 nodes, 2 mounts, 2 paths, one handle, paths of 2 components; file calls: 3 nodes, 2 programs with one descriptor, working directories of 2 components; the same with a second file system mounted on a nested directory before the programs run, 5 nodes |
| `virtio_late` (violation) | The same transfers with a device that may outlast the polling | 2 sectors |
| `usb_stuck` (violation) | Does a keyboard that reports an error still deliver afterwards? | as in `tables`, event ring of 4 |
| `net_hang` (violation) | Does NET_PING return when an answer is lost? | one server, one name, one call, the kernel's clock |
| `desktop` | Do server and window manager agree, is the screen right, is input lost, whoever dies and whenever? | 2 applications, 2 surfaces, 7 rows with gap and border of 1, 2 inputs of six kinds, the pointer on the first and last row |

The bounds are small but each one reaches its limit: tables and queues fill, free
slots are reused, generations and ring indices wrap, a directory needs a second
extent, a volume runs out of blocks and objects. Programs never mount; the file calls are therefore
checked once without and once with a mount that is there when the first program starts
(`MountedInit`). Two processes suffice where the
code relates a process to one peer; three where a third can inherit an end. The
desktop with three applications and without inputs passes as well (1.8 million
states); it is left out for its running time.
`CHECK_DEADLOCK FALSE` stands where a bound on identifiers, commands, calls or inputs, or
a system in which every process has exited, ends a behaviour. Blocking for ever is
instead what `NoLostWakeup` and the liveness properties exclude.

### Properties that need a word

* `RegistriesAgree` (Sched): no task points at a process that is gone, and a FINISHED
  process has tasks, all of them finished: `task_reap_finished_process` would refuse any
  other for ever. Neither `process.c` nor `task.c` looks at the other's registry, so this rests on
  the order of the calls in exit, reaping, SPAWN and teardown.
* `NoLostExit`, `RecordsTrue`, `ReapedByRightCaller` (Spawn): a process asleep in
  WAITPID has no finished child that the call would take; a record lives as long
  as its process object and tells whether that is finished; and a record goes
  away once, by a WAITPID of the parent that asked for it or by the detached reaper.
* `NoLostWakeup` (Ipc, Pty, Input): a process is never asleep in a blocking call
  whose condition already holds. This is the interleaving of test, arming and
  sleep with interrupts, closes and exits.
* `DrainAfterClose` (Ipc): closing one side of a connection takes no message
  away from the other.
* `StreamTrue` (Input): no process reads what was typed for an earlier owner
  (`OwnerIsolation`); the modifier bits are those of the keys held, repeat flags
  tell a second press from a first one, and buttons go down and up in turn, unless
  an event was dropped or a line error reset the decoder.
* `HeapHolds`: `heap_validate` runs around every call and disables the heap when it
  fails; no sequence of requests and releases makes it fail.
* `FramesOwned`, `SpacesTrue` (Space): the free frames, the heap, the page tables, the
  private pages and the buffer objects partition the frames; and the tables of a
  process are exactly those its program, areas and views need, and a process whose
  address space is gone has nothing left. In `MCTables` a
  `VIEW` identifies states that differ in the numbers of frames only: the code
  treats frames alike, and the view keeps for every frame all places that hold it.
* `AtomicOperations` (BoringFs): `BoringFs` implements `Tree`; the tree seen by
  users changes in one step per operation, also when a write fails or the power
  does. It needs a power loss between writes to be broken.
* `OnlyLeaks`: at every moment the disk has no record without object, no extent
  on a free block, and no block with two owners. A loss of power can leak
  objects and blocks (`ValidReferences`, `ValidOwnership` fail), and then the next mount
  refuses the volume: the documented lack of crash consistency
  (`docs/boringfs.md:15`), made precise.

* `ContentTrue` (RamFs): a file reads as the bytes written to it and zeros, through
  shrinking and growing inside one buffer and through reuse of slots.
* `RefsTrue` (FileCalls): every node counts exactly the paths, handles, mounts,
  descriptors and working directories at it, and the two totals that guard `vfs_shutdown`
  are right. The code takes and gives back references in some thirty places, most
  of them on error paths.
* `CwdTextTrue` (FileCalls): the text that GETCWD reports resolves to the directory
  where relative paths start, whatever other programs create and remove, and
  (`PathsLeadHome`) ".." leads from every path to the root, whatever others remove,
  rename and mount. There is an exception, and the property says
  how far it goes: `process_set_cwd` writes "/" for a node that is its own parent
  (`process.c:445`), which the root of a mounted file system is, too (`vfs.c:361`). A program
  in `/disk` that calls SPAWN therefore gives its child the directory `/disk` and the
  text "/". The text of a program that was started may hence lack its beginning, at most
  the part that leads to the root of a mounted file system or to a directory above one.
  Without the exception TLC finds the property violated in the instance with a mount.
* `OkMeansDurable` (BlockDevice, for `Ahci` and `UsbStorage`): what was written with OK is on
  the medium at the place of the slice, and stays until it is written again; what
  was read is what the disk holds.
* `PortKeepsToItsFrames` (Ahci): the port holds no address of a
  frame that was given back, at whichever step initialisation fails.
* `DevicesTrue` (Xhci): whatever fails, no entry of a slot leads to a context that was given
  back, the table of devices is true, and nothing is left of a device that is not in it. That
  commands, control transfers and the controller's own rings keep their frames is claimed only
  of a controller that starts and answers within the waiting: after a wait
  that ended, the code frees the descriptor's buffer (`xhci.c:1529`) or the
  endpoints' rings (`xhci.c:1469`), and after a start that was not reported in time the controller's rings with RUN
  set (`xhci.c:2144`), while the controller still has them. The model takes these ways, and
  without the condition (`~xhc.late`) TLC finds the property violated.
* `ReportsTrue` (UsbHid): each transition is told once, with the modifiers it was
  reported with, and an endpoint that waits has exactly one transfer, however
  often both rings wrap.
* `AnswersTrue` (Net): the lease is from the server that was asked, a name stands for its own
  address, although frames of an earlier question wait in the receive ring.
* `DesktopAgrees` (Wm): no placement outlives its surface, an idle window manager knows
  exactly the bound windows, one of them has the focus, and the queue of inputs put
  aside never overflows.
* `WindowsShown` (Wm): the rows of every window show what composition from nothing would
  give, although PRESENT, COMMIT_DAMAGE, a focus frame and the pointer repaint
  regions only.
* `InputAccounted` (Wm): the input that the server waits for is in exactly one place: on its
  way, put aside, in hand, or acknowledged; and the window manager does not go to sleep on an
  input, except in one case. `boring_main` takes the input put aside once per turn
  (`main.c:292`), before it blocks (`main.c:301`). A pointer's move is acknowledged early
  (`main.c:219`), so that the next input can arrive while `sync_focus` waits for its answer, and is put
  aside; it then stays there, without an acknowledgement, and the server sends no other,
  until an application makes a request.

### Fairness

* `Sched`: weak fairness of `task_yield` is the cooperative contract (a program
  yields or makes a blocking call eventually) and of the tick it is the timer.
* `Spawn`: the same, for programs that sleep in other calls: they are woken, and a
  process that is READY over and over gets its turn, by the round robin that
  `sched` checks (`ReadyRuns`).
* `Ipc`, `Pty`: a process that is READY inside a blocking call is run again
  (weak fairness of `ResumeCall`), again the round robin. Nothing is assumed of peers.
* `Input`: kernel steps continue, the timer ticks, a process in Ring 3 yields
  eventually, and a READY process is given the CPU (strong fairness, since it
  competes with the others and may lose the CPU in between: the round robin of
  `Sched`).

* `UsbHid`: the service runs again and again, as EVENT_WAIT polls it in a loop. With
  `BadReports = FALSE`, `Rearmed` holds.
* `Net`: the call continues as long as it can, and the timer ticks when it may. With
  `TicksInCall = TRUE`, `PingReturns` holds.

No fairness is assumed of interrupts from devices, of callers, or of the disk.

## 4. Findings

| run | what the code does | what the repository says |
|---|---|---|
| `spawn_boot` | When the last READY task exits while every other one is BLOCKED, `task_exit_current_process` hands the CPU to the boot task although processes are still alive. | `m38_desktop_test.c:334` |
| `pty_shared` | One waiter per end: a second process that waits at an end replaces the first, which sleeps through the close of the peer. | `docs/syscalls.md:563` |
| `virtio_late` | After a polling timeout the request stays with the device while header, status and buffer are reused; its late completion is taken for that of the next request, which returns OK. | `docs/block-device.md:48`, `docs/virtio-block.md:101` |
| `usb_stuck` | A keyboard report with an error usage is refused before its event is taken from the ring: the event stays at the head, and no USB input is delivered any more. | `docs/m52-xhci-hid-reports.md:21` |
| `net_hang` | The waits of `net.c` use `timer_ticks()`, which does not move inside a system call: a lost answer is waited for without end, with interrupts off. | `docs/m69-networking.md:72` |

Three more disagreements came up while modelling and have no run of their own:

* *AHCI, late command.* As in `virtio_late`: after a polling timeout the command stays with
  the port (`ahci_block.c:444`, `ahci_block.c:505`) and its buffer is used again. In `MCTables`
  with `SlowDisk = TRUE` TLC finds `OkMeansDurable` violated.
* *LAUNCH.* A process started by LAUNCH is torn down without its IPC state
  (`syscall.c:2303`), so that its service name stays registered, against `docs/ipc.md:63`.
* *Stale background.* `layout_capture` (`managed.c`) keeps the first old region of a window
  that is placed twice before a PRESENT. When the third of three windows dies in the middle
  of a layout, rows of a gap keep what an intermediate placement had drawn, against
  `tests/m68-layout-host.c:345`; the windows themselves are right, and `WindowsShown`
  is stated for their rows only.

## 5. Proofs

Checked by TLAPS for all values of the constants:

* `ProcessProofs`, scheduler. `IInv` is the conjunction of `TypeOK`, `OneRunning`,
  `ActiveSpaceAlive`, `NoOrphanTask`, `NoIdleProcess`, `FreshIds`, `NoFaultNoHalt`, `PreemptionClosed`,
  `BootstrapKept` and `OneTaskPerProcess`. None of the safety invariants is inductive
  alone: that the active address space is alive needs that no task outlives its
  process and that the boot task keeps the kernel's space; `RegistriesAgree` needs, next to the two
  conjuncts about tasks and processes, that a process has one task only, since exit
  finishes the task that runs; that no defensive halt is
  reached needs that, while preemption is on, only preemptive tasks are runnable.
  The proof has a lemma per kind of step (a switch of tasks, a step of the process
  registry, creation, freeing, waking, exit, tick), then one case per action.
  The action property `RunsOnlyWhenReady` follows from `IInv` step by step.
* `ProcessProofs`, SPAWN. `SpawnInv` has the scheduler's part (`SchedOK`: the conjuncts of `IInv` in
  the form they take when all tasks are cooperative), what a record says of its child
  (`RecordsKept`), that a process inside WAITPID is alive and names a child of its own
  (`WaitersKept`), and `SleepersServed`: whoever sleeps in WAITPID has no finished child
  that the call would take, *and* the records of all its children ask for a wake-up.
  The second half is what makes `NoLostExit` inductive: without it an exit would be
  allowed to find nobody to wake. `SpawnKeepsScheduler` carries the scheduler's
  invariants over to the larger system, and `ReapedByRightCaller` is an action property
  from the same invariant.
* `IpcProofs`. `IpcInv` says which handle names what: every side of a connection that
  was accepted and is open has exactly one handle, in the table of its owner; every
  connection not yet accepted has exactly one place in a pending queue, that of a
  service of its owner; every service has one listener; nothing is queued for a
  closed side (`QueuesOK`, `EndsOK`, `PendingOK`, `ListenersOK`, `HandlesOK`). On top of
  these, `Counted` relates the reference count of an object to the cardinality of the
  sets of handles, mappings and queued messages that hold it, and `Asleep` says that
  what a blocked call waits for has not happened. Closing is where the parts need each
  other: `unregister_service` and the cleanup at exit are loops, each turn of which closes
  a side, releases a queue, wakes a peer and perhaps frees the slot. The
  loop invariants `Rejecting` and `Fine` are `IpcInv` with the handles that are
  already gone taken out; they are carried through the turns by `SetInduction`.
  From `IpcInv` follow `RefsExact`, `NoLostWakeup` and the action property
  `DrainAfterClose`.
* `SessionProofs`, terminals. `PtyInv`: reference counts are the numbers of descriptors (`RefsExact`, by
  the same counting), a waiter at an end is a process inside a call that watches it,
  and, when programs keep to one reader per end, a sleeper is the waiter of
  every end it watches and none is ready. `PtyNoLostWakeup` has `ExclusiveReaders` as
  its hypothesis, since without it the property is false (`pty_shared`). The
  reference counts need no hypothesis.
* `DeviceProofs`, disks. With a device that is never slow (`~SlowDevice`, the hypothesis of the
  theorem; the run `virtio_late` refutes it otherwise), `BlkInv`: at most one
  chunk is with the device, published ring entry, header and buffer are those of the
  chunk (`QuietQueue`, `OneChunk`), and the sectors before it hold what was transferred.
  For the SATA disk, `AhciInv` adds the layers: a slice of a slice lies inside its parent
  (so that the block a request reaches, found by following the parents, is the one of the
  slice), the buffer holds the data of the chunk under way (`InBuffer`), the chunks before
  it are written (`Written`, `ProgressOK`), and a command at the port is the one that the
  driver polls for (`CommandOK`). `AhciOkMeansDurable` has the hypothesis `~SlowDisk`, for the
  same reason as above. `PortKeepsToItsFramesAlways` follows from a smaller invariant,
  `FramesInv`, and holds for slow disks too, when the engine of the port stops as it is told to
  (`EngineStops`; `restore_port` goes on with one that does not).
* `DeviceProofs`, input. `LoopsOK` says where each of the two waiting loops may stand and that
  the owner's queue is empty from the test to the end of the sleep, which gives
  `NoLostWakeup`. `StreamOK` gives `StreamTrue`: not only is the last event of each
  key in the queue about the key's state, but two events of one key with no other of that key
  between them fit each other (`Chained`, `Final`). A packet of the mouse is a
  loop over the buttons and again proved by induction.
* `DeviceProofs`, USB keyboard and mouse. `HidInv`: the event ring of the controller is a queue
  (`EventRingOK`: the entries between the driver's place and the controller's carry the cycle bit
  of their lap, all others the opposite bit), and an endpoint is in exactly one of
  three states: no transfer of it is out (it waits to be armed), its transfer is on its own ring (`Busy`), or
  its event waits to be taken, once, and its buffer holds what the device reported last. Without an event
  the driver knows what the device delivered, and the stream has exactly what the driver
  knows. `KeysListed` and `ButtonsListed` say that decoding lists every change once and keys go down
  after the modifiers have changed; `HeardAll` carries such a list to the input
  stream one by one. `ReportsTrueAlways` needs rings of two usable entries at least; the code's have 252.
  It is about HID alone (`HidSpec`); that the stick shares the event ring is checked by `tables`.
* `FileProofs`, RAM file system. `RamFsInv` says of every slot that the bytes up to its size are
  those of the history variable (`Holds`; the capacity behind them may be anything),
  that a slot which is no file has neither buffer nor bytes (`FilesOK`), and that the capacities of
  an instance add up to the limit at most. `WriteHolds` and `TruncateHolds` compare the
  buffer byte by byte with a plain sequence under the same call; `CapacitiesChange` and
  `CapacitiesShrink` say how the sum, a loop over the slots, changes with one slot. Hence
  the subtraction in `ramfs_prepare_capacity` never goes below zero, and the checks that answer CORRUPT
  find nothing. The theorem is about the operations of `ramfs.c` in any order (`RamFsNext`).
* `FileProofs`, the file layer. `RefsTrueAlways` says of `FilesSpec` (users inside the kernel and
  programs, in any order of their calls) that no reference to a node is lost or given back
  twice. `FilesInv` adds to `RefsTrue` what makes it inductive: every slot in use hangs below a
  directory of an instance that exists (`Trees`, which is why a walk that follows names and `..`
  arrives at nodes), an active mount shows an instance that exists at a node of another active
  mount (`MountsOK`), every path that is held leads into an active mount, and a handle that is closed is
  blank (`PathsOK`). A call hands the references from step to step as the code does; its
  intermediate states are the slots before the call with other counts (`Counted`), and taking and
  giving back are additions to a count (`Up`, `Down`, `PathsMove`). The central lemma is
  `Resolved`: wherever a walk of any length ends, also across mounts, it holds exactly the path that it has
  reached, or has given everything back (`Reached`). Each call is then a chain
  of such steps that ends in the counts of the tables after it (`ClosesWith`,
  `RestoredCloses`), with one lemma for each table of what one changed entry does to the
  cardinalities (`HeldMoves`, `CwdMoves`, `OpenedMoves`, `FdMoves`). The loops of `process_clear` over the
  descriptors and of `vfs_shutdown` over the mounts are proved by induction over their turns
  (`AllClosed`, `AllUnmounted`); that `vfs_shutdown` leaves no count behind rests on the two
  totals that guard it. Removal frees no node somebody refers to because its count is
  above zero then (`Removed`), and an instance is destroyed only when all its counts are zero.
* `TableProofs`. `RingInv` relates the stored tail to head and count modulo the capacity;
  with it `RingIsFifo` proves that a ring of any capacity, with a stored or a
  computed tail, implements `Fifo` (refinement, step by step). For `Handles`, encoding and
  decoding are inverse (division and remainder lemmas), and the generation of a
  slot is the number of its installations modulo `GenerationMax` (`HandlesInv`); hence a
  closed handle value is refused until its slot has gone through all generations.
  For `Pmm`, `MadeOf` is the invariant of the second loop of `pmm_init`: each region lies inside
  a usable entry of its own, its bits follow those of the region before. With
  alignment (`Aligned`, `WholePages`) and with what `pmm_init` refuses, two frames share
  neither a bit nor an address (`PlacesApart`), and `PmmInv` says that the addresses that are
  out are those of the frames whose bit is set. `FramesTrueAlways` holds for every memory map,
  also one that overlaps among its reserved entries or has more memory than the bitmap covers.
  For `Heap`, `HeapInv` says that the list is healthy (blocks of a legal size, no two free ones
  side by side, `Healthy`), ends where the mapped pages end (`Bound`), and that its
  `Allocations` are those that were given. Splitting, marking, merging and appending all put new blocks in
  the place of old ones (`Relinked`): one set of lemmas says what such a change does to the
  addresses of the blocks behind (`RelinkTail`), to the other allocations (`RelinkOutside`)
  and to neighbours (`RelinkApart`). `kfree` breaks the rule of the neighbours for at most two pairs,
  and each of its two merges mends one (`MergeKeeps`).
  For `Net`, `NetInv` numbers the questions: every frame in the receive ring is an answer to
  a question that was asked (`AnswersOK`); transactions and queries have numbers up to the
  current one, the request with the current number went to the server that was chosen, and the
  query with the current number is for the name of the call (`QuestionsOK`). An answer that
  carries the current number is thus one to the current question, however old the frame is.
  `RxRingOK` says which descriptors are the driver's by their distance from `rx_next`, and that the
  card stops one short of them (`BehindMoves`, `BehindInjective`: how distances in a ring
  change). The steps of a call share one summary, `Continues`. In the course of this proof
  `e1000_init` turned out to be stated with alternatives that overlap (a card that is up *and*
  a start that would fail); it is now stated in the order of the code's returns.
* `SpaceProofs`. `FramesOwned` says who has which frame; `SpaceInv` says why. Its first part
  (`Partition`) is the partition of the frames among the heap, page tables, private pages,
  objects and the free ones, and that no record names a frame twice. The second, per process
  (`Proper`, `Agrees`), is that the page tables are exactly those its pages need, that its pages
  are those of the records, and that records do not overlap. The third, per buffer (`BufferTrue`), is that
  the reference count is the number of handles and views. `FramesOwned` says nothing of the
  counts, and without them it is not inductive: the last use gives the frames back, and
  must not leave a view behind that shows them.
  The operations hand a value on from page to page, so each of their loops has an invariant of its
  own: `Accounts` (the frames free, in tables and in hand are those the call was given),
  `Closed` (every table is needed by a page, every page has its tables) and `Mapped` (which of
  the pages are mapped so far). Mapping a page breaks `Closed` while the tables
  are made from the top down, and unmapping one while the empty ones are taken away from the bottom
  up; the lemmas about `GetTables` and `address_space_unmap_page` say for each level what is
  missing still. `RollBack` is the point: what was mapped, taken away in
  reverse, leaves the pages and tables that were there, wherever the call had to stop. One lemma per action
  then says what the call does to one process and at most one buffer, and `OneMoves` puts the partition together again.
* `SessionProofs`, desktop. `DesktopInv` counts: the inputs in the queue to the window manager, the one it
  has put aside, the one in hand, and the acknowledgements in the queue to the server are
  together one while the server waits for an acknowledgement, and none otherwise (`Accounted`).
  What makes this inductive is that an input that is under way is a message of its own type,
  never the mark for "none put aside". The second half of `InputAccounted` is `TurnOK`: whenever the input in
  hand was acknowledged before the work was done, or another is put aside, the turn began with a pointer's
  move or with nothing. `RoomForInputAlways` follows as well: a second input never
  meets one put aside, for which the window manager would give up. All that the window manager does between two messages
  is summed up in `Continues`: requests that are no acknowledgements, or exactly one of
  the input in hand. It is proved once for each function of `main.c`, whatever the layout
  looks like at that moment; the rest is a case per message. When the window manager dies, nothing is owed, until
  the server has noticed (`GoneKeeps`).

Loops. The induction theorems of the library take a predicate as parameter, which the
installed provers cannot instantiate. `Induction` states induction about a *set* of
numbers (its least element outside the set comes from the well-foundedness of `<`),
and shows that a step applied N times has a result. The loops of `Ipc`, `Pty`, `Input`, `pmm_init`,
`kmalloc`, `heap_validate`, `vfs_resolve`, `vfs_shutdown`, `process_clear` and all of `Space` are therefore recursive functions over 0..N, local to the operator of the C
function, and what they leave behind is proved for every N.

Assumptions are the `ASSUME`s of the modules: sizes are natural numbers (positive
where the code's constants are), sets of processes are finite, and the slot fits its
field. The inductive invariants were checked by TLC on the instances of the runs before
they were proved.

Only model-checked: `BoringFs`, of the file calls `CwdTextTrue`, `DevicesTrue` of the xHCI
controller, `OkMeansDurable` for the stick, that HID stays true beside it, and of the desktop
`DesktopAgrees` and `WindowsShown`; liveness under fairness and whatever needs ENABLED
(`ReadyRuns`, `WaiterReturns` and the like), which is beyond this prover; what folds and
RECURSIVE operators compute (`FoldLeft` and `FoldSet` hide an induction that the provers
would have to find).

## 6. Not modelled

Page-table bits and the TLB, register saving, descriptor tables, firmware
tables, drawing, text formatting, and the boot sequence: straight-line code, or
data without a state that a property is about. Concurrency of several CPUs does
not occur (one CPU is started).

Hazards that no property covers:

* A blocking call by the only READY task cannot block and returns EBUSY
  (`syscall.c:1893`); programs have to try again, and none is modelled that does not.
* Freeing an area at EXIT needs heap memory for a vector of frames
  (`user_memory.c:606`); `Space` takes the heap to have it.
* The writes of a rollback fail themselves (`boringfs_vfs.c:1387`): best effort by
  documentation; with `RollbackFaults = TRUE` TLC shows `RolledBack` violated.
* A write that is reported as failed has reached the disk all the same
  (`boringfs_vfs.c:258`): a block write happens or fails as a whole here.
* FS_WRITE truncates and then writes (`syscall.c:1703`): a failure in between leaves
  the file empty. The two are separate operations of `BoringFs`, each atomic.
* Echo identifiers are used again by later calls (`net.c:1141`), so that a late echo
  counts for the next call: the count it reports is a statistic.

## 7. Plan

Done, in order of importance: scheduler and processes, SPAWN and WAITPID, IPC and
shared buffers, PTYs and waiting, input, the writable file system, the disk
transfer path, memory management; the RAM file system, VFS and file calls; block
devices, AHCI, xHCI with hubs, HID and mass storage; NET_PING; display server and window
manager; proofs for the scheduler, SPAWN, IPC, PTYs, input, VirtIO and SATA transfers, USB keyboard and
mouse, NET_PING, the frames of the physical memory manager and their owners, the heap, rings and handles, the RAM
file system, the references of the file layer and the input of the desktop.

Next:

1. *Processes*: LAUNCH and EXEC, which run a child to its end inside the call, and what
   their teardown leaves out; session supervision over `Spawn`.
2. *Programs*: the terminal's screen, editor and line buffers, the shell's jobs, the
   allocator of the user runtime.
3. *Devices*: the byte-level decoders of PS/2 in front of `Input`, the hand-over of the
   framebuffer, VirtIO set-up.
4. *Proofs*: `OkMeansDurable` for `UsbStorage`, `CwdTextTrue` of `FileCalls`, `DesktopAgrees` of `Wm`.
