----------------------------- MODULE UsbStorage -----------------------------
(***************************************************************************)
(* A stick on USB (kernel/core/usb_mass_storage_impl.inc): a SCSI command is   *)
(* a wrapper on the ring to the stick, data on either ring, and a status on    *)
(* the ring from the stick.  The driver waits for the event of each transfer   *)
(* on the event ring that it shares with the keyboard and the mouse, and gives *)
(* up after a number of spins; transfers stay with the controller then.  A     *)
(* write goes well only when it has been synchronized, or, on a stick that     *)
(* cannot synchronize, when it was repeated past the cache.                   *)
(***************************************************************************)
EXTENDS UsbHid, BlockDevice

CONSTANTS
    BulkUsable,         \* MSC_BULK_RING_USABLE
    TagMax,             \* bound on next_tag, the commands of a behaviour
    SlowStick           \* whether a transfer may outlast MSC_EVENT_WAIT_LIMIT

ASSUME UsbStorageAssumption ==
    BulkUsable \in Nat \ {0, 1} /\ TagMax \in Nat /\ SlowStick \in BOOLEAN

VARIABLES
    msc,                \* msc_runtime, the step of the call that is being served, and the
                        \* transfer that is waited for
    bot_pages,          \* the bot_pages of wrapper, data and status
    stick               \* what the stick can do, and where it is in a command

storageVars == <<msc, bot_pages, stick>>

\* What the driver does of a call: a step is a command.
Commands == {"inquiry", "ready", "init_sense", "ready2", "capacity",
             "read", "write", "sync", "sense", "fua"}
ReadsData == {"inquiry", "init_sense", "capacity", "read", "sense"}
WritesData == {"write", "fua"}
NoWrapper == [tag |-> 0, command |-> "none", first |-> 0, count |-> 0]
NoData == [blocks |-> <<>>, sense |-> "none"]
NoStatus == [tag |-> 0, full |-> FALSE, status |-> 0]
TransportFrames == 5

Transport ==
    [frames |-> 0, initialized |-> FALSE, configured |-> FALSE, registered |-> FALSE,
     unsupported |-> FALSE, pending |-> FALSE, next_tag |-> 1,
     in |-> NewRing(BulkUsable), out |-> NewRing(BulkUsable),
     step |-> "idle", phase |-> "none", expected |-> 0, full |-> FALSE]

StorageInit ==
    /\ msc = Transport
    /\ bot_pages = [cbw |-> NoWrapper, data |-> NoData, csw |-> NoStatus]
    /\ \E sync \in BOOLEAN :
          stick = [sync |-> sync, phase |-> "cbw", cbw |-> NoWrapper, full |-> FALSE,
                   status |-> 0, sense |-> "none"]

----------------------------------------------------------------------------
(* A command                                                               *)

\* The ring of a page's transfer.
RingOf(page, step) ==
    IF page = "csw" \/ (page = "data" /\ step \in ReadsData) THEN "in" ELSE "out"

\* bulk_transfer up to wait_bulk: a page goes onto a ring.
Transfer(m, page) ==
    LET ring == RingOf(page, m.step)
    IN  [m EXCEPT ![ring] = Submitted(@, [page |-> page]),
                  !.expected = m[ring].index, !.phase = page]

\* bot_execute: the wrapper, with a tag of its own.
bot_execute ==
    /\ msc.step # "idle" /\ msc.phase = "none"
    /\ msc.next_tag <= TagMax
    /\ bot_pages' = [bot_pages EXCEPT !.cbw = [tag |-> msc.next_tag, command |-> msc.step,
                                       first |-> call.first, count |-> call.count]]
    /\ msc' = Transfer([msc EXCEPT !.next_tag = @ + 1], "cbw")
    /\ UNCHANGED <<stick, hidVars, eventVars, deviceVars>>

\* The step is over and another one begins.
Goes(step) == [msc EXCEPT !.step = step, !.phase = "none"]

\* usb_mass_storage_cleanup: the frames of the rings go with the rest.
usb_mass_storage_cleanup ==
    [msc EXCEPT !.frames = 0, !.initialized = FALSE, !.registered = FALSE,
                !.step = "idle", !.phase = "none"]

\* A command failed, and with it the call or the initialization.
StepFails ==
    /\ msc' = IF msc.registered THEN Goes("idle") ELSE usb_mass_storage_cleanup
    /\ call' = IF msc.registered THEN NoCall ELSE call
    /\ UNCHANGED block_devices

StepGoes(m) == msc' = m /\ UNCHANGED <<call, block_devices>>

\* The call went well.
CallDone(m) ==
    /\ msc' = m
    /\ call' = [call EXCEPT !.stage = "done",
                            !.data = IF call.op = "read" THEN bot_pages.data.blocks ELSE @]
    /\ UNCHANGED block_devices

usb0 == [name |-> "usb0", blocks |-> DiskBlocks, first |-> 0, parent |-> 0, read_only |-> FALSE]

\* scsi_test_unit_ready and the end of usb_mass_storage_init.
InitGoesOn(ok) ==
    CASE msc.step = "inquiry" -> IF ok THEN StepGoes(Goes("ready")) ELSE StepFails
      [] msc.step = "ready" -> StepGoes(Goes(IF ok THEN "capacity" ELSE "init_sense"))
      [] msc.step = "init_sense" -> IF ok THEN StepGoes(Goes("ready2")) ELSE StepFails
      [] msc.step = "ready2" -> IF ok THEN StepGoes(Goes("capacity")) ELSE StepFails
      [] OTHER ->
            IF ok /\ CanRegister(usb0)
              THEN /\ block_devices' = Append(block_devices, usb0)
                   /\ msc' = [Goes("idle") EXCEPT !.registered = TRUE]
                   /\ UNCHANGED call
              ELSE StepFails

\* usb_mass_storage_flush when the stick has refused to synchronize: if it does
\* not know the command, a write of the call is repeated past the cache.
SyncRefused(sense) ==
    LET m == [Goes("idle") EXCEPT !.unsupported = TRUE]
    IN  IF sense # "illegal" THEN StepFails
        ELSE IF call.op = "write" THEN StepGoes([m EXCEPT !.step = "fua"])
        ELSE IF msc.pending THEN msc' = m /\ CallFails /\ UNCHANGED block_devices
        ELSE CallDone(m)

\* msc_backend_write and usb_mass_storage_flush, after a command of theirs.
CallGoesOn(ok) ==
    CASE msc.step = "read" -> IF ok THEN CallDone(Goes("idle")) ELSE StepFails
      [] msc.step = "write" ->
            IF ok THEN StepGoes([Goes("sync") EXCEPT !.pending = TRUE]) ELSE StepFails
      [] msc.step = "sync" ->
            IF ok THEN CallDone([Goes("idle") EXCEPT !.pending = FALSE])
            ELSE StepGoes(Goes("sense"))
      [] msc.step = "sense" -> IF ok THEN SyncRefused(bot_pages.data.sense) ELSE StepFails
      [] OTHER -> IF ok THEN CallDone([Goes("idle") EXCEPT !.pending = FALSE]) ELSE StepFails

----------------------------------------------------------------------------
(* Waiting for an event                                                    *)

\* xhci_classify_shared_transfer_event: the event of the transfer.
IsOurs == /\ Event.type = "transfer" /\ Event.endpoint = RingOf(msc.phase, msc.step)
          /\ Event.trb = msc.expected /\ Event.ok

\* The transfer of bot_execute is complete; the next one follows.
TransferComplete ==
    IF msc.phase = "cbw" /\ msc.step \in ReadsData \cup WritesData
      THEN /\ bot_pages' = [bot_pages EXCEPT !.data = IF msc.step \in WritesData
                                                THEN [NoData EXCEPT !.blocks = call.data]
                                                ELSE NoData]
           /\ StepGoes(Transfer(msc, "data"))
    ELSE IF msc.phase = "data" /\ msc.step \in WritesData /\ ~Event.full
      THEN StepFails /\ UNCHANGED bot_pages
    ELSE IF msc.phase # "csw"
      THEN /\ bot_pages' = [bot_pages EXCEPT !.csw = NoStatus]
           /\ StepGoes(Transfer([msc EXCEPT !.full = msc.phase = "cbw" \/ Event.full], "csw"))
    ELSE /\ UNCHANGED bot_pages
         /\ IF bot_pages.csw.tag # msc.next_tag - 1 \/ bot_pages.csw.full # msc.full
              THEN StepFails
              ELSE LET ok == bot_pages.csw.status = 0 /\ msc.full
                   IN  IF msc.registered THEN CallGoesOn(ok) ELSE InitGoesOn(ok)

\* wait_bulk takes an event: of a port, of its transfer, or of the keyboard or
\* the mouse, which it serves on the way.
WaitTakes(without) ==
    /\ msc.phase # "none" /\ EventReady
    /\ \/ /\ Event.type = "port"
          /\ xhci_event_dequeue_advance
          /\ UNCHANGED <<hid, told, msc, bot_pages, call, block_devices>>
       \/ /\ IsOurs
          /\ xhci_event_dequeue_advance
          /\ TransferComplete
          /\ UNCHANGED <<hid, told>>
       \/ /\ \E e \in HidEndpoint : IsExpected(Event, e) /\ ConsumeHid(e, without)
          /\ UNCHANGED <<msc, bot_pages, call, block_devices>>
    /\ UNCHANGED <<service, delivered, event_ring, stick, diskVars>>

\* It gives up: there is no event, or one that is nobody's, which stays.
WaitFails ==
    /\ msc.phase # "none"
    /\ IF ~EventReady THEN SlowStick
       ELSE /\ Event.type # "port" /\ ~IsOurs
            /\ ~ \E e \in HidEndpoint : IsExpected(Event, e) /\ hid[e].buffer.valid
    /\ StepFails
    /\ UNCHANGED <<bot_pages, stick, hidVars, eventVars, diskVars>>

----------------------------------------------------------------------------
(* Calls                                                                   *)

Waiting == msc.phase # "none" \/ msc.step # "idle"

\* usb_mass_storage_init up to its first command.  The stick cannot be
\* configured twice.
usb_mass_storage_init(failing) ==
    /\ service = "idle" /\ ~Waiting /\ NoneServed
    /\ ~msc.initialized
    /\ msc' = IF failing \in {"find", "frames", "control"} \/ msc.configured
                THEN [Transport EXCEPT !.configured = msc.configured,
                                       !.in = msc.in, !.out = msc.out]
                ELSE [Transport EXCEPT !.frames = TransportFrames, !.initialized = TRUE,
                                       !.configured = TRUE, !.step = "inquiry"]
    /\ UNCHANGED <<bot_pages, stick, hidVars, eventVars, deviceVars>>

\* msc_backend_read, msc_backend_write, msc_backend_flush.
msc_backend ==
    /\ service = "idle" /\ ~Waiting /\ msc.initialized
    /\ call.stage = "backend"
    /\ IF call.op = "flush"
         THEN IF ~msc.unsupported THEN StepGoes(Goes("sync"))
              ELSE IF msc.pending THEN StepFails ELSE CallDone(msc)
         ELSE IF call.count > TransferMax THEN StepFails
         ELSE StepGoes(Goes(IF call.op = "write" /\ msc.unsupported THEN "fua" ELSE call.op))
    /\ UNCHANGED <<bot_pages, stick, hidVars, eventVars, diskVars>>

----------------------------------------------------------------------------
(* The stick                                                               *)

\* The controller has carried out a transfer of a ring, whole or in part.
Completes(ring, ok, full) ==
    /\ HasWork(msc[ring])
    /\ PostEvent([type |-> "transfer", endpoint |-> ring, trb |-> CurrentTrb(msc[ring]),
                  ok |-> ok, full |-> full])
    /\ msc' = [msc EXCEPT ![ring] = WorkDone(@)]

Page(ring) == CurrentWork(msc[ring]).page

\* The stick takes a wrapper, as the page is then.
StickTakesCommand ==
    /\ stick.phase = "cbw"
    /\ Completes("out", TRUE, TRUE)
    /\ stick' = [stick EXCEPT !.cbw = bot_pages.cbw, !.status = 0, !.full = TRUE,
                              !.phase = IF bot_pages.cbw.command \in ReadsData \cup WritesData
                                          THEN "data" ELSE "csw"]
    /\ UNCHANGED <<bot_pages, hidVars, deviceVars>>

\* It sends data into the page that it finds, or nothing when the command fails.
StickSends(fails) ==
    LET c == stick.cbw
        answer == [blocks |-> IF c.command = "read" THEN DiskReads(c.first, c.count) ELSE <<>>,
                   sense |-> stick.sense]
    IN  /\ stick.phase = "data" /\ c.command \in ReadsData
        /\ Completes("in", TRUE, ~fails)
        /\ bot_pages' = IF fails \/ Page("in") # "data" THEN bot_pages
                        ELSE [bot_pages EXCEPT !.data = answer]
        /\ stick' = [stick EXCEPT !.phase = "csw", !.full = ~fails,
                                  !.status = IF fails THEN 1 ELSE 0]
        /\ UNCHANGED <<hidVars, deviceVars>>

\* It takes data into its cache, or past it; not from a page that holds none.
StickReceives(fails) ==
    LET c == stick.cbw
        written == Page("out") = "data" /\ ~fails
    IN  /\ stick.phase = "data" /\ c.command \in WritesData
        /\ Completes("out", TRUE, TRUE)
        /\ cached' = IF written THEN DiskHolds(cached, c.first, bot_pages.data.blocks) ELSE cached
        /\ medium' = IF written /\ c.command = "fua"
                       THEN DiskHolds(medium, c.first, bot_pages.data.blocks) ELSE medium
        /\ stick' = [stick EXCEPT !.phase = "csw", !.status = IF written THEN 0 ELSE 1]
        /\ UNCHANGED <<bot_pages, hidVars, block_devices, call, kept>>

\* It sends the status; a synchronization is carried out before, if the stick
\* knows the command.
StickAnswers(fails) ==
    LET c == stick.cbw
        fails_now == c.command \in {"sync", "ready", "ready2"} /\ fails
        unknown == c.command = "sync" /\ ~stick.sync
    IN  /\ stick.phase = "csw"
        /\ fails => c.command \in {"sync", "ready", "ready2"}
        /\ Completes("in", TRUE, TRUE)
        /\ LET status == IF fails_now \/ unknown THEN 1 ELSE stick.status
           IN  /\ bot_pages' = IF Page("in") # "csw" THEN bot_pages
                               ELSE [bot_pages EXCEPT !.csw = [tag |-> c.tag, full |-> stick.full,
                                                               status |-> status]]
               /\ medium' = IF c.command = "sync" /\ status = 0 THEN cached ELSE medium
        /\ stick' = [stick EXCEPT !.phase = "cbw",
                                  !.sense = IF unknown THEN "illegal"
                                            ELSE IF fails_now THEN "other" ELSE @]
        /\ UNCHANGED <<hidVars, block_devices, call, cached, kept>>

\* A transfer ends in an error, and the stick's pipes are halted from then on.
StickHalts(ring) ==
    /\ stick.phase # "halted"
    /\ Completes(ring, FALSE, FALSE)
    /\ stick' = [stick EXCEPT !.phase = "halted"]
    /\ UNCHANGED <<bot_pages, hidVars, deviceVars>>

StickNext ==
    \/ StickTakesCommand
    \/ \E fails \in BOOLEAN : StickSends(fails) \/ StickReceives(fails) \/ StickAnswers(fails)
    \/ \E ring \in {"in", "out"} : StickHalts(ring)

StorageNext ==
    \/ ((~Waiting /\ HidService) \/ HidDevices) /\ UNCHANGED <<storageVars, deviceVars>>
    \/ DeviceNext /\ service = "idle" /\ ~Waiting /\ UNCHANGED <<storageVars, hidVars, eventVars>>
    \/ \E failing \in {"find", "frames", "control", "none"} : usb_mass_storage_init(failing)
    \/ msc_backend
    \/ bot_execute
    \/ \E without \in OutOfFrames : WaitTakes(without)
    \/ WaitFails
    \/ StickNext
=============================================================================
