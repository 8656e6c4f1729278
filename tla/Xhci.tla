-------------------------------- MODULE Xhci --------------------------------
(***************************************************************************)
(* From the reset of an xHCI controller to configured devices               *)
(* (kernel/arch/x86_64/xhci.c, xhci_mixed.c, kernel/core/xhci.c): the kernel    *)
(* gives each device on a port, or on a port of a hub, a slot, asks it for     *)
(* its descriptors and configures it.  One command or one control transfer is  *)
(* out at a time; its event comes through the event ring.  A call returns at   *)
(* the first thing that fails, and its callers stop there.                    *)
(***************************************************************************)
EXTENDS Trbs, FiniteSets

CONSTANTS
    RootPorts,          \* what is plugged into the ports: "hub", "hid" or "disk"
    HubPorts,           \* and into the ports of a hub, where "none" is possible
    SlotCount,          \* max_slots of the controller
    DeviceTable,        \* XHCI_MAX_ADDRESSED_DEVICES
    CommandUsable,      \* XHCI_COMMAND_RING_USABLE
    Ep0Usable           \* XHCI_EP0_RING_USABLE

ASSUME XhciAssumption ==
    /\ SlotCount \in Nat \ {0} /\ DeviceTable \in Nat \ {0}
    /\ CommandUsable \in Nat \ {0} /\ Ep0Usable \in Nat /\ Ep0Usable >= 3

VARIABLES
    xhc,                \* the controller's state and the driver's, but for the devices;
                        \* late: a wait ended before the controller was done
    addressed,          \* the table of addressed devices
    frames,             \* the frames that the driver owns for each device
    job                 \* what the driver is doing: the call, the devices it has still to
                        \* go through, and the steps for the one at hand

xhciVars == <<xhc, addressed, frames, job>>

\* A device is known by its port; the ports of the hub follow the root's.
Ids == 1..(Len(RootPorts) + Len(HubPorts))
KindOf(id) == IF id <= Len(RootPorts) THEN RootPorts[id] ELSE HubPorts[id - Len(RootPorts)]
Downstream == [i \in 1..Len(HubPorts) |-> Len(RootPorts) + i]
Slots == 1..SlotCount

CommandSteps == {"enable", "address", "evaluate", "configure", "disable"}
FramesOf(step) ==
    CASE step = "contexts" -> {"input", "context", "ep0"}
      [] step = "buffer" -> {"descriptor"}
      [] step = "hub_buffer" -> {"hub"}
      [] step = "report_buffer" -> {"report"}
      [] OTHER -> {"rings"}

Calls == <<"address", "discover", "hubs", "discover_more", "configure", "ready">>
Idle == [call |-> "init", todo |-> <<>>, id |-> 0, slot |-> 0, steps |-> <<>>, waits |-> "none",
         trb |-> 0]

XhciInit ==
    /\ xhc = [running |-> FALSE, rings |-> FALSE, late |-> FALSE,
              slots |-> [s \in Slots |-> "off"],
              dcbaa |-> [s \in Slots |-> 0], commands |-> NewRing(CommandUsable),
              completions |-> 0, transfers |-> [id \in Ids |-> "none"], saved |-> <<>>]
    /\ addressed = <<>>
    /\ frames = [id \in Ids |-> {}]
    /\ job = Idle

\* The place of a device in the table.
At(id) == CHOOSE i \in 1..Len(addressed) : addressed[i].id = id

----------------------------------------------------------------------------
(* Calls                                                                   *)

\* initialize_controller: it halts, resets and starts the controller; what
\* fails gives the rings back.  A controller that was told to run and does not say
\* so in time is not told to stop.
initialize_controller(failing, told) ==
    /\ job.call = "init"
    /\ failing \/ told
    /\ xhc' = [xhc EXCEPT !.running = told, !.rings = ~failing, !.late = failing /\ told]
    /\ job' = IF failing THEN [job EXCEPT !.call = "failed"]
              ELSE [job EXCEPT !.call = "address", !.todo = [i \in 1..Len(RootPorts) |-> i]]
    /\ UNCHANGED <<addressed, frames, eventVars>>

\* The devices that a call goes through.
Todo(call, table) ==
    LET Chosen(d) == CASE call \in {"discover", "discover_more"} -> ~d.ready
                       [] call = "hubs" -> d.ready /\ KindOf(d.id) = "hub"
                       [] OTHER -> call = "configure" /\ KindOf(d.id) = "hid"
        chosen == SelectSeq(table, Chosen)
    IN  [i \in 1..Len(chosen) |-> chosen[i].id]

\* xhci_configure_hid_devices_mixed puts the devices it does not configure
\* aside, and back when it is done.
OnlyHids(table) == SelectSeq(table, LAMBDA d : KindOf(d.id) = "hid")
Restored ==
    [i \in 1..Len(xhc.saved) |->
        IF \E j \in 1..Len(addressed) : addressed[j].id = xhc.saved[i].id
          THEN addressed[At(xhc.saved[i].id)] ELSE xhc.saved[i]]

\* The call is done, and the next one begins.
Returns(next) ==
    /\ job' = [Idle EXCEPT !.call = next, !.todo = Todo(next, addressed)]
    /\ addressed' = CASE job.call = "configure" -> Restored
                      [] next = "configure" -> OnlyHids(addressed)
                      [] OTHER -> addressed
    /\ xhc' = [xhc EXCEPT !.saved = IF next = "configure" THEN addressed ELSE <<>>]

CallReturns ==
    /\ job.call \in {"address", "discover", "hubs", "discover_more", "configure"}
    /\ job.id = 0 /\ job.todo = <<>>
    /\ LET n == CHOOSE i \in 1..Len(Calls) : Calls[i] = job.call
       IN  Returns(IF job.call = "address" /\ addressed = <<>> THEN "failed" ELSE Calls[n + 1])
    /\ UNCHANGED <<frames, eventVars>>

\* address_root_port.
AddressSteps == <<"port_reset", "enable", "contexts", "address">>

\* discover_device_descriptors: the first bytes, the device descriptor and the
\* configuration twice.  A device whose packets are larger than assumed needs
\* its context changed.
DescriptorSteps(larger) ==
    <<"buffer", "get">> \o (IF larger THEN <<"evaluate">> ELSE <<>>) \o <<"get", "get", "get">>

\* configure_hid_device of a device with one interface: a boot interface is set
\* to its boot protocol, another one is asked for its report descriptor.
HidSteps(generic) ==
    <<"set">> \o (IF generic THEN <<"report_buffer", "report">> ELSE <<"set">>)
    \o <<"rings", "configure">>

\* configure_and_enumerate_hub, before it goes through the ports.
HubSteps == <<"hub_buffer", "set", "get", "configure">>

\* wait_for_downstream_port_reset: the port is reset and polled until it is
\* ready; the change that it shows is cleared.
ResetSteps(clears, polls) ==
    <<"set">> \o [i \in 1..polls |-> "get"] \o (IF clears THEN <<"set", "get">> ELSE <<>>)

\* A port of the hub: it is powered and looked at; a device is reset and, if the
\* table has room, addressed (address_downstream_port).
PortSteps(id, clears, polls) ==
    <<"set", "get">>
    \o IF KindOf(id) = "none" THEN <<>>
       ELSE ResetSteps(clears, polls) \o <<"room", "enable", "contexts", "address">>

Steps(id, odd, polls) ==
    CASE job.call = "address" -> AddressSteps
      [] job.call \in {"discover", "discover_more"} -> DescriptorSteps(odd)
      [] job.call = "configure" -> HidSteps(odd)
      [] OTHER -> IF KindOf(id) = "hub" THEN HubSteps ELSE PortSteps(id, odd, polls)

\* The next device; xhci_address_connected ends when the table is full.
NextDevice(odd, polls) ==
    LET id == Head(job.todo)
    IN  /\ job.id = 0 /\ job.todo # <<>>
        /\ odd => job.call # "address"
        /\ polls > 1 => job.call = "hubs"
        /\ job' = IF job.call = "address" /\ Len(addressed) = DeviceTable
                    THEN [job EXCEPT !.todo = <<>>]
                    ELSE [job EXCEPT !.id = id, !.todo = Tail(@), !.steps = Steps(id, odd, polls)]
        /\ UNCHANGED <<xhc, addressed, frames, eventVars>>

----------------------------------------------------------------------------
(* Steps                                                                   *)

Step == IF job.steps = <<>> THEN "none" ELSE Head(job.steps)
Waits == job.waits # "none"

\* The device whose control endpoint is asked: the hub's for its ports.
Asked == IF job.call = "hubs" /\ job.id \in {Downstream[i] : i \in 1..Len(Downstream)}
           THEN (CHOOSE i \in 1..Len(addressed) : KindOf(addressed[i].id) = "hub") ELSE At(job.id)

\* The steps that are left when one is done.
StepDone == [job EXCEPT !.steps = Tail(@), !.waits = "none"]

\* The frames that go when a device fails: all of them when it is not addressed
\* yet, the descriptor's, the rings', none of a hub's.
FramesBack ==
    [frames EXCEPT ![job.id] =
        IF job.slot # 0 THEN {}
        ELSE CASE job.call = "address" -> {}
               [] job.call \in {"discover", "discover_more"} -> @ \ {"descriptor"}
               [] job.call = "configure" -> @ \ {"rings"}
               [] OTHER -> @]

\* Mutant: the entry of the slot stays when the device could not be addressed.
EntryStays(step, x) == x

\* address_root_port and address_downstream_port: a device that could not be
\* addressed loses its entry first.
EntryCleared(step, x) ==
    IF step = "address" THEN [x EXCEPT !.dcbaa[job.slot] = 0] ELSE x

\* A step fails.  A slot that was enabled is disabled before the frames go.  A
\* device that does not tell its reports is passed over.
DeviceFails(x) ==
    IF Step \in {"report_buffer", "report"}
      THEN /\ job' = [job EXCEPT !.id = 0, !.steps = <<>>, !.waits = "none"]
           /\ xhc' = x /\ UNCHANGED <<addressed, frames>>
    ELSE IF job.slot # 0 /\ Step # "disable"
      THEN /\ job' = [job EXCEPT !.steps = <<"disable">>, !.waits = "none"]
           /\ xhc' = EntryCleared(Step, x) /\ UNCHANGED <<addressed, frames>>
    ELSE /\ job' = [Idle EXCEPT !.call = "failed"]
         /\ xhc' = [x EXCEPT !.saved = <<>>]
         /\ frames' = FramesBack
         /\ addressed' = IF job.call = "configure" THEN Restored ELSE addressed

\* root_port_reset.
root_port_reset(fails) ==
    /\ Step = "port_reset"
    /\ IF fails THEN DeviceFails(xhc)
       ELSE job' = StepDone /\ UNCHANGED <<xhc, addressed, frames>>
    /\ UNCHANGED eventVars

\* configure_and_enumerate_hub, before a device of a port gets its place.
HasRoom ==
    /\ Step = "room"
    /\ IF Len(addressed) = DeviceTable THEN DeviceFails(xhc)
       ELSE job' = StepDone /\ UNCHANGED <<xhc, addressed, frames>>
    /\ UNCHANGED eventVars

\* frame_alloc_zero of the frames that a step needs.
frame_alloc(fails) ==
    /\ Step \in {"contexts", "buffer", "hub_buffer", "report_buffer", "rings"}
    /\ IF fails THEN DeviceFails(xhc)
       ELSE /\ frames' = [frames EXCEPT ![job.id] = @ \cup FramesOf(Step)]
            /\ job' = StepDone
            /\ UNCHANGED <<xhc, addressed>>
    /\ UNCHANGED eventVars

\* command_submit, and the entry of the slot before a device is addressed.
command_submit ==
    /\ Step \in CommandSteps /\ ~Waits
    /\ LET slot == IF job.slot # 0 \/ Step = "enable" THEN job.slot ELSE addressed[At(job.id)].slot
       IN  xhc' = [xhc EXCEPT !.commands = Submitted(@, [page |-> Step, slot |-> slot, id |-> job.id]),
                              !.dcbaa = IF Step = "address" THEN [@ EXCEPT ![slot] = job.id] ELSE @]
    /\ job' = [job EXCEPT !.waits = "command", !.trb = xhc.commands.index]
    /\ UNCHANGED <<addressed, frames, eventVars>>

\* A control transfer of some entries, which have to fit before the link.
ControlTransfer(entries) ==
    /\ ~Waits
    /\ LET at == addressed[Asked].ep0
       IN  IF at > Ep0Usable - entries THEN DeviceFails(xhc)
           ELSE /\ addressed' = [addressed EXCEPT ![Asked].ep0 =
                                    IF @ = Ep0Usable - entries THEN 0 ELSE @ + entries]
                /\ xhc' = [xhc EXCEPT !.transfers[addressed[Asked].id] = Step]
                /\ job' = [job EXCEPT !.waits = "control"]
                /\ UNCHANGED frames
    /\ UNCHANGED eventVars

\* ep0_submit_get_descriptor and the like: setup, data and status.
ep0_submit_in == Step \in {"get", "report"} /\ ControlTransfer(3)

\* ep0_submit_set_configuration and the like: setup and status.
ep0_submit_no_data == Step = "set" /\ ControlTransfer(2)

----------------------------------------------------------------------------
(* Events                                                                  *)

\* What a command or the last transfer of a device brings.
Completed(slot) ==
    LET done == job.steps = <<Step>>
        leaves == [StepDone EXCEPT !.slot = IF Step = "enable" THEN slot ELSE @,
                                   !.id = IF done THEN 0 ELSE @]
        device == [id |-> job.id, slot |-> job.slot, ep0 |-> 0, ready |-> FALSE, set |-> FALSE]
    IN  CASE Step = "address" ->
               addressed' = Append(addressed, device) /\ job' = [leaves EXCEPT !.slot = 0]
          [] done /\ Step = "get" /\ job.call \in {"discover", "discover_more"} ->
               addressed' = [addressed EXCEPT ![At(job.id)].ready = TRUE] /\ job' = leaves
          [] Step = "configure" ->
               /\ addressed' = [addressed EXCEPT ![At(job.id)].set = TRUE]
               /\ job' = [leaves EXCEPT !.todo = IF job.call = "hubs" THEN Downstream \o @ ELSE @]
          [] OTHER -> job' = leaves /\ UNCHANGED addressed

\* event_dispatch_wait takes an event, whatever it is: of a port, the one it
\* waits for, and another one, with which it fails.
Expects ==
    CASE Event.type = "command" -> job.waits = "command" /\ Event.trb = job.trb /\ Event.ok
      [] Event.type = "control" ->
            job.waits \in {"control", "status"} /\ Event.id = addressed[Asked].id /\ Event.ok
      [] OTHER -> FALSE

event_dispatch_wait ==
    /\ Waits /\ EventReady
    /\ xhci_event_dequeue_advance /\ UNCHANGED event_ring
    /\ CASE Event.type = "port" -> UNCHANGED xhciVars
         [] Event.type = "command" /\ Expects /\ Step # "disable" ->
               /\ xhc' = [xhc EXCEPT !.completions = (@ + 1) % (2 * CommandUsable)]
               /\ Completed(Event.slot)
               /\ UNCHANGED frames
         [] Event.type = "control" /\ Expects /\ Event.short ->
               job' = [job EXCEPT !.waits = "status"] /\ UNCHANGED <<xhc, addressed, frames>>
         [] Event.type = "control" /\ Expects /\ ~Event.short ->
               Completed(0) /\ UNCHANGED <<xhc, frames>>
         [] OTHER -> DeviceFails(xhc)

\* The end of XHCI_EVENT_WAIT_LIMIT: the call fails like any other, and what was
\* waited for stays with the controller.
EventWaitEnds ==
    /\ Waits /\ ~EventReady
    /\ DeviceFails([xhc EXCEPT !.late = TRUE])
    /\ UNCHANGED eventVars

----------------------------------------------------------------------------
(* The controller and the devices                                          *)

\* The controller carries out a command, or refuses it.
ControllerRuns(ok) ==
    LET c == CurrentWork(xhc.commands)
        free == {s \in Slots : xhc.slots[s] = "off"}
        slot == IF c.page = "enable" THEN (IF free = {} THEN 0 ELSE CHOOSE s \in free : \A t \in free : s <= t)
                ELSE c.slot
        does == ok /\ slot # 0
    IN  /\ xhc.running /\ HasWork(xhc.commands)
        /\ xhc' = [xhc EXCEPT
                     !.commands = WorkDone(@),
                     !.slots = IF ~does THEN @
                               ELSE CASE c.page = "enable" -> [@ EXCEPT ![slot] = "enabled"]
                                      [] c.page = "address" -> [@ EXCEPT ![slot] = "addressed"]
                                      [] c.page = "disable" -> [@ EXCEPT ![slot] = "off"]
                                      [] OTHER -> @]
        /\ PostEvent([type |-> "command", trb |-> CurrentTrb(xhc.commands), slot |-> slot, ok |-> does])
        /\ UNCHANGED <<addressed, frames, job>>

\* A device answers on its control endpoint, in full, short, or with an error; a
\* short answer is followed by a status.
DeviceAnswers(id, ok, short) ==
    /\ xhc.transfers[id] # "none"
    /\ short => ok /\ xhc.transfers[id] \in {"get", "report"}
    /\ xhc' = [xhc EXCEPT !.transfers[id] = IF short THEN "status" ELSE "none"]
    /\ PostEvent([type |-> "control", id |-> id, ok |-> ok, short |-> short])
    /\ UNCHANGED <<addressed, frames, job>>

PortChanged ==
    /\ xhc.running
    /\ PostEvent([type |-> "port"])
    /\ UNCHANGED xhciVars

XhciNext ==
    \/ \E failing, told \in BOOLEAN : initialize_controller(failing, told)
    \/ \E fails \in BOOLEAN : root_port_reset(fails) \/ frame_alloc(fails)
    \/ CallReturns
    \/ HasRoom
    \/ \E odd \in BOOLEAN, polls \in 1..2 : NextDevice(odd, polls)
    \/ command_submit
    \/ ep0_submit_in
    \/ ep0_submit_no_data
    \/ event_dispatch_wait
    \/ EventWaitEnds
    \/ \E ok \in BOOLEAN : ControllerRuns(ok)
    \/ \E id \in Ids, ok, short \in BOOLEAN : DeviceAnswers(id, ok, short)
    \/ PortChanged

----------------------------------------------------------------------------
(* Properties                                                              *)

\* The frames that the controller reads or writes for a command and for a
\* transfer.
CommandFrames(c) ==
    CASE c.page = "address" -> FramesOf("contexts")
      [] c.page = "evaluate" -> {"input"}
      [] c.page = "configure" -> {"input"} \cup IF KindOf(c.id) = "hub" THEN {} ELSE {"rings"}
      [] OTHER -> {}
TransferFrames(id) ==
    CASE xhc.transfers[id] = "none" -> {}
      [] xhc.transfers[id] = "get" -> {"ep0", IF job.call = "hubs" THEN "hub" ELSE "descriptor"}
      [] xhc.transfers[id] = "report" -> {"ep0", "report"}
      [] OTHER -> {"ep0"}

\* Whatever fails on the way, no entry of a slot leads to a context that was given
\* back; every device of the table has a slot of its own, addressed, with its own
\* context behind it; nothing is left of a device that is not in the table; and
\* when all is ready, the number of completed commands, from which the mass
\* storage driver reckons the next entry, is the place of the command ring.  As
\* long as the controller starts and answers within the waiting, it never runs
\* without its rings, and no frame of a command or of a transfer that it still has
\* is given back.  A controller that is late has frames that were: the code frees
\* them without asking (xhci.c:1529, 1469, 2144).
DevicesTrue ==
    LET table == IF xhc.saved = <<>> THEN addressed ELSE Restored
        Busy(id) == job.id = id /\ job.call \in {"address", "hubs"}
    IN  /\ \A s \in Slots : xhc.dcbaa[s] # 0 => "context" \in frames[xhc.dcbaa[s]]
        /\ ~xhc.late =>
              /\ xhc.running => xhc.rings
              /\ HasWork(xhc.commands) =>
                    LET c == CurrentWork(xhc.commands) IN CommandFrames(c) \subseteq frames[c.id]
              /\ \A id \in Ids : TransferFrames(id) \subseteq frames[id]
        /\ \A i \in 1..Len(table) :
              /\ xhc.slots[table[i].slot] = "addressed" /\ xhc.dcbaa[table[i].slot] = table[i].id
              /\ FramesOf("contexts") \subseteq frames[table[i].id]
              /\ table[i].ready => "descriptor" \in frames[table[i].id]
              /\ table[i].set => {"hub", "rings"} \cap frames[table[i].id] # {}
              /\ \A j \in 1..Len(table) : table[i].slot = table[j].slot => i = j
        /\ \A id \in Ids : frames[id] # {} => Busy(id) \/ \E i \in 1..Len(table) : table[i].id = id
        /\ job.call = "ready" =>
              /\ xhc.completions % CommandUsable = xhc.commands.index
              /\ (xhc.completions \div CommandUsable = 0) = xhc.commands.cycle
=============================================================================
