------------------------------ MODULE MCTables ------------------------------
(* Small instances of the kernel's data structures, of its memory           *)
(* management and of its device drivers for TLC.  A behaviour exercises one   *)
(* of them, its focus; the others stay in one of their first states.         *)
EXTENDS Ring, Handles, Pmm, Heap, Space, Ahci, UsbStorage, Xhci, Net

VARIABLE focus

\* A hub and a disk at the controller, and a keyboard at the hub.
Roots == <<"hub", "disk">>
Hubs == <<"none", "hid">>

Slices == {<<"a", 1, 1, FALSE>>, <<"b", 0, 1, TRUE>>, <<"b", 1, 2, FALSE>>}

memoryVars == <<ringVars, handlesVars, pmmVars, heapVars, spaceVars>>
usbVars == <<eventVars, hidVars, storageVars, xhciVars>>
driverVars == <<deviceVars, ahciVars, usbVars, netVars>>

\* The disk of a behaviour about something else.
AnyDisk ==
    /\ identify = [lba48 |-> TRUE, write_cache |-> TRUE]
    /\ ~firmware.owned
    /\ medium = [b \in DiskBlock |-> CHOOSE d \in Datum : TRUE]

\* What a behaviour about the stick leaves out: all but its first block, and
\* the mouse, the ports and the keys, which the keyboard's own behaviours have;
\* and one command of a stick that knows how to synchronize, which needs it less
\* often.
StickBound ==
    /\ stick.sync => msc'.next_tag <= TagMax
    /\ call'.asked[2] = 0 /\ call'.count <= 1 /\ Len(block_devices') <= 1
    /\ delivered'["keyboard"] = {}
    /\ \A i \in DOMAIN WaitingEvents' : WaitingEvents'[i].type # "port"
    /\ ~hid'["mouse"].outstanding

Init ==
    /\ focus \in {"ring", "handles", "pmm", "heap", "space", "ahci", "hid", "stick",
                "xhci", "net"}
    /\ RingInit
    /\ HandlesInit
    /\ PmmInit
    /\ HeapInit
    /\ SpaceInit
    /\ DeviceInit /\ AhciInit
    /\ EventInit /\ HidInit /\ StorageInit /\ XhciInit /\ NetInit
    /\ focus # "ahci" => AnyDisk
    /\ focus # "stick" => stick.sync

MemoryNext ==
    \/ focus = "ring" /\ RingNext /\ UNCHANGED <<handlesVars, pmmVars, heapVars, spaceVars>>
    \/ focus = "handles" /\ HandlesNext /\ UNCHANGED <<ringVars, pmmVars, heapVars, spaceVars>>
    \/ focus = "pmm" /\ PmmNext /\ UNCHANGED <<ringVars, handlesVars, heapVars, spaceVars>>
    \/ focus = "heap" /\ HeapNext /\ UNCHANGED <<ringVars, handlesVars, pmmVars, spaceVars>>
    \/ focus = "space" /\ SpaceNext /\ UNCHANGED <<ringVars, handlesVars, pmmVars, heapVars>>

DriverNext ==
    \/ focus = "ahci" /\ AhciNext /\ UNCHANGED <<usbVars, netVars>>
    \/ focus = "hid" /\ HidNext /\ UNCHANGED <<deviceVars, ahciVars, storageVars, xhciVars, netVars>>
    \/ focus = "stick" /\ StorageNext /\ StickBound /\ UNCHANGED <<ahciVars, xhciVars, netVars>>
    \/ focus = "xhci" /\ XhciNext /\ UNCHANGED <<deviceVars, ahciVars, hidVars, storageVars, netVars>>
    \/ focus = "net" /\ NetNext /\ UNCHANGED <<deviceVars, ahciVars, usbVars>>

Next ==
    /\ UNCHANGED focus
    /\ \/ MemoryNext /\ UNCHANGED driverVars
       \/ DriverNext /\ UNCHANGED memoryVars

\* Which of the free frames an operation takes makes no difference but for its
\* number: states that differ in the numbers of frames only are one for TLC.
FramePlaces(f) ==
    {<<0>> : x \in {f} \cap available} \cup {<<1>> : x \in {f} \cap heap_frames}
    \cup UNION {{<<p, v>> : v \in {u \in DOMAIN pages[p] : pages[p][u] = f}} : p \in Owner}
    \cup UNION {{<<p, t[1], t[2]>> : t \in {u \in DOMAIN tables[p] : tables[p][u] = f}}
                 : p \in Owner}
    \cup UNION {{<<o, i, 0, 0>> : i \in {j \in DOMAIN objects[o].frames :
                                             objects[o].frames[j] = f}} : o \in DOMAIN objects}

\* Nobody reads an event that was taken, or a page when its transfer is over.
Events == <<event_ring.at, event_dequeue_count, WaitingEvents>>

LiveRing(r) == IF HasWork(r) THEN r ELSE <<r.index, r.cycle, r.at, r.expects>>

StickView ==
    <<[i \in DOMAIN WaitingEvents |-> IF WaitingEvents[i].endpoint \in HidEndpoint
                                        THEN WaitingEvents[i].endpoint ELSE WaitingEvents[i]],
      [e \in HidEndpoint |-> <<hid[e].outstanding, hid[e].frame, HasWork(hid[e].ring)>>],
      service, deviceVars,
      [msc EXCEPT !.in = LiveRing(@), !.out = LiveRing(@),
                  !.expected = IF msc.phase = "none" THEN 0 ELSE @,
                  !.full = msc.phase = "csw" /\ @],
      [bot_pages EXCEPT !.cbw = IF HasWork(msc.out) THEN @ ELSE NoWrapper,
                        !.data = IF msc.phase = "none" THEN NoData ELSE @,
                        !.csw = IF msc.phase = "csw" THEN @ ELSE NoStatus],
      [stick EXCEPT !.cbw = IF stick.phase = "cbw" THEN NoWrapper ELSE @]>>

View ==
    <<focus,
      CASE focus = "space" ->
              <<{FramePlaces(f) : f \in Frame}, Cardinality(available), Cardinality(heap_frames),
                [o \in DOMAIN objects |-> objects[o].refs],
                image, areas, views, handles, exiting, halted>>
        [] focus = "hid" -> <<Events, hidVars>>
        [] focus = "xhci" -> <<Events, xhciVars>>
        [] focus = "stick" -> StickView
        [] focus = "net" -> netVars
        [] focus = "ahci" -> <<deviceVars, ahciVars>>
        [] OTHER -> memoryVars>>

Spec == Init /\ [][Next]_<<focus, memoryVars, driverVars>>
=============================================================================
