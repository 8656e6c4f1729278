-------------------------------- MODULE Trbs --------------------------------
(***************************************************************************)
(* The rings that the xHCI driver and the controller share: rings of work    *)
(* with a link at the end, and the one event ring.  Who owns an entry is told *)
(* by its cycle bit, whose meaning changes with every lap                     *)
(* (kernel/core/xhci.c, kernel/arch/x86_64/xhci.c, usb_hid_impl.inc,           *)
(* usb_mass_storage_impl.inc).                                              *)
(***************************************************************************)
EXTENDS Naturals, Sequences

CONSTANT EventRingTrbs      \* XHCI_EVENT_RING_TRBS

ASSUME TrbsAssumption == EventRingTrbs \in Nat \ {0, 1}

VARIABLES
    event_ring,             \* the entries, and where the controller puts the next one
    event_dequeue_count     \* modulo two laps, which is all that is used of it

eventVars == <<event_ring, event_dequeue_count>>

EventInit ==
    /\ event_ring = [slots |-> [i \in 0..(EventRingTrbs - 1) |->
                                    [cycle |-> FALSE, event |-> [type |-> "none"]]],
                     at |-> 0, cycle |-> TRUE]
    /\ event_dequeue_count = 0

----------------------------------------------------------------------------
(* Rings of work                                                           *)

\* A ring of usable entries and a link behind them.  index and cycle are the
\* driver's, at and expects the controller's.
NewRing(usable) ==
    [trbs |-> [i \in 0..(usable - 1) |-> [cycle |-> FALSE, work |-> [page |-> "none"]]],
     usable |-> usable, link |-> TRUE, index |-> 0, cycle |-> TRUE, at |-> 0, expects |-> TRUE]

\* Mutant: the driver does not change its cycle at the end of a lap.
SubmittedSameCycle(r, work) ==
    LET last == r.index = r.usable - 1
    IN  [r EXCEPT !.trbs[r.index] = [cycle |-> r.cycle, work |-> work],
                  !.link = IF last THEN r.cycle ELSE @,
                  !.index = IF last THEN 0 ELSE @ + 1]

\* The driver fills an entry; with the last one it hands over the link, too.
Submitted(r, work) ==
    LET last == r.index = r.usable - 1
    IN  [r EXCEPT !.trbs[r.index] = [cycle |-> r.cycle, work |-> work],
                  !.link = IF last THEN r.cycle ELSE @,
                  !.index = IF last THEN 0 ELSE @ + 1,
                  !.cycle = IF last THEN ~@ ELSE @]

\* The controller follows the link when it owns it.
Linked(r) ==
    IF r.at = r.usable /\ r.link = r.expects
      THEN [r EXCEPT !.at = 0, !.expects = ~@] ELSE r

\* What the controller finds: an entry it owns, that entry's number and work,
\* and the ring when it is done with it.
HasWork(r) == LET l == Linked(r) IN l.at < l.usable /\ l.trbs[l.at].cycle = l.expects
CurrentTrb(r) == Linked(r).at
CurrentWork(r) == Linked(r).trbs[CurrentTrb(r)].work
WorkDone(r) == [Linked(r) EXCEPT !.at = @ + 1]

----------------------------------------------------------------------------
(* The event ring                                                          *)

EventIndex == event_dequeue_count % EventRingTrbs
EventCycle == event_dequeue_count \div EventRingTrbs = 0

EventReady == event_ring.slots[EventIndex].cycle = EventCycle
Event == event_ring.slots[EventIndex].event

xhci_event_dequeue_advance ==
    event_dequeue_count' = (event_dequeue_count + 1) % (2 * EventRingTrbs)

\* The controller leaves one entry free, so that a full ring is not an empty one.
CanPost == (event_ring.at + 1) % EventRingTrbs # EventIndex

PostEvent(e) ==
    LET last == event_ring.at = EventRingTrbs - 1
    IN  /\ CanPost
        /\ event_ring' = [slots |-> [event_ring.slots EXCEPT ![event_ring.at] =
                                        [cycle |-> event_ring.cycle, event |-> e]],
                          at |-> IF last THEN 0 ELSE event_ring.at + 1,
                          cycle |-> event_ring.cycle # last]
        /\ UNCHANGED event_dequeue_count

\* The events that have not been taken yet.
WaitingEvents ==
    LET pending == (event_ring.at + EventRingTrbs - EventIndex) % EventRingTrbs
    IN  [i \in 1..pending |-> event_ring.slots[(EventIndex + i - 1) % EventRingTrbs].event]
=============================================================================
