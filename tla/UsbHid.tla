------------------------------- MODULE UsbHid -------------------------------
(***************************************************************************)
(* Keyboard and mouse on USB (kernel/core/usb_hid.c, usb_hid_impl.inc).  An     *)
(* endpoint has at most one transfer out.  Its completion comes through the    *)
(* event ring, is taken by the service that EVENT_WAIT polls, decoded, told to *)
(* the input stream, and the endpoint is armed again.  Nothing interrupts the  *)
(* service but the devices, which work at any time.                          *)
(***************************************************************************)
EXTENDS Trbs, FiniteSets, SequencesExt

CONSTANTS
    UsbKey, UsbModifier,        \* the keys of the keyboard, and which are modifiers
    UsbButton,                  \* the buttons of the mouse
    InterruptRingUsable,        \* XHCI_INTERRUPT_RING_USABLE
    BadReports                  \* whether the keyboard may report an error, as it does
                                \* when too many keys are down

ASSUME UsbHidAssumption ==
    /\ IsFiniteSet(UsbKey) /\ UsbModifier \subseteq UsbKey
    /\ IsFiniteSet(UsbButton) /\ UsbKey \cap UsbButton = {}
    /\ InterruptRingUsable \in Nat \ {0, 1} /\ BadReports \in BOOLEAN

VARIABLES
    hid,            \* hid_runtime of each endpoint and its ring
    service,        \* "idle", or "poll" inside xhci_service_hid_reports
    told,           \* what the input stream was told (history)
    delivered       \* what each device reported last (history)

hidVars == <<hid, service, told, delivered>>

HidEndpoint == {"keyboard", "mouse"}
Codes(e) == IF e = "keyboard" THEN UsbKey ELSE UsbButton

\* A report; a zeroed buffer reads as Blank.
Blank == [valid |-> TRUE, down |-> {}]

HidInit ==
    /\ hid = [e \in HidEndpoint |->
                 [outstanding |-> FALSE, expected |-> 0, frame |-> FALSE, buffer |-> Blank,
                  down |-> {}, ring |-> NewRing(InterruptRingUsable)]]
    /\ service = "idle"
    /\ told = [down |-> {}, true |-> TRUE]
    /\ delivered = [e \in HidEndpoint |-> {}]

----------------------------------------------------------------------------
(* Arming                                                                  *)

\* The buffer is wiped and handed to the controller.
m52_submit_endpoint(h, e) ==
    IF h[e].outstanding THEN h
    ELSE [h EXCEPT ![e].frame = TRUE,
                   ![e].buffer = Blank,
                   ![e].ring = Submitted(@, [page |-> e]),
                   ![e].expected = h[e].ring.index,
                   ![e].outstanding = TRUE]

\* Every endpoint without a transfer, up to the first that gets no frame.
m60_rearm_hid_endpoints(h, without) ==
    CASE without = "keyboard" -> h
      [] without = "mouse" -> m52_submit_endpoint(h, "keyboard")
      [] OTHER -> m52_submit_endpoint(m52_submit_endpoint(h, "keyboard"), "mouse")

\* The endpoints that need a frame and may not get one, or none of them.
OutOfFrames == {e \in HidEndpoint : ~hid[e].frame} \cup {"none"}

----------------------------------------------------------------------------
(* Decoding                                                                *)

\* The codes go down, or up, one after the other.
Part(codes, down) == [i \in 1..Cardinality(codes) |-> [code |-> SetToSeq(codes)[i], down |-> down]]

\* What is told of a keyboard's report, in this order: the keys that went up,
\* the modifiers that went up, those that went down, the keys that went down.
KeyTransitions(before, report) ==
    Part((before \ report.down) \ UsbModifier, FALSE)
    \o Part((before \ report.down) \cap UsbModifier, FALSE)
    \o Part((report.down \ before) \cap UsbModifier, TRUE)
    \o Part((report.down \ before) \ UsbModifier, TRUE)

\* Of a mouse's report: every button that changed.
ButtonTransitions(before, report) ==
    LET codes == SetToSeq((before \ report.down) \cup (report.down \ before))
    IN  [i \in 1..Len(codes) |-> [code |-> codes[i], down |-> codes[i] \in report.down]]

\* The stream hears a transition.  It is true when the key or button was the
\* other way before, and a key goes down under the modifiers of its report.
Hears(report, t, x) ==
    [down |-> IF x.down THEN t.down \cup {x.code} ELSE t.down \ {x.code},
     true |-> /\ t.true
              /\ x.down <=> x.code \notin t.down
              /\ x.down /\ x.code \in UsbKey \ UsbModifier =>
                   t.down \cap UsbModifier = report.down \cap UsbModifier]

\* The stream hears transitions, one after the other.
HearsAll(report, t, xs) ==
    LET heard[i \in 0..Len(xs)] == IF i = 0 THEN t ELSE Hears(report, heard[i - 1], xs[i])
    IN  heard[Len(xs)]

\* m52_decode_report of a report that is in order.
m52_decode_report(e, t) ==
    LET report == hid[e].buffer
    IN  HearsAll(report, t, IF e = "keyboard" THEN KeyTransitions(hid[e].down, report)
                            ELSE ButtonTransitions(hid[e].down, report))

----------------------------------------------------------------------------
(* The service                                                             *)

\* xhci_validate_interrupt_transfer_event: the event is of the transfer that
\* the endpoint waits for.
IsExpected(event, e) ==
    /\ event.type = "transfer" /\ event.endpoint = e
    /\ hid[e].outstanding /\ event.trb = hid[e].expected
    /\ event.ok

\* m52_complete_event: the report of endpoint e is decoded and told, and the
\* event leaves the ring; then the endpoints are armed again.
ConsumeHid(e, without) ==
    /\ hid[e].buffer.valid
    /\ told' = m52_decode_report(e, told)
    /\ hid' = m60_rearm_hid_endpoints(
                 [hid EXCEPT ![e].outstanding = FALSE, ![e].down = hid[e].buffer.down], without)
    /\ xhci_event_dequeue_advance

\* xhci_service_hid_reports up to its polling.
ServiceStart(without) ==
    /\ service = "idle"
    /\ hid' = m60_rearm_hid_endpoints(hid, without)
    /\ service' = IF without = "none" THEN "poll" ELSE "idle"
    /\ UNCHANGED <<told, delivered, eventVars>>

\* The polling: it gives up when there is no event, passes over a change of a
\* port, and ends with the first report.  Whatever else is at the head of the
\* ring, a report that does not decode included, stays there.
ServiceTake(without) ==
    /\ service = "poll"
    /\ \/ /\ ~EventReady
          /\ service' = "idle"
          /\ UNCHANGED <<hid, told, event_dequeue_count>>
       \/ /\ EventReady /\ Event.type = "port"
          /\ xhci_event_dequeue_advance
          /\ UNCHANGED <<hid, service, told>>
       \/ /\ EventReady
          /\ \E e \in HidEndpoint : IsExpected(Event, e) /\ ConsumeHid(e, without)
          /\ service' = "idle"
    /\ UNCHANGED <<delivered, event_ring>>

\* The event at the head is none that the service can use.
ServiceRefuses ==
    /\ service = "poll" /\ EventReady /\ Event.type # "port"
    /\ ~ \E e \in HidEndpoint : IsExpected(Event, e) /\ hid[e].buffer.valid
    /\ service' = "idle"
    /\ UNCHANGED <<hid, told, delivered, eventVars>>

----------------------------------------------------------------------------
(* The devices                                                             *)

Reports(e) ==
    [valid : {TRUE}, down : SUBSET Codes(e)]
    \cup IF BadReports /\ e = "keyboard" THEN {[valid |-> FALSE, down |-> {}]} ELSE {}

\* A device has something to report and the controller has a transfer for it.
DeviceReports(e, report) ==
    /\ HasWork(hid[e].ring)
    /\ PostEvent([type |-> "transfer", endpoint |-> e, trb |-> CurrentTrb(hid[e].ring), ok |-> TRUE])
    /\ hid' = [hid EXCEPT ![e].buffer = report, ![e].ring = WorkDone(@)]
    /\ delivered' = [delivered EXCEPT ![e] = report.down]
    /\ UNCHANGED <<service, told>>

PortChanges ==
    /\ PostEvent([type |-> "port"])
    /\ UNCHANGED hidVars

HidService ==
    \/ \E without \in OutOfFrames : ServiceStart(without)
    \/ ServiceTake("none")
    \/ ServiceRefuses

HidDevices ==
    \/ \E e \in HidEndpoint : \E report \in Reports(e) : DeviceReports(e, report)
    \/ PortChanges

HidNext == HidService \/ HidDevices

HidFairness == WF_<<hidVars, eventVars>>(ServiceStart("none") \/ ServiceTake("none"))

HidSpec == EventInit /\ HidInit /\ [][HidNext]_<<hidVars, eventVars>>

----------------------------------------------------------------------------
(* Properties                                                              *)

\* The places of the events of e that wait to be taken.
EventsOf(e) ==
    {i \in DOMAIN WaitingEvents : WaitingEvents[i].type = "transfer" /\ WaitingEvents[i].endpoint = e}

\* No key is lost, stuck or told twice: the stream hears of each transition
\* once, a key under the modifiers that were reported with it; what it was told
\* is what the driver keeps, and what the device reported last once its event is
\* taken.  An endpoint that waits has exactly one transfer, with the controller
\* or completed, however often both rings have gone round.
ReportsTrue ==
    /\ told.true
    /\ \A e \in HidEndpoint :
          /\ hid[e].down = told.down \cap Codes(e)
          /\ EventsOf(e) = {} => hid[e].down = delivered[e]
          /\ Cardinality(EventsOf(e)) + (IF HasWork(hid[e].ring) THEN 1 ELSE 0)
               = IF hid[e].outstanding THEN 1 ELSE 0

\* "Completed endpoints are then re-armed": an endpoint whose transfer has
\* completed gets another one.
Rearmed ==
    \A e \in HidEndpoint :
        EventsOf(e) # {} ~> hid[e].outstanding /\ HasWork(hid[e].ring)
=============================================================================
