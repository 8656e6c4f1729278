-------------------------------- MODULE Net --------------------------------
(***************************************************************************)
(* NET_PING (kernel/core/net.c, kernel/drivers/e1000.c): the driver of the    *)
(* network card, DHCP, ARP, DNS and ICMP echo inside one system call that      *)
(* polls the receive ring.  Frames that nobody waits for any more stay in the  *)
(* ring until the next call.  The network loses, repeats, delays and reorders. *)
(* A wait ends after a number of timer ticks; system calls run with interrupts *)
(* masked (SYSCALL_FMASK_VALUE), and the timer ticks by an interrupt.          *)
(***************************************************************************)
EXTENDS Naturals, Sequences, FiniteSets

CONSTANTS
    RxRing,             \* E1000_RING_SIZE
    ArpCache,           \* NET_ARP_CACHE
    PingCount,          \* BORING_NET_PING_COUNT
    DhcpServer,         \* the DHCP servers, and those of them
    Refusing,           \* that refuse a request, and those
    Poor,               \* whose leases name no gateway
    HostName,           \* names of hosts
    TicksInCall,        \* whether the tick count moves during a system call: FALSE
                        \* in this kernel; TRUE in the one that its documents describe
    CallMax             \* bound on the calls of a behaviour

ASSUME NetAssumption ==
    /\ RxRing \in Nat \ {0, 1} /\ ArpCache \in Nat \ {0} /\ PingCount \in Nat \ {0}
    /\ Refusing \cup Poor \subseteq DhcpServer /\ CallMax \in Nat /\ TicksInCall \in BOOLEAN

VARIABLES
    nic,                \* runtime, network_initialized, the card's side of the receive ring
    net_config,         \* config, or NoConfig
    arp,                \* arp_cache and arp_replace
    ping,               \* the call: where it waits, and its local variables
    sequences,          \* dhcp_sequence, dns_sequence
    passed,             \* the tick count has passed the end of the wait
    requests            \* the frames that reached the network

netVars == <<nic, net_config, arp, ping, sequences, passed, requests>>

\* Addresses: every server leases one to this machine and has a gateway in its
\* subnet, which is the DNS server as well; every host has one elsewhere.
NoAddress == <<"none", "none">>
Lease(s) == <<"lease", s>>
Gateway(s) == <<"gateway", s>>
HostAddress(h) == <<"host", h>>
ByName(h) == <<"name", h>>
PingTarget == {ByName(h) : h \in HostName} \cup {HostAddress(h) : h \in HostName}
              \cup {Gateway(s) : s \in DhcpServer}

NoConfig == [address |-> NoAddress, gateway |-> NoAddress, server |-> "none"]
NoFrame == [type |-> "none"]
NoPing == [step |-> "idle", target |-> NoAddress, address |-> NoAddress, index |-> 0,
           received |-> 0, result |-> "none", offer |-> "none", calls |-> 0]

NetInit ==
    /\ nic = [initialized |-> FALSE, network |-> FALSE, link |-> FALSE, dma |-> FALSE,
              mapped |-> FALSE, rx |-> [i \in 0..(RxRing - 1) |-> NoFrame], rx_next |-> 0,
              head |-> 0, tail |-> RxRing - 1]
    /\ net_config = NoConfig
    /\ arp = [cache |-> [i \in 0..(ArpCache - 1) |-> NoAddress], replace |-> 0]
    /\ ping = NoPing
    /\ sequences = [dhcp |-> 0, dns |-> 0]
    /\ passed = FALSE
    /\ requests = {}

----------------------------------------------------------------------------
(* Sending                                                                 *)

\* e1000_send of a frame: it goes out; or the card is too slow and it goes out
\* later, when the call has given up; or the card never takes it.  The next
\* frame may take its place in the buffer that all descriptors share: to the
\* others this is a frame lost and another one repeated.
Outcomes == {"sent", "late", "stuck"}

e1000_send(frame, outcome) ==
    requests' = IF outcome = "stuck" THEN requests ELSE requests \cup {frame}

PingReturnsWith(result) ==
    /\ ping' = [ping EXCEPT !.step = "idle", !.result = result]
    /\ UNCHANGED passed

\* A frame is sent and its answer waited for, or the call ends with an error.
\* net_clock_start reads the tick count.
SendAndWait(p, frame, outcome, error) ==
    /\ e1000_send(frame, outcome)
    /\ IF outcome = "sent" THEN ping' = p /\ passed' = FALSE
       ELSE ping' = [p EXCEPT !.step = "idle", !.result = error] /\ UNCHANGED passed

----------------------------------------------------------------------------
(* ARP                                                                     *)

Cached(cache, a) == \E i \in DOMAIN cache : cache[i] = a

arp_cache_put(a) ==
    IF Cached(arp.cache, a) THEN arp
    ELSE [cache |-> [arp.cache EXCEPT ![arp.replace] = a],
          replace |-> (arp.replace + 1) % ArpCache]

\* process_arp: the machine that answers us, or that asks for us.  It gets an
\* answer, which nobody answers again.
process_arp(frame) ==
    IF frame.type \in {"arp_reply", "arp_request"} /\ net_config # NoConfig
       /\ frame.target = net_config.address
      THEN arp_cache_put(frame.sender) ELSE arp

\* The next hop of resolve_mac: subnets hold a gateway each.
NextHop(config, a) == IF a = config.gateway THEN a ELSE config.gateway

----------------------------------------------------------------------------
(* The steps of a call                                                     *)

\* resolve_dns when the hardware address of the DNS server is known.  A name that
\* cannot be encoded ends like a frame that the card does not take.
DnsQuery(p, config, outcome) ==
    /\ sequences' = [sequences EXCEPT !.dns = @ + 1]
    /\ SendAndWait([p EXCEPT !.step = "dns"],
                   [type |-> "dns", id |-> sequences.dns + 1, host |-> p.target[2],
                    server |-> config.server, source |-> config.address], outcome, "dns_failed")

\* ping_once when the hardware address of the next hop is known.
EchoRequest(p, config, outcome) ==
    /\ SendAndWait([p EXCEPT !.step = "echo"],
                   [type |-> "echo", peer |-> p.address, seq |-> p.index,
                    source |-> config.address], outcome, "driver_error")
    /\ UNCHANGED sequences

\* Where resolve_mac leads, and the address that it is for.
Resolved(p, config, outcome) ==
    IF p.step = "arp_dns" THEN DnsQuery(p, config, outcome) ELSE EchoRequest(p, config, outcome)

Hop(p, config) ==
    NextHop(config, IF p.step = "arp_dns" THEN config.gateway ELSE p.address)

MacError(p) == IF p.step = "arp_dns" THEN "dns_failed" ELSE "driver_error"

\* resolve_mac: the next hop's hardware address is cached, or asked for.
resolve_mac(p, config, cache, outcome) ==
    IF Cached(cache, Hop(p, config)) THEN Resolved(p, config, outcome)
    ELSE /\ SendAndWait(p, [type |-> "arp", target |-> Hop(p, config), source |-> config.address],
                        outcome, MacError(p))
         /\ UNCHANGED sequences

\* The i-th echo to an address, and what follows the last one.
ping_once(p, config, cache, i, received, outcome) ==
    LET q == [p EXCEPT !.step = "arp_echo", !.index = i, !.received = received]
    IN  IF i <= PingCount THEN resolve_mac(q, config, cache, outcome)
        ELSE /\ ping' = [q EXCEPT !.step = "idle", !.result = "ok", !.index = PingCount]
             /\ UNCHANGED <<sequences, passed, requests>>

\* net_ping_host when the machine has an address: a name is resolved first.
Configured(p, config, cache, outcome) ==
    IF p.target[1] = "name" THEN resolve_mac([p EXCEPT !.step = "arp_dns"], config, cache, outcome)
    ELSE ping_once([p EXCEPT !.address = p.target], config, cache, 1, 0, outcome)

\* Mutant: every attempt has the same transaction.
SameTransaction(p, outcome) ==
    /\ UNCHANGED sequences
    /\ SendAndWait([p EXCEPT !.step = "offer"], [type |-> "discover", xid |-> sequences.dhcp],
                   outcome, "dhcp_failed")

\* configure_dhcp up to its first wait.
configure_dhcp(p, outcome) ==
    /\ sequences' = [sequences EXCEPT !.dhcp = @ + 1]
    /\ SendAndWait([p EXCEPT !.step = "offer"], [type |-> "discover", xid |-> sequences.dhcp + 1],
                   outcome, "dhcp_failed")

\* net_ping_host when the network is initialized.
Online(p, outcome) ==
    IF net_config # NoConfig THEN Configured(p, net_config, arp.cache, outcome)
    ELSE configure_dhcp(p, outcome)

\* find_device finds no card, or one that does not start, or one that does.
CardFound == {"none", "broken", "ready"}

setup_rings(card) ==
    [card EXCEPT !.rx = [i \in DOMAIN @ |-> NoFrame], !.rx_next = 0, !.head = 0,
                 !.tail = RxRing - 1, !.initialized = TRUE]

\* The end of e1000_init when it fails.
free_dma(card) == [card EXCEPT !.dma = FALSE, !.mapped = FALSE]

\* The registers are mapped; reset_controller and read_mac; allocate_dma.
CardStarted == [nic EXCEPT !.dma = TRUE, !.mapped = TRUE]

e1000_init(found) ==
    IF nic.initialized \/ found = "none" THEN nic
    ELSE IF found = "broken" THEN free_dma(CardStarted)
    ELSE setup_rings(CardStarted)

\* NET_PING.  initialize_network brings the card up and waits for a link, until
\* it has seen one once.
net_ping_host(target, found, outcome) ==
    LET p == [NoPing EXCEPT !.target = target, !.calls = ping.calls + 1, !.offer = ping.offer]
        card == IF nic.network THEN nic ELSE e1000_init(found)
    IN  /\ ping.step = "idle" /\ ping.calls < CallMax
        /\ nic' = [card EXCEPT !.network = card.initialized /\ (@ \/ card.link)]
        /\ CASE ~card.initialized ->
                  /\ ping' = [p EXCEPT !.result = IF found = "none" THEN "no_device" ELSE "driver_error"]
                  /\ UNCHANGED <<sequences, passed, requests>>
             [] card.initialized /\ ~nic'.network ->
                  /\ ping' = [p EXCEPT !.step = "link"]
                  /\ passed' = FALSE
                  /\ UNCHANGED <<sequences, requests>>
             [] OTHER -> Online(p, outcome)
        /\ UNCHANGED <<net_config, arp>>

\* initialize_network: the link is up.
LinkSeen(outcome) ==
    /\ ping.step = "link" /\ nic.link /\ ~passed
    /\ nic' = [nic EXCEPT !.network = TRUE]
    /\ Online(ping, outcome)
    /\ UNCHANGED <<net_config, arp>>

----------------------------------------------------------------------------
(* Receiving                                                               *)

Received == nic.rx[nic.rx_next]

\* poll_frame and e1000_receive take a frame and give its descriptor back; every
\* wait looks at the clock before it polls.
poll_frame ==
    /\ ~passed /\ Received # NoFrame
    /\ nic' = [nic EXCEPT !.rx[nic.rx_next] = NoFrame, !.tail = nic.rx_next,
                          !.rx_next = (@ + 1) % RxRing]
    /\ arp' = process_arp(Received)

\* Whatever is not the datagram that is waited for is passed over.
KeepsWaiting == UNCHANGED <<net_config, ping, sequences, passed, requests>>

\* wait_dhcp takes answers to this attempt.
IsDhcp(types) == Received.type \in types /\ Received.xid = sequences.dhcp

DhcpRefused ==
    /\ PingReturnsWith("dhcp_failed")
    /\ UNCHANGED <<net_config, sequences, requests>>

\* wait_dhcp for the offer: a request follows.
TakeOffer(outcome) ==
    /\ ping.step = "offer" /\ poll_frame
    /\ CASE IsDhcp({"nak"}) -> DhcpRefused
         [] IsDhcp({"offer"}) ->
              /\ SendAndWait([ping EXCEPT !.step = "ack", !.offer = Received.server],
                             [type |-> "request", xid |-> sequences.dhcp, server |-> Received.server],
                             outcome, "dhcp_failed")
              /\ UNCHANGED <<net_config, sequences>>
         [] OTHER -> KeepsWaiting

\* wait_dhcp for the acknowledgement, and the rest of configure_dhcp.
TakeAck(outcome) ==
    /\ ping.step = "ack" /\ poll_frame
    /\ CASE IsDhcp({"nak"}) -> DhcpRefused
         [] IsDhcp({"ack"}) /\ Received.server \in Poor -> DhcpRefused
         [] IsDhcp({"ack"}) /\ Received.server \notin Poor ->
              /\ net_config' = [address |-> Lease(Received.server), server |-> Received.server,
                                gateway |-> Gateway(Received.server)]
              /\ Configured(ping, net_config', arp.cache, outcome)
         [] OTHER -> KeepsWaiting

\* resolve_mac while it waits.
TakeArp(outcome) ==
    /\ ping.step \in {"arp_dns", "arp_echo"} /\ poll_frame
    /\ IF ~Cached(arp'.cache, Hop(ping, net_config)) THEN KeepsWaiting
       ELSE Resolved(ping, net_config, outcome) /\ UNCHANGED net_config

\* resolve_dns: the answer to the query, if it holds an address.
TakeAnswer(outcome) ==
    /\ ping.step = "dns" /\ poll_frame
    /\ IF Received.type = "dns_answer" /\ Received.id = sequences.dns
          /\ Received.server = net_config.server /\ Received.target = net_config.address
          /\ Received.address # NoAddress
         THEN /\ ping_once([ping EXCEPT !.address = Received.address], net_config, arp'.cache,
                           1, 0, outcome)
              /\ UNCHANGED net_config
         ELSE KeepsWaiting

\* ping_once: the reply.
TakeReply(outcome) ==
    /\ ping.step = "echo" /\ poll_frame
    /\ IF Received.type = "echo_reply" /\ Received.peer = ping.address
          /\ Received.seq = ping.index /\ Received.target = net_config.address
         THEN /\ ping_once(ping, net_config, arp'.cache, ping.index + 1, ping.received + 1, outcome)
              /\ UNCHANGED net_config
         ELSE KeepsWaiting

\* A wait whose time is over fails the call; an echo without a reply is followed
\* by the next one.
WaitOver(outcome) ==
    /\ ping.step # "idle" /\ passed
    /\ IF ping.step = "echo"
         THEN ping_once(ping, net_config, arp.cache, ping.index + 1, ping.received, outcome)
         ELSE /\ PingReturnsWith(CASE ping.step = "link" -> "link_down"
                                   [] ping.step \in {"offer", "ack"} -> "dhcp_failed"
                                   [] ping.step = "dns" -> "dns_failed"
                                   [] OTHER -> MacError(ping))
              /\ UNCHANGED <<sequences, requests>>
    /\ UNCHANGED <<nic, net_config, arp>>

\* The timer ticks by an interrupt, and the system call entry masks interrupts.
timer_handle_irq ==
    /\ ping.step = "idle" \/ TicksInCall
    /\ passed' = TRUE
    /\ UNCHANGED <<nic, net_config, arp, ping, sequences, requests>>

----------------------------------------------------------------------------
(* The network                                                             *)

\* What the others answer to a frame of ours.
Replies(r) ==
    CASE r.type = "discover" -> {[type |-> "offer", xid |-> r.xid, server |-> s] : s \in DhcpServer}
      [] r.type = "request" ->
            {[type |-> IF r.server \in Refusing THEN "nak" ELSE "ack", xid |-> r.xid,
              server |-> r.server]}
      [] r.type = "arp" -> {[type |-> "arp_reply", sender |-> r.target, target |-> r.source]}
      [] r.type = "dns" -> {[type |-> "dns_answer", id |-> r.id, server |-> r.server,
                             target |-> r.source, address |-> a]
                              : a \in {HostAddress(r.host), NoAddress}}
      [] OTHER -> {[type |-> "echo_reply", peer |-> r.peer, seq |-> r.seq, target |-> r.source]}

\* A machine that asks for ours.
Neighbour == [type |-> "arp_request", sender |-> <<"neighbour", "n">>, target |-> net_config.address]

\* A frame arrives, at any time and perhaps again.  The card drops it when it
\* owns no descriptor.
Arrives(frame) ==
    /\ nic.initialized /\ nic.link /\ nic.head # nic.tail
    /\ nic' = [nic EXCEPT !.rx[nic.head] = frame, !.head = (@ + 1) % RxRing]
    /\ UNCHANGED <<net_config, arp, ping, sequences, passed, requests>>

LinkChanges ==
    /\ nic' = [nic EXCEPT !.link = ~@]
    /\ UNCHANGED <<net_config, arp, ping, sequences, passed, requests>>

CallRuns ==
    \E outcome \in Outcomes :
       LinkSeen(outcome) \/ TakeOffer(outcome) \/ TakeAck(outcome) \/ TakeArp(outcome)
       \/ TakeAnswer(outcome) \/ TakeReply(outcome) \/ WaitOver(outcome)

NetNext ==
    \/ \E target \in PingTarget, found \in CardFound, outcome \in Outcomes :
          net_ping_host(target, found, outcome)
    \/ CallRuns
    \/ timer_handle_irq
    \/ \E r \in requests : \E frame \in Replies(r) : Arrives(frame)
    \/ Arrives(Neighbour)
    \/ LinkChanges

\* A call goes on as long as it can, and the timer ticks when it may.
NetFairness == WF_netVars(CallRuns) /\ WF_netVars(timer_handle_irq)

----------------------------------------------------------------------------
(* Properties                                                              *)

\* Whatever the network delivers late or twice, a call works with the answers
\* to its own questions: the lease is one of the server that the last attempt
\* asked for it; a name stands for the address of that name.  Driver and card
\* agree which descriptors hold frames; a next hop is cached once; a card that
\* is not ready owns nothing (net.c configure_dhcp, resolve_dns, arp_cache_put;
\* e1000.c e1000_receive, e1000_init).
AnswersTrue ==
    /\ net_config # NoConfig => net_config.server = ping.offer
    /\ ping.step \in {"arp_echo", "echo"} /\ ping.target[1] = "name" =>
          ping.address = HostAddress(ping.target[2])
    /\ \A i \in DOMAIN nic.rx :
          nic.rx[i] # NoFrame <=>
             (i + RxRing - nic.rx_next) % RxRing < (nic.head + RxRing - nic.rx_next) % RxRing
    /\ \A i, j \in DOMAIN arp.cache :
          arp.cache[i] = arp.cache[j] => i = j \/ arp.cache[i] = NoAddress
    /\ nic.initialized = nic.dma /\ nic.initialized = nic.mapped

\* NET_PING is bounded: "M69 latches and reads PIT channel 0 directly for bounded
\* polling timeouts" (docs/m69-networking.md).
PingReturns == ping.step # "idle" ~> ping.step = "idle"
=============================================================================
