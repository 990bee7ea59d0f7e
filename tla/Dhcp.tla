-------------------------------- MODULE Dhcp --------------------------------
(***************************************************************************)
(* The DHCP client of lwIP, core/ipv4/dhcp.c: its state machine between    *)
(* the fine timer (retransmissions), the coarse timer (lease times), the   *)
(* replies of a server over a network that loses, repeats, delays and      *)
(* reorders them, ARP answers, link changes, and memory that may lack for  *)
(* every message.  The client is one record c; the functions below map     *)
(* records to records the way the C functions change struct dhcp.          *)
(***************************************************************************)
EXTENDS Integers, FiniteSets

CONSTANTS
  OfferedAddrs, ANY,         \* addresses a server gives; none (0.0.0.0)
  Leases,                    \* lease times of an ACK, in coarse ticks: [t0, t1, t2], 0 for infinite
  REQUEST_TRIES,             \* dhcp_timeout gives up REQUESTING after so many tries (5)
  REBOOT_TRIES,              \* and REBOOTING after so many (2)
  MAX_TRIES,                 \* tries is an 8-bit counter that stops at its limit (255)
  XidWrap,                   \* the transaction number is a u32_t
  MaxRequests, MaxReplies    \* bounds: messages on the network in either direction

ASSUME DhcpAssumption ==
  /\ IsFiniteSet(OfferedAddrs) /\ ANY \notin OfferedAddrs
  /\ Leases \subseteq [t0 : Nat, t1 : Nat, t2 : Nat]
  /\ REBOOT_TRIES \in Nat /\ REQUEST_TRIES \in Nat
  /\ MAX_TRIES \in Nat /\ MAX_TRIES > 1 /\ MAX_TRIES > REQUEST_TRIES /\ MAX_TRIES > REBOOT_TRIES
  /\ XidWrap \in Nat /\ XidWrap > 1 /\ MaxRequests \in Nat \ {0} /\ MaxReplies \in Nat \ {0}

VARIABLES
  dhcp,                      \* struct dhcp, the static xid and the interface's address
  toServer, toClient,        \* messages on the network
  leaseLeft,                 \* ticks until the lease of the last bind ends, -1 for never
  granted,                   \* addresses acknowledged in the exchange of the client
  starved,                   \* an exchange was begun without memory for its message
  badOffer                   \* an offer without a server identifier was received

dhcpVars == <<dhcp, toServer, toClient, leaseLeft, granted, starved, badOffer>>

DhcpAddrs == OfferedAddrs \cup {ANY}
DhcpStates == {"OFF", "SELECTING", "REQUESTING", "CHECKING", "BOUND", "RENEWING", "REBINDING",
               "REBOOTING", "BACKING_OFF"}
NoLease == [t0 |-> 0, t1 |-> 0, t2 |-> 0]

\* The structure after memset; with it in the record are the static xid (gxid), the address of the
\* interface and what is being sent (out).
Cleared(gxid, ip) ==
  [state |-> "OFF", tries |-> 0, armed |-> FALSE, pcb |-> FALSE, xid |-> 0, offered |-> ANY,
   lease |-> NoLease, t0_timeout |-> 0, t2_timeout |-> 0, lease_used |-> 0,
   t1_renew_time |-> 0, t2_rebind_time |-> 0, gxid |-> gxid, ip |-> ip, out |-> {}]

DhcpInit ==
  /\ dhcp = Cleared(0, ANY)
  /\ toServer = {} /\ toClient = {}
  /\ leaseLeft = 0 /\ granted = {} /\ starved = FALSE /\ badOffer = FALSE

----------------------------------------------------------------------------
(* Sending *)

dhcp_set_state(c, s) ==
  IF c.state = s THEN c ELSE [c EXCEPT !.state = s, !.tries = 0, !.armed = FALSE]

\* Retransmissions keep the number of the exchange, and requests that of the offer.
NewXid(c, type) == type # "REQUEST" /\ c.tries = 0

\* dhcp_create_msg and udp_sendto: nothing is sent, and no new number taken, without memory.
Send(c, type, addr, mem) ==
  LET g == IF NewXid(c, type) THEN (c.gxid + 1) % XidWrap ELSE c.gxid
      x == IF type = "REQUEST" THEN c.xid ELSE g
  IN IF ~mem THEN c
     ELSE [c EXCEPT !.gxid = g, !.xid = x, !.out = @ \cup {[type |-> type, xid |-> x, addr |-> addr]}]

\* The end of every sending function: one try more, and the timer for the next.
SendAndWait(c, type, addr, mem) ==
  LET s == Send(c, type, addr, mem)
  IN [s EXCEPT !.tries = IF @ < MAX_TRIES THEN @ + 1 ELSE @, !.armed = TRUE]

dhcp_discover(c, mem) ==
  SendAndWait(dhcp_set_state([c EXCEPT !.offered = ANY], "SELECTING"), "DISCOVER", ANY, mem)
dhcp_select(c, mem) == SendAndWait(dhcp_set_state(c, "REQUESTING"), "REQUEST", c.offered, mem)
dhcp_renew(c, mem) == SendAndWait(dhcp_set_state(c, "RENEWING"), "REQUEST", c.ip, mem)
dhcp_rebind(c, mem) == SendAndWait(dhcp_set_state(c, "REBINDING"), "REQUEST", c.ip, mem)
dhcp_reboot(c, mem) == SendAndWait(dhcp_set_state(c, "REBOOTING"), "REQUEST", c.offered, mem)
dhcp_decline(c, mem) == SendAndWait(dhcp_set_state(c, "BACKING_OFF"), "DECLINE", c.offered, mem)

\* An ARP request is no DHCP message, but counts and waits like one.
dhcp_check(c) ==
  LET s == dhcp_set_state(c, "CHECKING")
  IN [s EXCEPT !.tries = IF @ < MAX_TRIES THEN @ + 1 ELSE @, !.armed = TRUE]

----------------------------------------------------------------------------
(* Taking and giving back an address *)

\* Seeded fault: the end of the lease is not set.
Bound_NoEnd(c) ==
  [c EXCEPT !.lease_used = 0, !.t1_renew_time = IF c.lease.t1 = 0 THEN @ ELSE c.lease.t1,
            !.t2_rebind_time = IF c.lease.t2 = 0 THEN @ ELSE c.lease.t2,
            !.t2_timeout = IF c.lease.t2 = 0 THEN @ ELSE c.lease.t2]

\* The counters of dhcp_bind.  A time that is infinite leaves its counter as it is.
Bound(c) ==
  [c EXCEPT !.lease_used = 0,
            !.t0_timeout = IF c.lease.t0 = 0 THEN @ ELSE c.lease.t0,
            !.t1_renew_time = IF c.lease.t1 = 0 THEN @ ELSE c.lease.t1,
            !.t2_rebind_time = IF c.lease.t2 = 0 THEN @ ELSE c.lease.t2,
            !.t2_timeout = IF c.lease.t2 = 0 THEN @ ELSE c.lease.t2]

dhcp_bind(c) == dhcp_set_state([Bound(c) EXCEPT !.ip = c.offered], "BOUND")

dhcp_supplied_address(c) == c.state \in {"BOUND", "RENEWING"}

dhcp_release(c, mem) ==
  LET off == dhcp_set_state(c, "OFF")
      r == [off EXCEPT !.offered = ANY, !.lease = NoLease, !.t0_timeout = 0, !.lease_used = 0,
                       !.t1_renew_time = 0, !.t2_rebind_time = 0]
  IN IF dhcp_supplied_address(c) THEN [Send(r, "RELEASE", c.ip, mem) EXCEPT !.ip = ANY] ELSE r

dhcp_stop(c) == [dhcp_set_state(c, "OFF") EXCEPT !.pcb = FALSE]

dhcp_handle_ack(c, m) == [c EXCEPT !.lease = m.lease, !.offered = m.addr]
dhcp_handle_nak(c, mem) ==
  dhcp_discover([dhcp_set_state(c, "BACKING_OFF") EXCEPT !.ip = ANY], mem)

----------------------------------------------------------------------------
(* What can happen *)

\* The client becomes c.  A server answers only some of the messages; others may be lost.  No message
\* lives until its number is used again.
Answered == {"DISCOVER", "REQUEST"}
ClientBecomes(c) ==
  /\ dhcp' = [c EXCEPT !.out = {}]
  /\ \E kept \in SUBSET toServer :
       toServer' = kept \cup {m \in c.out : m.type \in Answered}
  /\ Cardinality(toServer') <= MaxRequests
  /\ c.gxid # dhcp.gxid => \A m \in toServer \cup toClient : m.xid # c.gxid

\* A new exchange begins with the first try of SELECTING.
FirstTry(c) == c.state = "SELECTING" /\ c.tries = 1
Begins(c) == FirstTry(c) /\ (~FirstTry(dhcp) \/ c.gxid # dhcp.gxid)
Exchange(c) ==
  /\ granted' = IF Begins(c) THEN {} ELSE granted
  /\ starved' = (starved \/ (Begins(c) /\ \A m \in c.out : m.type # "DISCOVER"))

\* The steps of the client that neither receive nor let time pass.
ClientStep(c) ==
  /\ ClientBecomes(c) /\ Exchange(c) /\ UNCHANGED <<toClient, leaseLeft, badOffer>>

\* dhcp_start, where the pcb and the message may lack memory.
dhcp_start(pcb, mem) ==
  LET fresh == Cleared(dhcp.gxid, dhcp.ip)
      found == dhcp_discover([fresh EXCEPT !.pcb = TRUE], mem)
  IN /\ ClientStep(IF ~pcb THEN fresh ELSE IF mem THEN found ELSE dhcp_stop(found))

ReleaseCalled(mem) == dhcp.state # "OFF" /\ ClientStep(dhcp_release(dhcp, mem))
StopCalled == dhcp.state # "OFF" /\ ClientStep(dhcp_stop(dhcp))

dhcp_network_changed(mem) ==
  LET again == [dhcp EXCEPT !.tries = 0]
  IN /\ dhcp.state # "OFF"
     /\ ClientStep(IF dhcp.state \in {"REBINDING", "RENEWING", "BOUND", "REBOOTING"}
                     THEN dhcp_reboot(again, mem) ELSE dhcp_discover(again, mem))

\* dhcp_arp_reply: another host has the address that is being checked.
dhcp_arp_reply(mem) == dhcp.state = "CHECKING" /\ ClientStep(dhcp_decline(dhcp, mem))

\* dhcp_timeout, when the fine timer has counted request_timeout down to zero.
dhcp_timeout(c, mem, mem2) ==
  CASE c.state \in {"BACKING_OFF", "SELECTING"} -> dhcp_discover(c, mem)
    [] c.state = "REQUESTING" /\ c.tries <= REQUEST_TRIES -> dhcp_select(c, mem)
    [] c.state = "REQUESTING" /\ c.tries > REQUEST_TRIES -> dhcp_discover(dhcp_release(c, mem), mem2)
    [] c.state = "CHECKING" /\ c.tries <= 1 -> dhcp_check(c)
    [] c.state = "CHECKING" /\ c.tries > 1 -> dhcp_bind(c)
    [] c.state = "REBOOTING" /\ c.tries < REBOOT_TRIES -> dhcp_reboot(c, mem)
    [] c.state = "REBOOTING" /\ c.tries >= REBOOT_TRIES -> dhcp_discover(c, mem)
    [] OTHER -> c

\* Once bound, the lease runs from here.
LeaseFrom(c) ==
  leaseLeft' = IF c.state # "BOUND" THEN leaseLeft ELSE IF c.lease.t0 = 0 THEN -1 ELSE c.lease.t0

dhcp_fine_tmr(mem, mem2) ==
  LET c == dhcp_timeout([dhcp EXCEPT !.armed = FALSE], mem, mem2)
  IN /\ dhcp.armed
     /\ ClientBecomes(c) /\ Exchange(c) /\ LeaseFrom(c) /\ UNCHANGED <<toClient, badOffer>>

\* The second half of the time left, when that is a tick at least.
Halved(end, used, old) == IF (end - used) \div 2 >= 1 THEN (end - used) \div 2 ELSE old

dhcp_t1_timeout(c, mem) ==
  LET r == dhcp_renew(c, mem)
  IN IF c.state \in {"REQUESTING", "BOUND", "RENEWING"}
       THEN [r EXCEPT !.t1_renew_time = Halved(c.t2_timeout, c.lease_used, @)] ELSE c
dhcp_t2_timeout(c, mem) ==
  LET r == dhcp_rebind(c, mem)
  IN IF c.state \in {"REQUESTING", "BOUND", "RENEWING", "REBINDING"}
       THEN [r EXCEPT !.t2_rebind_time = Halved(c.t0_timeout, c.lease_used, @)] ELSE c

\* One counter after the other: the end of the lease, then rebinding, then renewing.
Coarse(c, mem, mem2) ==
  LET u == IF c.t0_timeout # 0 THEN [c EXCEPT !.lease_used = @ + 1] ELSE c
      v == [u EXCEPT !.t2_rebind_time = IF @ = 0 THEN 0 ELSE @ - 1]
      w == [v EXCEPT !.t1_renew_time = IF @ = 0 THEN 0 ELSE @ - 1]
  IN CASE c.state = "OFF" -> c
       [] c.state # "OFF" /\ c.t0_timeout # 0 /\ u.lease_used = c.t0_timeout ->
            dhcp_discover(dhcp_release(u, mem), mem2)
       [] c.state # "OFF" /\ ~(c.t0_timeout # 0 /\ u.lease_used = c.t0_timeout) ->
            IF c.t2_rebind_time = 1 THEN dhcp_t2_timeout(v, mem)
            ELSE IF c.t1_renew_time = 1 THEN dhcp_t1_timeout(w, mem) ELSE w

\* dhcp_coarse_tmr, every minute: no message is on its way for so long.
dhcp_coarse_tmr(mem, mem2) ==
  LET c == Coarse(dhcp, mem, mem2)
  IN /\ dhcp' = [c EXCEPT !.out = {}]
     /\ toServer' = {m \in c.out : m.type \in Answered} /\ toClient' = {}
     /\ Exchange(c)
     /\ leaseLeft' = IF leaseLeft > 0 THEN leaseLeft - 1 ELSE leaseLeft
     /\ UNCHANGED badOffer

\* dhcp_recv: a message of another exchange, or of a kind the state does not expect, is dropped.
Accepts(m) == dhcp.pcb /\ m.xid = dhcp.xid

Handled(c, m, mem) ==
  CASE m.type = "ACK" /\ c.state = "REQUESTING" -> dhcp_check(dhcp_handle_ack(c, m))
    [] m.type = "ACK" /\ c.state \in {"REBOOTING", "REBINDING", "RENEWING"} ->
         dhcp_bind(dhcp_handle_ack(c, m))
    [] m.type = "NAK" /\ c.state \in {"REBOOTING", "REQUESTING", "REBINDING", "RENEWING"} ->
         dhcp_handle_nak(c, mem)
    [] m.type = "OFFER" /\ c.state = "SELECTING" ->
         LET o == [c EXCEPT !.armed = FALSE]
         IN IF m.server THEN dhcp_select([o EXCEPT !.offered = m.addr], mem) ELSE o
    [] OTHER -> c

dhcp_recv(m, mem) ==
  LET c == Handled(dhcp, m, mem)
  IN /\ Accepts(m) /\ c # dhcp
     /\ ClientBecomes(c) /\ Exchange(c)
     /\ IF m.type = "ACK" THEN LeaseFrom(c) ELSE UNCHANGED leaseLeft
     /\ badOffer' = (badOffer \/ (m.type = "OFFER" /\ ~m.server))
     /\ UNCHANGED toClient

\* A server answers a request that reached it; the answer stays on the network, where it may be
\* lost, delayed, overtaken or delivered again.
Reply(type, m, addr, lease, server) ==
  /\ toClient' = toClient \cup {[type |-> type, xid |-> m.xid, addr |-> addr, lease |-> lease, server |-> server]}
  /\ Cardinality(toClient') <= MaxReplies
  /\ granted' = IF type = "ACK" /\ m.xid = dhcp.xid THEN granted \cup {addr} ELSE granted
  /\ UNCHANGED <<dhcp, toServer, leaseLeft, starved, badOffer>>

ServerOffers(m, a, server) == m.type = "DISCOVER" /\ Reply("OFFER", m, a, NoLease, server)
ServerAcks(m, l) == m.type = "REQUEST" /\ m.addr # ANY /\ Reply("ACK", m, m.addr, l, TRUE)
ServerNaks(m) == m.type = "REQUEST" /\ Reply("NAK", m, ANY, NoLease, TRUE)

DhcpNext ==
  \/ \E pcb, mem \in BOOLEAN : dhcp_start(pcb, mem)
  \/ \E mem \in BOOLEAN : ReleaseCalled(mem)
  \/ StopCalled
  \/ \E mem \in BOOLEAN : dhcp_network_changed(mem)
  \/ \E mem \in BOOLEAN : dhcp_arp_reply(mem)
  \/ \E mem, mem2 \in BOOLEAN : dhcp_fine_tmr(mem, mem2)
  \/ \E mem, mem2 \in BOOLEAN : dhcp_coarse_tmr(mem, mem2)
  \/ \E m \in toClient, mem \in BOOLEAN : dhcp_recv(m, mem)
  \/ \E m \in toServer, a \in OfferedAddrs, server \in BOOLEAN : ServerOffers(m, a, server)
  \/ \E m \in toServer, l \in Leases : ServerAcks(m, l)
  \/ \E m \in toServer : ServerNaks(m)

DhcpSpec == DhcpInit /\ [][DhcpNext]_dhcpVars

----------------------------------------------------------------------------
(* Properties *)

\* Types: the counters of the lease stay below its times and the tries below their limit.
DhcpTypeOK ==
  /\ dhcp.state \in DhcpStates /\ dhcp.tries \in 0..MAX_TRIES
  /\ dhcp.armed \in BOOLEAN /\ dhcp.pcb \in BOOLEAN
  /\ dhcp.xid \in 0..(XidWrap - 1) /\ dhcp.gxid \in 0..(XidWrap - 1)
  /\ dhcp.offered \in DhcpAddrs /\ dhcp.ip \in DhcpAddrs
  /\ dhcp.lease_used \in 0..dhcp.t0_timeout
  /\ \A m \in toServer : m.type \in Answered

\* The client never stops half way: while it waits for an answer or for its back-off to pass, the
\* timer of dhcp_fine_tmr runs, whatever memory lacked and whatever arrived when; only an offer
\* without a server identifier, for which dhcp_recv stops the timer, leaves it waiting.
NeverStuck ==
  dhcp.state \in {"SELECTING", "REQUESTING", "CHECKING", "REBOOTING", "BACKING_OFF"}
    => dhcp.armed \/ badOffer

\* The client counts itself the holder of an address only while the lease of the last
\* acknowledgement lasts, through renewing, rebinding, link changes and lost answers.
LeaseHonoured ==
  dhcp.state \in {"BOUND", "RENEWING", "REBINDING", "REBOOTING"} /\ dhcp.ip # ANY => leaseLeft # 0

\* A client takes an address only when a server acknowledged it in this exchange: a late or repeated
\* acknowledgement of an earlier exchange does not count, unless memory lacked when the exchange
\* began (dhcp_create_msg then takes no new number).
OnlyGrantedAddress == dhcp.state = "BOUND" => dhcp.ip \in granted \/ starved

\* Everything the client sends goes through its pcb, which is there until the client is off.
PcbWhileActive == dhcp.state # "OFF" => dhcp.pcb

\* The client of dhcp.c as a whole: never stuck, no address beyond its lease or without a grant, and a
\* pcb for what it sends.
DhcpSound == DhcpTypeOK /\ NeverStuck /\ LeaseHonoured /\ OnlyGrantedAddress /\ PcbWhileActive
============================================================================
