------------------------------ MODULE UdpPcbs ------------------------------
(***************************************************************************)
(* The UDP control blocks of lwIP, core/udp.c: the list udp_pcbs, binding, *)
(* connecting, the choice of the block a datagram is for, and sending.     *)
(* All of it runs in tcpip_thread, one call after the other.  SO_REUSE,    *)
(* IP_SOF_BROADCAST and UDPLITE are 0, as in the build.                    *)
(***************************************************************************)
EXTENDS Integers, Sequences, FiniteSets, SequencesExt

CONSTANTS
  MEMP_NUM_UDP_PCB,
  LocalAddrs,                \* addresses the interface may have
  AnyAddr,                   \* IP4_ADDR_ANY
  RemoteAddrs, RemotePorts,  \* who sends datagrams, and from which ports
  Peers,                     \* whom a program connects to: some of them, or anybody (dhcp.c)
  FixedPorts,                \* ports a program may ask for
  RANGE_START, RANGE_END     \* UDP_LOCAL_PORT_RANGE_START and _END

ASSUME UdpPcbsAssumption ==
  /\ MEMP_NUM_UDP_PCB \in Nat \ {0} /\ AnyAddr \notin LocalAddrs /\ LocalAddrs # {}
  /\ RANGE_START \in Nat \ {0} /\ RANGE_END \in Nat /\ RANGE_START <= RANGE_END
  /\ Peers \subseteq RemoteAddrs \cup {AnyAddr} /\ 0 \notin RemotePorts

VARIABLES
  upcb,                      \* [used, local_ip, local_port, remote_ip, remote_port, connected]
  udp_pcbs,                  \* the list, first element first
  udp_port,
  netifIp,
  readdressed                \* the interface has changed its address

udpPcbVars == <<upcb, udp_pcbs, udp_port, netifIp, readdressed>>

PcbIds == 1..MEMP_NUM_UDP_PCB
FreePcb == [used |-> FALSE, local_ip |-> AnyAddr, local_port |-> 0, remote_ip |-> AnyAddr, remote_port |-> 0,
            connected |-> FALSE]

UdpPcbsInit ==
  /\ upcb = [i \in PcbIds |-> FreePcb]
  /\ udp_pcbs = <<>>
  /\ udp_port \in RANGE_START..RANGE_END          \* LWIP_RAND
  /\ netifIp \in LocalAddrs
  /\ readdressed = FALSE

Listed == {udp_pcbs[n] : n \in 1..Len(udp_pcbs)}
FirstOf(S) == CHOOSE n \in S : \A m \in S : n <= m

\* udp_port counts within the range, from its end back to its start.
InRange(port) == RANGE_START + ((port - RANGE_START) % (RANGE_END - RANGE_START + 1))

----------------------------------------------------------------------------
(* Binding *)

\* How many ports udp_new_port tries, the one after udp_port first.
PortTries == 1..(RANGE_END - RANGE_START + 1)

PortTaken(port) == \E i \in Listed : upcb[i].local_port = port

\* udp_new_port: the next port no block has, or 0.
udp_new_port ==
  LET free == {k \in PortTries : ~PortTaken(InRange(udp_port + k))}
  IN IF free = {} THEN 0 ELSE InRange(udp_port + (CHOOSE k \in free : \A m \in free : k <= m))

\* Seeded fault: an address is only refused when the other block has no peer.
AddressTaken_Unconnected(i, ip, port) ==
  \E j \in Listed \ {i} : upcb[j].local_port = port /\ upcb[j].local_ip = ip /\ ~upcb[j].connected

AddressTaken(i, ip, port) ==
  \E j \in Listed \ {i} : upcb[j].local_port = port /\ upcb[j].local_ip = ip

Linked(i) == IF i \in Listed THEN udp_pcbs ELSE <<i>> \o udp_pcbs

\* udp_bind of a block whose other fields the caller then leaves as in r; a failure changes nothing
\* but udp_port, which has gone once round.
udp_bind(i, ip, port, r) ==
  LET p == IF port = 0 THEN udp_new_port ELSE port
      fails == p = 0 \/ (port # 0 /\ AddressTaken(i, ip, port))
  IN /\ udp_port' = IF port # 0 THEN udp_port
                    ELSE IF p = 0 THEN InRange(udp_port + Cardinality(PortTries)) ELSE p
     /\ upcb' = IF fails THEN upcb
                ELSE [upcb EXCEPT ![i] = [r EXCEPT !.local_ip = ip, !.local_port = p]]
     /\ udp_pcbs' = IF fails THEN udp_pcbs ELSE Linked(i)

SameNetif == UNCHANGED <<netifIp, readdressed>>

----------------------------------------------------------------------------
(* Calls *)

\* udp_new and the udp_recv that follows it at every caller.
udp_new(i) ==
  /\ ~upcb[i].used /\ \A j \in PcbIds : j < i => upcb[j].used
  /\ upcb' = [upcb EXCEPT ![i] = [FreePcb EXCEPT !.used = TRUE]]
  /\ SameNetif /\ UNCHANGED <<udp_pcbs, udp_port>>

BindTo(i, ip, port) == upcb[i].used /\ udp_bind(i, ip, port, upcb[i]) /\ SameNetif

\* A block without a port is bound to one first.
udp_connect(i, ip, port) ==
  LET connected == [upcb[i] EXCEPT !.remote_ip = ip, !.remote_port = port, !.connected = TRUE]
  IN /\ upcb[i].used
     /\ IF upcb[i].local_port = 0 THEN udp_bind(i, upcb[i].local_ip, 0, connected)
        ELSE /\ upcb' = [upcb EXCEPT ![i] = connected] /\ udp_pcbs' = Linked(i)
             /\ UNCHANGED udp_port
     /\ SameNetif

udp_disconnect(i) ==
  /\ upcb[i].used /\ upcb[i].connected
  /\ upcb' = [upcb EXCEPT ![i].remote_ip = AnyAddr, ![i].remote_port = 0, ![i].connected = FALSE]
  /\ SameNetif /\ UNCHANGED <<udp_pcbs, udp_port>>

\* The list without block i.
Unlinked(i) ==
  IF i \in Listed THEN RemoveAt(udp_pcbs, FirstOf({n \in 1..Len(udp_pcbs) : udp_pcbs[n] = i})) ELSE udp_pcbs

udp_remove(i) ==
  /\ upcb[i].used
  /\ upcb' = [upcb EXCEPT ![i] = FreePcb]
  /\ udp_pcbs' = Unlinked(i)
  /\ SameNetif /\ UNCHANGED udp_port

\* udp_sendto down to udp_sendto_if_src: only a block that is not bound yet is changed, and only when
\* the interface has the address the block asks for.
udp_sendto(i) ==
  /\ upcb[i].used /\ upcb[i].local_port = 0 /\ upcb[i].local_ip \in {AnyAddr, netifIp}
  /\ udp_bind(i, upcb[i].local_ip, 0, upcb[i]) /\ SameNetif

udp_netif_ip_addr_changed(ip) ==
  /\ ip # netifIp
  /\ upcb' = [i \in PcbIds |-> IF i \in Listed /\ upcb[i].local_ip = netifIp
                                 THEN [upcb[i] EXCEPT !.local_ip = ip] ELSE upcb[i]]
  /\ netifIp' = ip /\ readdressed' = TRUE
  /\ UNCHANGED <<udp_pcbs, udp_port>>

----------------------------------------------------------------------------
(* A datagram comes in *)

Broadcast == "broadcast"

\* The interface's own address or a broadcast: IP lets nothing else through.
udp_input_local_match(r, ip) ==
  \/ r.local_ip = AnyAddr
  \/ IF ip = Broadcast THEN r.local_ip \in LocalAddrs ELSE r.local_ip = ip

LocalMatch(r, d) == r.local_port = d.dest /\ udp_input_local_match(r, d.dest_ip)

\* Seeded fault: only the port of the peer is compared.
PerfectMatch_PortOnly(r, d) == LocalMatch(r, d) /\ r.remote_port = d.src

PerfectMatch(r, d) ==
  LocalMatch(r, d) /\ r.remote_port = d.src /\ r.remote_ip \in {AnyAddr, d.src_ip}

Positions(Test(_)) == {n \in 1..Len(udp_pcbs) : Test(upcb[udp_pcbs[n]])}

\* A block with the right peer is moved to the front of the list.
ToFront(n) == <<udp_pcbs[n]>> \o RemoveAt(udp_pcbs, n)

\* The position of the block the datagram is for, or 0: the first with the right peer, or the first
\* that is not connected.
Recipient(d) ==
  LET isPerfect(r) == PerfectMatch(r, d)
      isOpen(r) == LocalMatch(r, d) /\ ~r.connected
  IN CASE Positions(isPerfect) # {} -> FirstOf(Positions(isPerfect))
       [] Positions(isPerfect) = {} /\ Positions(isOpen) # {} -> FirstOf(Positions(isOpen))
       [] OTHER -> 0

\* Nobody's datagram, and one for the first block in the list, change nothing.
udp_input(d) ==
  LET n == Recipient(d)
  IN /\ n > 1 /\ PerfectMatch(upcb[udp_pcbs[n]], d)
     /\ udp_pcbs' = ToFront(n)
     /\ SameNetif /\ UNCHANGED <<upcb, udp_port>>

\* A source port of 0 says that the sender has none.
Incoming ==
  [dest_ip : {netifIp, Broadcast}, dest : FixedPorts \cup (RANGE_START..RANGE_END),
   src_ip : RemoteAddrs, src : RemotePorts \cup {0}]

UdpPcbsNext ==
  \/ \E i \in PcbIds :
       \/ udp_new(i) \/ udp_disconnect(i) \/ udp_remove(i) \/ udp_sendto(i)
       \/ \E ip \in LocalAddrs \cup {AnyAddr}, port \in FixedPorts \cup {0} : BindTo(i, ip, port)
       \/ \E ip \in Peers, port \in RemotePorts : udp_connect(i, ip, port)
  \/ \E d \in Incoming : udp_input(d)
  \/ \E ip \in LocalAddrs : udp_netif_ip_addr_changed(ip)

UdpPcbsSpec == UdpPcbsInit /\ [][UdpPcbsNext]_udpPcbVars

----------------------------------------------------------------------------
(* Properties *)

\* Type invariant: ports are ones a program asked for or of the range, and so is udp_port.
UdpPcbsTypeOK ==
  /\ udp_port \in RANGE_START..RANGE_END
  /\ \A i \in PcbIds : upcb[i].local_port \in {0} \cup FixedPorts \cup (RANGE_START..RANGE_END)

\* The list holds the bound blocks, each once, in whatever order binding again, removing and the move
\* to the front happen: a block that is in it twice, or freed while it is in it, makes it endless.
ListIsSound ==
  /\ Listed = {i \in PcbIds : upcb[i].used /\ upcb[i].local_port # 0}
  /\ Cardinality(Listed) = Len(udp_pcbs)

\* Two blocks have the same address and port only after the interface got the address one of them
\* was bound to: udp_netif_ip_addr_changed does not look for it.
OneBlockPerAddress ==
  \A i, j \in Listed :
    i # j /\ upcb[i].local_port = upcb[j].local_port /\ upcb[i].local_ip = upcb[j].local_ip => readdressed

\* A datagram goes to a block of its port and address, to a connected one only from its peer, and to
\* an unconnected one only when none is connected to the sender; the order of the list does not matter.
DatagramToItsBlock ==
  \A d \in Incoming : Recipient(d) # 0 =>
    LET r == upcb[udp_pcbs[Recipient(d)]]
        isPeer(q) == q.connected /\ q.remote_port = d.src /\ q.remote_ip \in {AnyAddr, d.src_ip}
    IN /\ LocalMatch(r, d)
       /\ r.connected => isPeer(r)
       /\ ~r.connected => ~\E i \in Listed : isPeer(upcb[i]) /\ LocalMatch(upcb[i], d)

\* A port of the range is refused only when every one of it is taken, wherever the search begins.
RefusedOnlyWhenTaken == udp_new_port = 0 => \A port \in RANGE_START..RANGE_END : PortTaken(port)

\* The list of udp.c as a whole: the bound blocks once each, no address twice, no port refused in vain.
UdpBlocksSound == UdpPcbsTypeOK /\ ListIsSound /\ OneBlockPerAddress /\ RefusedOnlyWhenTaken
============================================================================
