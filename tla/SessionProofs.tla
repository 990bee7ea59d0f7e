--------------------------- MODULE SessionProofs ----------------------------
(***************************************************************************)
(* Proofs about what the stack keeps of a session with a peer: the DHCP    *)
(* client, the option negotiation of PPP, and the TCP connections of the   *)
(* sequential API with the thread that uses them.                          *)
(***************************************************************************)
EXTENDS Dhcp, PppFsm, Netconn, FiniteSetTheorems, SequenceTheorems, TLAPS

-----------------------------------------------------------------------------
(* The record of the DHCP client and what its functions do to it.          *)

Times == [t0 : Nat, t1 : Nat, t2 : Nat]
Xids == 0..(XidWrap - 1)
MsgTypes == {"DISCOVER", "REQUEST", "DECLINE", "RELEASE"}
Msg == [type : MsgTypes, xid : Xids, addr : DhcpAddrs]
ReplyMsg == [type : {"OFFER", "ACK", "NAK"}, xid : Xids, addr : DhcpAddrs, lease : Times, server : BOOLEAN]
ClientRecord ==
  [state : DhcpStates, tries : 0..MAX_TRIES, armed : BOOLEAN, pcb : BOOLEAN, xid : Xids,
   offered : DhcpAddrs, lease : Times, t0_timeout : Nat, t2_timeout : Nat, lease_used : Nat,
   t1_renew_time : Int, t2_rebind_time : Int, gxid : Xids, ip : DhcpAddrs, out : SUBSET Msg]

\* The counters of the lease are left alone.
SameTimes(r, c) ==
  /\ r.lease = c.lease /\ r.t0_timeout = c.t0_timeout /\ r.lease_used = c.lease_used
  /\ r.t1_renew_time = c.t1_renew_time /\ r.t2_rebind_time = c.t2_rebind_time
  /\ r.t2_timeout = c.t2_timeout

NoDiscover(c) == \A m \in c.out : m.type # "DISCOVER"

\* Numbers that the functions store are in their ranges; a new transaction number is another one.
LEMMA Numbers ==
  /\ 0 \in 0..MAX_TRIES /\ 0 \in Nat /\ 0 \in Int /\ 0 \in Xids
  /\ \A n \in 0..MAX_TRIES : (IF n < MAX_TRIES THEN n + 1 ELSE n) \in 0..MAX_TRIES
  /\ \A n \in 0..MAX_TRIES : (IF n < MAX_TRIES THEN n + 1 ELSE n) = 1 => n = 0
  /\ \A x \in Xids : (x + 1) % XidWrap \in Xids /\ (x + 1) % XidWrap # x
<1>. USE DhcpAssumption
<1>1. \A x \in Xids : (x + 1) % XidWrap \in Xids /\ (x + 1) % XidWrap # x
  <2>. SUFFICES ASSUME NEW x \in Xids
                PROVE  (x + 1) % XidWrap \in Xids /\ (x + 1) % XidWrap # x
    OBVIOUS
  <2>1. x \in Nat /\ x < XidWrap /\ XidWrap \in Nat
    BY DEF Xids
  <2>2. CASE x + 1 = XidWrap
    <3>1. \A n \in Nat \ {0} : n % n = 0
      BY Z3
    <3>. QED
      BY <2>1, <2>2, <3>1 DEF Xids
  <2>3. CASE x + 1 < XidWrap
    <3>1. \A a, n \in Nat : a < n => a % n = a
      BY Z3
    <3>. QED
      BY <2>1, <2>3, <3>1 DEF Xids
  <2>. QED
    BY <2>1, <2>2, <2>3
<1>. QED
  BY <1>1 DEF Xids

\* dhcp_set_state.
LEMMA SetStateFacts ==
  ASSUME NEW c \in ClientRecord, NEW s \in DhcpStates
  PROVE  LET r == dhcp_set_state(c, s)
         IN /\ r \in ClientRecord
            /\ r.state = s /\ r.gxid = c.gxid /\ r.ip = c.ip /\ r.out = c.out
            /\ r.pcb = c.pcb /\ r.xid = c.xid /\ r.offered = c.offered /\ SameTimes(r, c)
            /\ c.state = s => r = c
            /\ c.state # s => r.tries = 0 /\ r.armed = FALSE
<1>1. CASE c.state = s
  BY <1>1 DEF dhcp_set_state, SameTimes
<1>2. CASE c.state # s
  <2>. DEFINE r == dhcp_set_state(c, s)
  <2>1. r = [c EXCEPT !.state = s, !.tries = 0, !.armed = FALSE]
    BY <1>2 DEF dhcp_set_state
  <2>. HIDE DEF r
  <2>2. r \in ClientRecord
    BY <2>1, Numbers, Zenon DEF ClientRecord
  <2>3. /\ r.state = s /\ r.gxid = c.gxid /\ r.ip = c.ip /\ r.out = c.out
        /\ r.pcb = c.pcb /\ r.xid = c.xid /\ r.offered = c.offered /\ SameTimes(r, c)
        /\ r.tries = 0 /\ r.armed = FALSE
    BY <2>1, Zenon DEF ClientRecord, SameTimes
  <2>. QED
    BY <2>2, <2>3, <1>2 DEF r
<1>. QED
  BY <1>1, <1>2

\* A message of this type is sent, or not for lack of memory: only the number of the exchange changes.
Transmitted(r, c, type, mem) ==
  /\ r \in ClientRecord
  /\ r.state = c.state /\ r.tries = c.tries /\ r.armed = c.armed /\ r.ip = c.ip
  /\ r.pcb = c.pcb /\ r.offered = c.offered /\ SameTimes(r, c)
  /\ \/ r.gxid = c.gxid /\ (r.xid = c.xid \/ r.xid = c.gxid)
     \/ r.gxid # c.gxid /\ r.xid = r.gxid
  /\ ~mem => r.out = c.out
  /\ mem /\ NewXid(c, type) => r.gxid # c.gxid /\ r.xid = r.gxid
  /\ \A m \in r.out : m \in c.out \/ m.type = type

\* dhcp_create_msg and udp_sendto.
LEMMA SendFacts ==
  ASSUME NEW c \in ClientRecord, NEW type \in MsgTypes, NEW addr \in DhcpAddrs, NEW mem \in BOOLEAN
  PROVE  Transmitted(Send(c, type, addr, mem), c, type, mem)
<1>. DEFINE g == IF NewXid(c, type) THEN (c.gxid + 1) % XidWrap ELSE c.gxid
            x == IF type = "REQUEST" THEN c.xid ELSE g
            m == [type |-> type, xid |-> x, addr |-> addr]
            r == Send(c, type, addr, mem)
<1>1. CASE ~mem
  <2>1. r = c
    BY <1>1 DEF Send
  <2>. QED
    BY <1>1, <2>1 DEF SameTimes, Transmitted
<1>2. CASE mem
  <2>1. r = [c EXCEPT !.gxid = g, !.xid = x, !.out = c.out \cup {m}]
    BY <1>2 DEF Send
  <2>2. c.gxid \in Xids /\ c.xid \in Xids
    BY DEF ClientRecord
  <2>3. /\ g \in Xids /\ x \in Xids
        /\ NewXid(c, type) => g # c.gxid /\ x = g
        /\ ~NewXid(c, type) => g = c.gxid /\ (x = c.xid \/ x = c.gxid)
    BY <2>2, Numbers, Zenon DEF NewXid
  <2>4. m \in Msg /\ m.type = type
    BY <2>3, Zenon DEF Msg
  <2>. HIDE DEF r, m, x, g
  <2>5. c.out \cup {m} \in SUBSET Msg
    BY <2>4 DEF ClientRecord
  <2>6. r \in ClientRecord
    BY <2>1, <2>3, <2>5, Zenon DEF ClientRecord
  <2>7. /\ r.state = c.state /\ r.tries = c.tries /\ r.armed = c.armed /\ r.ip = c.ip
        /\ r.pcb = c.pcb /\ r.offered = c.offered /\ SameTimes(r, c)
        /\ r.gxid = g /\ r.xid = x /\ r.out = c.out \cup {m}
    BY <2>1, Zenon DEF ClientRecord, SameTimes
  <2>. QED
    BY <1>2, <2>3, <2>4, <2>6, <2>7, Zenon DEF r, Transmitted
<1>. QED
  BY <1>1, <1>2

\* What every sending function leaves: a new state with the timer running, the lease, the pcb and the
\* address as they were, and the number of the exchange either kept or a new one; a new one for the
\* first try of anything but a request, when there is memory for it.
Sent(r, c, s, type, mem) ==
  /\ r \in ClientRecord
  /\ r.state = s /\ r.armed = TRUE /\ r.pcb = c.pcb /\ r.ip = c.ip /\ SameTimes(r, c)
  /\ \/ r.gxid = c.gxid /\ (r.xid = c.xid \/ r.xid = c.gxid)
     \/ r.gxid # c.gxid /\ r.xid = r.gxid
  /\ ~mem => r.out = c.out
  /\ \A m \in r.out : m \in c.out \/ m.type = type
  /\ mem /\ type # "REQUEST" /\ (c.state # s \/ c.tries = 0) => r.gxid # c.gxid /\ r.xid = r.gxid
  /\ r.tries = 1 /\ c.state = s => c.tries = 0

\* The end of every sending function.
LEMMA SendAndWaitFacts ==
  ASSUME NEW c \in ClientRecord, NEW s \in DhcpStates, NEW type \in MsgTypes, NEW addr \in DhcpAddrs,
         NEW mem \in BOOLEAN
  PROVE  LET r == SendAndWait(dhcp_set_state(c, s), type, addr, mem)
         IN Sent(r, c, s, type, mem) /\ r.offered = c.offered
<1>. DEFINE a == dhcp_set_state(c, s)
            b == Send(a, type, addr, mem)
            r == SendAndWait(a, type, addr, mem)
            n == IF b.tries < MAX_TRIES THEN b.tries + 1 ELSE b.tries
<1>1. /\ a \in ClientRecord
      /\ a.state = s /\ a.gxid = c.gxid /\ a.ip = c.ip /\ a.out = c.out
      /\ a.pcb = c.pcb /\ a.xid = c.xid /\ a.offered = c.offered /\ SameTimes(a, c)
      /\ c.state = s => a = c
      /\ c.state # s => a.tries = 0 /\ a.armed = FALSE
  BY SetStateFacts, Zenon
<1>. HIDE DEF a
<1>2. Transmitted(b, a, type, mem)
  BY <1>1, SendFacts
<1>. HIDE DEF b
<1>3. r = [b EXCEPT !.tries = n, !.armed = TRUE]
  BY Zenon DEF SendAndWait, b
<1>4. n \in 0..MAX_TRIES /\ (n = 1 => b.tries = 0)
  <2>1. b.tries \in 0..MAX_TRIES
    BY <1>2 DEF Transmitted, ClientRecord
  <2>. QED
    BY <2>1, Numbers, Zenon
<1>. HIDE DEF r, n
<1>5. r \in ClientRecord
  BY <1>2, <1>3, <1>4, Zenon DEF Transmitted, ClientRecord
<1>6. /\ r.state = b.state /\ r.tries = n /\ r.armed = TRUE /\ r.ip = b.ip /\ r.pcb = b.pcb
      /\ r.offered = b.offered /\ r.gxid = b.gxid /\ r.xid = b.xid /\ r.out = b.out /\ SameTimes(r, b)
  BY <1>2, <1>3, Zenon DEF Transmitted, ClientRecord, SameTimes
<1>7. SameTimes(r, c)
  BY <1>1, <1>2, <1>6, Zenon DEF SameTimes, Transmitted
<1>8. /\ ~mem => r.out = c.out
      /\ \A m \in r.out : m \in c.out \/ m.type = type
  BY <1>1, <1>2, <1>6, Zenon DEF Transmitted
<1>9. mem /\ type # "REQUEST" /\ (c.state # s \/ c.tries = 0) => r.gxid # c.gxid /\ r.xid = r.gxid
  BY <1>1, <1>2, <1>6, Zenon DEF NewXid, Transmitted
<1>10. r.tries = 1 /\ c.state = s => c.tries = 0
  BY <1>1, <1>2, <1>4, <1>6, Zenon DEF Transmitted
<1>11. Sent(r, c, s, type, mem) /\ r.offered = c.offered
  BY <1>1, <1>2, <1>5, <1>6, <1>7, <1>8, <1>9, <1>10, Zenon DEF Sent, Transmitted
<1>. QED
  BY <1>11, Zenon DEF r, a

\* dhcp_discover, dhcp_select, dhcp_renew, dhcp_rebind, dhcp_reboot and dhcp_decline are such functions.
LEMMA SendingFunctions ==
  ASSUME NEW c \in ClientRecord, NEW mem \in BOOLEAN
  PROVE  /\ Sent(dhcp_discover(c, mem), c, "SELECTING", "DISCOVER", mem)
         /\ Sent(dhcp_select(c, mem), c, "REQUESTING", "REQUEST", mem)
         /\ Sent(dhcp_renew(c, mem), c, "RENEWING", "REQUEST", mem)
         /\ Sent(dhcp_rebind(c, mem), c, "REBINDING", "REQUEST", mem)
         /\ Sent(dhcp_reboot(c, mem), c, "REBOOTING", "REQUEST", mem)
         /\ Sent(dhcp_decline(c, mem), c, "BACKING_OFF", "DECLINE", mem)
<1>1. c.offered \in DhcpAddrs /\ c.ip \in DhcpAddrs /\ ANY \in DhcpAddrs
  BY DEF ClientRecord, DhcpAddrs
<1>2. /\ {"SELECTING", "REQUESTING", "RENEWING", "REBINDING", "REBOOTING", "BACKING_OFF"} \subseteq DhcpStates
      /\ {"DISCOVER", "REQUEST", "DECLINE"} \subseteq MsgTypes
  BY DEF DhcpStates, MsgTypes
<1>3. Sent(dhcp_select(c, mem), c, "REQUESTING", "REQUEST", mem)
  BY <1>1, <1>2, SendAndWaitFacts DEF dhcp_select
<1>4. Sent(dhcp_renew(c, mem), c, "RENEWING", "REQUEST", mem)
  BY <1>1, <1>2, SendAndWaitFacts DEF dhcp_renew
<1>5. Sent(dhcp_rebind(c, mem), c, "REBINDING", "REQUEST", mem)
  BY <1>1, <1>2, SendAndWaitFacts DEF dhcp_rebind
<1>6. Sent(dhcp_reboot(c, mem), c, "REBOOTING", "REQUEST", mem)
  BY <1>1, <1>2, SendAndWaitFacts DEF dhcp_reboot
<1>7. Sent(dhcp_decline(c, mem), c, "BACKING_OFF", "DECLINE", mem)
  BY <1>1, <1>2, SendAndWaitFacts DEF dhcp_decline
<1>8. Sent(dhcp_discover(c, mem), c, "SELECTING", "DISCOVER", mem)
  <2>. DEFINE d == [c EXCEPT !.offered = ANY]
              r == dhcp_discover(c, mem)
  <2>1. d \in ClientRecord
    BY <1>1, Zenon DEF ClientRecord
  <2>2. /\ d.state = c.state /\ d.tries = c.tries /\ d.pcb = c.pcb /\ d.ip = c.ip /\ SameTimes(d, c)
        /\ d.gxid = c.gxid /\ d.xid = c.xid /\ d.out = c.out
    BY Zenon DEF ClientRecord, SameTimes
  <2>. HIDE DEF d
  <2>3. Sent(r, d, "SELECTING", "DISCOVER", mem)
    BY <1>1, <1>2, <2>1, SendAndWaitFacts DEF dhcp_discover, d
  <2>. HIDE DEF r
  <2>4. Sent(r, c, "SELECTING", "DISCOVER", mem)
    BY <2>2, <2>3, Zenon DEF Sent, SameTimes
  <2>. QED
    BY <2>4 DEF r
<1>. QED
  BY <1>3, <1>4, <1>5, <1>6, <1>7, <1>8

\* What an ARP probe of the offered address leaves.
Probed(r, c) ==
  /\ r \in ClientRecord
  /\ r.state = "CHECKING" /\ r.armed = TRUE /\ r.pcb = c.pcb /\ r.ip = c.ip /\ SameTimes(r, c)
  /\ r.gxid = c.gxid /\ r.xid = c.xid /\ r.offered = c.offered /\ r.out = c.out

\* dhcp_check.
LEMMA CheckFacts ==
  ASSUME NEW c \in ClientRecord
  PROVE  Probed(dhcp_check(c), c)
<1>. DEFINE a == dhcp_set_state(c, "CHECKING")
            n == IF a.tries < MAX_TRIES THEN a.tries + 1 ELSE a.tries
            r == dhcp_check(c)
<1>1. "CHECKING" \in DhcpStates
  BY DEF DhcpStates
<1>2. /\ a \in ClientRecord
      /\ a.state = "CHECKING" /\ a.gxid = c.gxid /\ a.ip = c.ip /\ a.out = c.out
      /\ a.pcb = c.pcb /\ a.xid = c.xid /\ a.offered = c.offered /\ SameTimes(a, c)
  BY <1>1, SetStateFacts, Zenon
<1>. HIDE DEF a
<1>3. r = [a EXCEPT !.tries = n, !.armed = TRUE]
  BY Zenon DEF dhcp_check, a
<1>4. n \in 0..MAX_TRIES
  <2>1. a.tries \in 0..MAX_TRIES
    BY <1>2 DEF ClientRecord
  <2>. QED
    BY <2>1, Numbers, Zenon
<1>. HIDE DEF r, n
<1>5. r \in ClientRecord
  BY <1>2, <1>3, <1>4, Zenon DEF ClientRecord
<1>6. /\ r.state = a.state /\ r.armed = TRUE /\ r.ip = a.ip /\ r.pcb = a.pcb /\ r.offered = a.offered
      /\ r.gxid = a.gxid /\ r.xid = a.xid /\ r.out = a.out /\ SameTimes(r, a)
  BY <1>2, <1>3, Zenon DEF ClientRecord, SameTimes
<1>7. SameTimes(r, c)
  BY <1>2, <1>6, Zenon DEF SameTimes
<1>8. Probed(r, c)
  BY <1>2, <1>5, <1>6, <1>7, Zenon DEF Probed
<1>. QED
  BY <1>8 DEF r

\* What a bind leaves: the offered address, no timer, and the lease counted from its beginning.
Taken(r, c) ==
  /\ r \in ClientRecord
  /\ r.state = "BOUND" /\ r.armed = FALSE /\ r.pcb = c.pcb /\ r.ip = c.offered
  /\ r.gxid = c.gxid /\ r.xid = c.xid /\ r.out = c.out
  /\ r.lease = c.lease /\ r.lease_used = 0
  /\ c.lease.t0 # 0 => r.t0_timeout = c.lease.t0
  /\ c.lease.t0 = 0 => r.t0_timeout = c.t0_timeout

\* dhcp_bind.
LEMMA BindFacts ==
  ASSUME NEW c \in ClientRecord, c.state # "BOUND"
  PROVE  Taken(dhcp_bind(c), c)
<1>. DEFINE t0 == IF c.lease.t0 = 0 THEN c.t0_timeout ELSE c.lease.t0
            t1 == IF c.lease.t1 = 0 THEN c.t1_renew_time ELSE c.lease.t1
            t2 == IF c.lease.t2 = 0 THEN c.t2_rebind_time ELSE c.lease.t2
            e2 == IF c.lease.t2 = 0 THEN c.t2_timeout ELSE c.lease.t2
            b == Bound(c)
            d == [b EXCEPT !.ip = c.offered]
            r == dhcp_set_state(d, "BOUND")
<1>1. t0 \in Nat /\ t1 \in Int /\ t2 \in Int /\ e2 \in Nat /\ c.offered \in DhcpAddrs
  <2>1. /\ c.lease \in Times /\ c.t0_timeout \in Nat /\ c.t2_timeout \in Nat
        /\ c.t1_renew_time \in Int /\ c.t2_rebind_time \in Int /\ c.offered \in DhcpAddrs
    BY DEF ClientRecord
  <2>2. c.lease.t0 \in Nat /\ c.lease.t1 \in Nat /\ c.lease.t2 \in Nat
    BY <2>1 DEF Times
  <2>. QED
    BY <2>1, <2>2
<1>2. /\ c.lease.t0 # 0 => t0 = c.lease.t0
      /\ c.lease.t0 = 0 => t0 = c.t0_timeout
  OBVIOUS
<1>3. b = [c EXCEPT !.lease_used = 0, !.t0_timeout = t0, !.t1_renew_time = t1,
                    !.t2_rebind_time = t2, !.t2_timeout = e2]
  BY Zenon DEF Bound
<1>. HIDE DEF t0, t1, t2, e2, b
<1>4. b \in ClientRecord
  BY <1>1, <1>3, Numbers, Zenon DEF ClientRecord
<1>5. /\ b.state = c.state /\ b.armed = c.armed /\ b.pcb = c.pcb /\ b.xid = c.xid /\ b.gxid = c.gxid
      /\ b.out = c.out /\ b.lease = c.lease /\ b.lease_used = 0 /\ b.t0_timeout = t0
  BY <1>3, Zenon DEF ClientRecord
<1>6. d \in ClientRecord
  BY <1>1, <1>4, Zenon DEF ClientRecord
<1>7. /\ d.state = b.state /\ d.pcb = b.pcb /\ d.xid = b.xid /\ d.gxid = b.gxid /\ d.ip = c.offered
      /\ d.out = b.out /\ d.lease = b.lease /\ d.lease_used = b.lease_used /\ d.t0_timeout = b.t0_timeout
  BY <1>4, Zenon DEF ClientRecord
<1>. HIDE DEF d
<1>8. "BOUND" \in DhcpStates /\ d.state # "BOUND"
  BY <1>5, <1>7 DEF DhcpStates
<1>9. /\ r \in ClientRecord /\ r.state = "BOUND" /\ r.armed = FALSE /\ r.gxid = d.gxid /\ r.ip = d.ip
      /\ r.out = d.out /\ r.pcb = d.pcb /\ r.xid = d.xid /\ SameTimes(r, d)
  BY <1>6, <1>8, SetStateFacts, Zenon
<1>. HIDE DEF r
<1>10. Taken(r, c)
  BY <1>2, <1>5, <1>7, <1>9, Zenon DEF Taken, SameTimes
<1>. QED
  BY <1>10 DEF dhcp_bind, r, d, b

\* What a release leaves: the client off and no lease; a message only for an address it holds.
Released(r, c) ==
  /\ r \in ClientRecord
  /\ r.state = "OFF" /\ r.pcb = c.pcb
  /\ r.t0_timeout = 0 /\ r.lease_used = 0 /\ r.t1_renew_time = 0 /\ r.t2_rebind_time = 0
  /\ c.xid = c.gxid => r.xid = r.gxid
  /\ ~dhcp_supplied_address(c) => r.gxid = c.gxid /\ r.xid = c.xid /\ r.out = c.out
  /\ \A m \in r.out : m \in c.out \/ m.type = "RELEASE"

\* dhcp_release.
LEMMA ReleaseFacts ==
  ASSUME NEW c \in ClientRecord, NEW mem \in BOOLEAN
  PROVE  Released(dhcp_release(c, mem), c)
<1>. DEFINE a == dhcp_set_state(c, "OFF")
            b == [a EXCEPT !.offered = ANY, !.lease = NoLease, !.t0_timeout = 0, !.lease_used = 0,
                           !.t1_renew_time = 0, !.t2_rebind_time = 0]
            s == Send(b, "RELEASE", c.ip, mem)
            e == [s EXCEPT !.ip = ANY]
            r == dhcp_release(c, mem)
<1>1. "OFF" \in DhcpStates /\ "RELEASE" \in MsgTypes /\ ANY \in DhcpAddrs /\ c.ip \in DhcpAddrs /\ NoLease \in Times
  BY DEF DhcpStates, MsgTypes, DhcpAddrs, ClientRecord, NoLease, Times
<1>2. /\ a \in ClientRecord
      /\ a.state = "OFF" /\ a.gxid = c.gxid /\ a.out = c.out /\ a.pcb = c.pcb /\ a.xid = c.xid
  BY <1>1, SetStateFacts, Zenon
<1>. HIDE DEF a
<1>3. b \in ClientRecord
  BY <1>1, <1>2, Numbers, Zenon DEF ClientRecord
<1>4. /\ b.state = a.state /\ b.gxid = a.gxid /\ b.out = a.out /\ b.pcb = a.pcb /\ b.xid = a.xid
      /\ b.t0_timeout = 0 /\ b.lease_used = 0 /\ b.t1_renew_time = 0 /\ b.t2_rebind_time = 0
  BY <1>2, Zenon DEF ClientRecord
<1>5. r = IF dhcp_supplied_address(c) THEN e ELSE b
  BY Zenon DEF dhcp_release, a
<1>. HIDE DEF b
<1>6. Transmitted(s, b, "RELEASE", mem)
  BY <1>1, <1>3, SendFacts
<1>. HIDE DEF s
<1>7. s \in ClientRecord
  BY <1>6 DEF Transmitted
<1>8. e \in ClientRecord
  BY <1>1, <1>7, Zenon DEF ClientRecord
<1>9. /\ e.state = s.state /\ e.gxid = s.gxid /\ e.out = s.out /\ e.pcb = s.pcb /\ e.xid = s.xid
      /\ e.t0_timeout = s.t0_timeout /\ e.lease_used = s.lease_used
      /\ e.t1_renew_time = s.t1_renew_time /\ e.t2_rebind_time = s.t2_rebind_time
  BY <1>7, Zenon DEF ClientRecord
<1>. HIDE DEF e, r
<1>10. CASE dhcp_supplied_address(c)
  <2>1. r = e
    BY <1>5, <1>10
  <2>. QED
    BY <1>2, <1>4, <1>6, <1>8, <1>9, <1>10, <2>1, Zenon DEF Released, Transmitted, SameTimes, r
<1>11. CASE ~dhcp_supplied_address(c)
  <2>1. r = b
    BY <1>5, <1>11
  <2>. QED
    BY <1>2, <1>3, <1>4, <1>11, <2>1, Zenon DEF Released, r
<1>. QED
  BY <1>10, <1>11

-----------------------------------------------------------------------------
(* The invariant of the DHCP client.                                       *)

Waiting == {"SELECTING", "REQUESTING", "CHECKING", "REBOOTING", "BACKING_OFF"}
Holding == {"BOUND", "RENEWING", "REBINDING", "REBOOTING"}

\* The lease is used for less than its time.
UsedOK(c) ==
  /\ c.t0_timeout = 0 => c.lease_used = 0
  /\ c.t0_timeout # 0 => c.lease_used < c.t0_timeout

\* The counters of the client agree with what is left of the lease.
Runs(c, left) == left = -1 \/ (c.t0_timeout # 0 /\ left = c.t0_timeout - c.lease_used)

\* An address on the interface is under a lease that runs, or is one from before, which no timer will
\* ever renew.
LeaseOK(c, left) ==
  c.ip # ANY => \/ Runs(c, left)
                \/ c.state \notin Holding /\ c.t1_renew_time = 0 /\ c.t2_rebind_time = 0

\* What holds of the client's record whatever it did last.
Good(c, left, bad, gr, st) ==
  /\ c \in ClientRecord /\ left \in Int /\ left >= -1
  /\ UsedOK(c)
  /\ c.state \in Waiting => c.armed \/ bad
  /\ c.state # "OFF" => c.pcb /\ c.xid = c.gxid /\ LeaseOK(c, left)
  /\ c.state = "BOUND" => c.armed = FALSE /\ (c.ip \in gr \/ st)
  /\ c.state = "CHECKING" => c.offered \in gr \/ st

\* Every acknowledgement on its way to the client with the number of its exchange is of this exchange.
LeaseAcked ==
  dhcp.state # "OFF" => \/ starved
                        \/ \A m \in toClient : m.type = "ACK" /\ m.xid = dhcp.xid => m.addr \in granted

DhcpInv ==
  /\ Good(dhcp, leaseLeft, badOffer, granted, starved) /\ dhcp.out = {}
  /\ toServer \subseteq Msg /\ (\A m \in toServer : m.type \in Answered)
  /\ toClient \subseteq ReplyMsg
  /\ LeaseAcked

\* A new number was taken, or the exchange goes on; one that begins without a new number sent nothing.
Linked(c) ==
  /\ c.state # "OFF" => c.gxid # dhcp.gxid \/ (dhcp.state # "OFF" /\ c.xid = dhcp.xid)
  /\ Begins(c) => c.gxid # dhcp.gxid \/ NoDiscover(c)

\* Beginning a new exchange forgets the addresses of the last, which no client in SELECTING relies on.
LEMMA ExchangeKeeps ==
  ASSUME NEW c, NEW left, NEW bad, Good(c, left, bad, granted, starved), Exchange(c)
  PROVE  Good([c EXCEPT !.out = {}], left, bad, granted', starved')
<1>. DEFINE r == [c EXCEPT !.out = {}]
<1>1. c \in ClientRecord
  BY DEF Good
<1>2. r \in ClientRecord
  <2>1. {} \in SUBSET Msg
    OBVIOUS
  <2>. QED
    BY <1>1, <2>1, Zenon DEF ClientRecord
<1>3. /\ r.state = c.state /\ r.armed = c.armed /\ r.pcb = c.pcb /\ r.xid = c.xid /\ r.gxid = c.gxid
      /\ r.ip = c.ip /\ r.offered = c.offered /\ SameTimes(r, c)
  BY <1>1, Zenon DEF ClientRecord, SameTimes
<1>. HIDE DEF r
<1>4. UsedOK(r) /\ (LeaseOK(c, left) => LeaseOK(r, left))
  BY <1>3, Zenon DEF Good, UsedOK, LeaseOK, Runs, SameTimes
<1>5. starved => starved'
  BY Zenon DEF Exchange
<1>6. c.state # "SELECTING" => granted' = granted
  BY Zenon DEF Exchange, Begins, FirstTry
<1>7. Good(r, left, bad, granted', starved')
  BY <1>2, <1>3, <1>4, <1>5, <1>6, Zenon DEF Good
<1>. QED
  BY <1>7 DEF r

\* A step of the client that leaves the replies on the network keeps the invariant.
LEMMA FromClient ==
  ASSUME DhcpInv, NEW c, Good(c, leaseLeft', badOffer', granted, starved), Linked(c),
         ClientBecomes(c), Exchange(c), UNCHANGED toClient
  PROVE  DhcpInv'
<1>1. c \in ClientRecord
  BY DEF Good
<1>2. dhcp' = [c EXCEPT !.out = {}]
  BY DEF ClientBecomes
<1>3. Good(dhcp', leaseLeft', badOffer', granted', starved')
  BY <1>2, ExchangeKeeps
<1>4. dhcp'.out = {} /\ dhcp'.state = c.state /\ dhcp'.xid = c.xid
  BY <1>1, <1>2, Zenon DEF ClientRecord
<1>5. toServer' \subseteq Msg /\ (\A m \in toServer' : m.type \in Answered)
  <2>1. c.out \in SUBSET Msg
    BY <1>1 DEF ClientRecord
  <2>2. PICK kept \in SUBSET toServer : toServer' = kept \cup {m \in c.out : m.type \in Answered}
    BY DEF ClientBecomes
  <2>. QED
    BY <2>1, <2>2, Zenon DEF DhcpInv
<1>6. toClient' \subseteq ReplyMsg
  BY DEF DhcpInv
<1>7. LeaseAcked'
  <2>. SUFFICES ASSUME c.state # "OFF", ~starved',
                       NEW m \in toClient, m.type = "ACK", m.xid = c.xid
                PROVE  m.addr \in granted'
    BY <1>4, Zenon DEF LeaseAcked
  <2>1. c.xid = c.gxid
    BY DEF Good
  <2>2. c.gxid = dhcp.gxid
    BY <2>1, Zenon DEF ClientBecomes
  <2>3. ~Begins(c)
    BY <2>2, Zenon DEF Linked, Exchange, NoDiscover
  <2>4. granted' = granted /\ ~starved
    BY <2>3, Zenon DEF Exchange
  <2>5. dhcp.state # "OFF" /\ c.xid = dhcp.xid
    BY <2>2 DEF Linked
  <2>. QED
    BY <2>4, <2>5, Zenon DEF DhcpInv, LeaseAcked
<1>. QED
  BY <1>3, <1>4, <1>5, <1>6, <1>7 DEF DhcpInv

\* A sending function leaves a good client; one that holds its address does so under a running lease.
LEMMA SentGood ==
  ASSUME NEW c \in ClientRecord, NEW r, NEW s, NEW type, NEW mem, NEW left \in Int, NEW bad, NEW gr, NEW st,
         Sent(r, c, s, type, mem), left >= -1, s \notin {"OFF", "BOUND", "CHECKING"},
         UsedOK(c), c.pcb, r.xid = r.gxid, LeaseOK(c, left),
         s \in Holding /\ c.ip # ANY => Runs(c, left)
  PROVE  Good(r, left, bad, gr, st)
<1>1. UsedOK(r)
  BY Zenon DEF Sent, SameTimes, UsedOK
<1>2. LeaseOK(r, left)
  BY Zenon DEF Sent, SameTimes, LeaseOK, Runs
<1>. QED
  BY <1>1, <1>2, Zenon DEF Good, Sent

\* The number of the exchange after a sending function, when the exchange was going on before.
LEMMA SentLinked ==
  ASSUME DhcpInv, dhcp.state # "OFF", NEW c \in ClientRecord, NEW r, NEW s, NEW type, NEW mem \in BOOLEAN,
         c.gxid = dhcp.gxid, c.xid = dhcp.xid, c.out = {},
         Sent(r, c, s, type, mem), s = "SELECTING" => type = "DISCOVER"
  PROVE  Linked(r) /\ r.xid = r.gxid
<1>1. dhcp.xid = dhcp.gxid
  BY DEF DhcpInv, Good
<1>2. r.xid = r.gxid /\ (r.gxid # dhcp.gxid \/ r.xid = dhcp.xid)
  BY <1>1, Zenon DEF Sent
<1>3. Begins(r) => r.gxid # dhcp.gxid \/ NoDiscover(r)
  <2>. SUFFICES ASSUME Begins(r) PROVE r.gxid # dhcp.gxid \/ NoDiscover(r)
    OBVIOUS
  <2>1. r.state = "SELECTING" /\ r.tries = 1
    BY DEF Begins, FirstTry
  <2>2. s = "SELECTING" /\ type = "DISCOVER" /\ (c.state # s \/ c.tries = 0)
    BY <2>1, Zenon DEF Sent
  <2>3. CASE mem
    BY <2>2, <2>3, Zenon DEF Sent
  <2>4. CASE ~mem
    BY <2>4, Zenon DEF Sent, NoDiscover
  <2>. QED
    BY <2>3, <2>4
<1>. QED
  BY <1>2, <1>3 DEF Linked

\* A probe of an acknowledged address leaves a good client.
LEMMA ProbedGood ==
  ASSUME NEW c \in ClientRecord, NEW r, NEW left \in Int, NEW bad, NEW gr, NEW st, Probed(r, c), left >= -1,
         UsedOK(c), c.pcb, c.xid = c.gxid, LeaseOK(c, left), c.offered \in gr \/ st
  PROVE  Good(r, left, bad, gr, st)
<1>1. UsedOK(r)
  BY Zenon DEF Probed, SameTimes, UsedOK
<1>2. LeaseOK(r, left)
  BY Zenon DEF Probed, SameTimes, LeaseOK, Runs, Holding
<1>. QED
  BY <1>1, <1>2, Zenon DEF Good, Probed

\* Taking an acknowledged address leaves a good client, whose lease begins.
LEMMA TakenGood ==
  ASSUME NEW c \in ClientRecord, NEW r, NEW left, NEW bad, NEW gr, NEW st, Taken(r, c),
         UsedOK(c), c.pcb, c.xid = c.gxid, c.offered \in gr \/ st,
         left = IF r.lease.t0 = 0 THEN -1 ELSE r.lease.t0
  PROVE  Good(r, left, bad, gr, st)
<1>1. r.lease.t0 \in Nat /\ r.t0_timeout \in Nat /\ r.lease_used = 0 /\ r.lease = c.lease
  BY DEF Taken, ClientRecord, Times
<1>2. left \in Int /\ left >= -1
  BY <1>1
<1>3. UsedOK(r)
  BY <1>1 DEF UsedOK
<1>4. Runs(r, left)
  <2>1. CASE r.lease.t0 = 0
    BY <2>1 DEF Runs
  <2>2. CASE r.lease.t0 # 0
    <3>1. r.t0_timeout = r.lease.t0 /\ left = r.lease.t0
      BY <1>1, <2>2, Zenon DEF Taken
    <3>. QED
      BY <1>1, <2>2, <3>1 DEF Runs
  <2>. QED
    BY <2>1, <2>2
<1>. QED
  BY <1>2, <1>3, <1>4, Zenon DEF Good, Taken, LeaseOK, Waiting

\* An off client is good when its counters are.
LEMMA OffGood ==
  ASSUME NEW c \in ClientRecord, c.state = "OFF", UsedOK(c), NEW left \in Int, left >= -1, NEW bad, NEW gr, NEW st
  PROVE  Good(c, left, bad, gr, st) /\ Linked(c)
  BY Zenon DEF Good, Linked, Begins, FirstTry, Waiting

-----------------------------------------------------------------------------
(* Every step keeps the invariant.                                         *)

\* What the invariant says of the client that is not off.
LEMMA ActiveClient ==
  ASSUME DhcpInv, dhcp.state # "OFF"
  PROVE  /\ dhcp \in ClientRecord /\ dhcp.out = {} /\ leaseLeft \in Int /\ leaseLeft >= -1
         /\ UsedOK(dhcp) /\ dhcp.pcb /\ dhcp.xid = dhcp.gxid /\ LeaseOK(dhcp, leaseLeft)
         /\ dhcp.state \in Holding /\ dhcp.ip # ANY => Runs(dhcp, leaseLeft)
  BY Zenon DEF DhcpInv, Good, LeaseOK

\* Resetting the tries or the timer touches nothing else of the client.
SameButTimer(c, d) ==
  /\ c \in ClientRecord
  /\ c.state = d.state /\ c.pcb = d.pcb /\ c.xid = d.xid /\ c.gxid = d.gxid /\ c.ip = d.ip
  /\ c.offered = d.offered /\ c.out = d.out /\ SameTimes(c, d)

\* The record update behind dhcp_network_changed and dhcp_fine_tmr does just that.
LEMMA TimerReset ==
  ASSUME NEW d \in ClientRecord
  PROVE  SameButTimer([d EXCEPT !.tries = 0], d) /\ SameButTimer([d EXCEPT !.armed = FALSE], d)
<1>1. SameButTimer([d EXCEPT !.tries = 0], d)
  BY Numbers, Zenon DEF SameButTimer, ClientRecord, SameTimes
<1>2. SameButTimer([d EXCEPT !.armed = FALSE], d)
  BY Zenon DEF SameButTimer, ClientRecord, SameTimes
<1>. QED
  BY <1>1, <1>2

\* A sending function called on the active client, or on it with the timer reset.
LEMMA ActiveSends ==
  ASSUME DhcpInv, dhcp.state # "OFF", NEW c, SameButTimer(c, dhcp),
         NEW r, NEW s, NEW type, NEW mem \in BOOLEAN, Sent(r, c, s, type, mem),
         s \notin {"OFF", "BOUND", "CHECKING"}, s = "SELECTING" => type = "DISCOVER",
         s \in Holding => dhcp.state \in Holding, NEW bad
  PROVE  Good(r, leaseLeft, bad, granted, starved) /\ Linked(r)
<1>1. /\ dhcp.out = {} /\ leaseLeft \in Int /\ leaseLeft >= -1
      /\ UsedOK(dhcp) /\ dhcp.pcb /\ LeaseOK(dhcp, leaseLeft)
      /\ dhcp.state \in Holding /\ dhcp.ip # ANY => Runs(dhcp, leaseLeft)
  BY ActiveClient
<1>2. /\ c \in ClientRecord /\ UsedOK(c) /\ c.pcb /\ LeaseOK(c, leaseLeft)
      /\ s \in Holding /\ c.ip # ANY => Runs(c, leaseLeft)
  BY <1>1, Zenon DEF SameButTimer, SameTimes, UsedOK, LeaseOK, Runs
<1>3. c.gxid = dhcp.gxid /\ c.xid = dhcp.xid /\ c.out = {}
  BY <1>1 DEF SameButTimer
<1>4. Linked(r) /\ r.xid = r.gxid
  BY <1>2, <1>3, SentLinked
<1>5. Good(r, leaseLeft, bad, granted, starved)
  BY <1>1, <1>2, <1>4, SentGood
<1>. QED
  BY <1>4, <1>5

\* What dhcp_stop leaves.
LEMMA StopFacts ==
  ASSUME NEW c \in ClientRecord, UsedOK(c)
  PROVE  dhcp_stop(c) \in ClientRecord /\ dhcp_stop(c).state = "OFF" /\ UsedOK(dhcp_stop(c))
<1>. DEFINE a == dhcp_set_state(c, "OFF")
            r == [a EXCEPT !.pcb = FALSE]
<1>1. "OFF" \in DhcpStates
  BY DEF DhcpStates
<1>2. a \in ClientRecord /\ a.state = "OFF" /\ SameTimes(a, c)
  BY <1>1, SetStateFacts, Zenon
<1>. HIDE DEF a
<1>3. r \in ClientRecord /\ r.state = a.state /\ SameTimes(r, a)
  BY <1>2, Zenon DEF ClientRecord, SameTimes
<1>. HIDE DEF r
<1>4. r \in ClientRecord /\ r.state = "OFF" /\ UsedOK(r)
  BY <1>2, <1>3, Zenon DEF UsedOK, SameTimes
<1>. QED
  BY <1>4 DEF dhcp_stop, r, a

\* dhcp_start.
LEMMA StartStep ==
  ASSUME DhcpInv, NEW pcb \in BOOLEAN, NEW mem \in BOOLEAN, dhcp_start(pcb, mem)
  PROVE  DhcpInv'
<1>. DEFINE fresh == Cleared(dhcp.gxid, dhcp.ip)
            f == [fresh EXCEPT !.pcb = TRUE]
            found == dhcp_discover(f, mem)
            c == IF ~pcb THEN fresh ELSE IF mem THEN found ELSE dhcp_stop(found)
<1>1. dhcp \in ClientRecord /\ leaseLeft \in Int /\ leaseLeft >= -1
  BY DEF DhcpInv, Good
<1>2. dhcp.gxid \in Xids /\ dhcp.ip \in DhcpAddrs /\ ANY \in DhcpAddrs /\ "OFF" \in DhcpStates
  BY <1>1 DEF ClientRecord, DhcpAddrs, DhcpStates
<1>3. NoLease \in Times /\ {} \in SUBSET Msg
  BY DEF NoLease, Times
<1>4. fresh \in ClientRecord
  BY <1>2, <1>3, Numbers, Zenon DEF Cleared, ClientRecord
<1>5. /\ fresh.state = "OFF" /\ fresh.t0_timeout = 0 /\ fresh.lease_used = 0 /\ fresh.t1_renew_time = 0
      /\ fresh.t2_rebind_time = 0 /\ fresh.gxid = dhcp.gxid
  BY Zenon DEF Cleared
<1>. HIDE DEF fresh
<1>6. f \in ClientRecord
  BY <1>4, Zenon DEF ClientRecord
<1>7. /\ f.state = "OFF" /\ f.t0_timeout = 0 /\ f.lease_used = 0 /\ f.t1_renew_time = 0
      /\ f.t2_rebind_time = 0 /\ f.gxid = dhcp.gxid /\ f.pcb
  BY <1>4, <1>5, Zenon DEF ClientRecord
<1>. HIDE DEF f
<1>8. UsedOK(fresh) /\ UsedOK(f) /\ LeaseOK(f, leaseLeft)
  BY <1>5, <1>7, Zenon DEF UsedOK, LeaseOK, Holding
<1>9. Sent(found, f, "SELECTING", "DISCOVER", mem)
  BY <1>6, SendingFunctions
<1>. HIDE DEF found
<1>10. Good(c, leaseLeft, badOffer, granted, starved) /\ Linked(c)
  <2>1. CASE ~pcb
    BY <1>1, <1>4, <1>5, <1>8, <2>1, OffGood
  <2>2. CASE pcb /\ mem
    <3>1. found.gxid # dhcp.gxid /\ found.xid = found.gxid
      BY <1>7, <1>9, <2>2, Zenon DEF Sent
    <3>2. Good(found, leaseLeft, badOffer, granted, starved)
      <4>1. "SELECTING" \notin {"OFF", "BOUND", "CHECKING"} /\ "SELECTING" \notin Holding
        BY DEF Holding
      <4>. QED
        BY <1>1, <1>6, <1>7, <1>8, <1>9, <3>1, <4>1, SentGood
    <3>. QED
      BY <2>2, <3>1, <3>2, Zenon DEF Linked
  <2>3. CASE pcb /\ ~mem
    <3>1. found \in ClientRecord /\ UsedOK(found)
      BY <1>8, <1>9, Zenon DEF Sent, UsedOK, SameTimes
    <3>2. c = dhcp_stop(found)
      BY <2>3
    <3>. HIDE DEF c
    <3>. QED
      BY <1>1, <3>1, <3>2, StopFacts, OffGood
  <2>. QED
    BY <2>1, <2>2, <2>3
<1>11. ClientStep(c)
  BY Zenon DEF dhcp_start, fresh, f, found
<1>. HIDE DEF c
<1>. QED
  BY <1>10, <1>11, FromClient DEF ClientStep

\* dhcp_release_and_stop called from outside.
LEMMA ReleaseStep ==
  ASSUME DhcpInv, NEW mem \in BOOLEAN, ReleaseCalled(mem)
  PROVE  DhcpInv'
<1>. DEFINE c == dhcp_release(dhcp, mem)
<1>1. dhcp \in ClientRecord /\ leaseLeft \in Int /\ leaseLeft >= -1
  BY DEF DhcpInv, Good
<1>2. Released(c, dhcp)
  BY <1>1, ReleaseFacts
<1>3. ClientStep(c)
  BY DEF ReleaseCalled
<1>. HIDE DEF c
<1>4. c \in ClientRecord /\ c.state = "OFF" /\ UsedOK(c)
  BY <1>2, Zenon DEF Released, UsedOK
<1>5. Good(c, leaseLeft, badOffer, granted, starved) /\ Linked(c)
  BY <1>1, <1>4, OffGood
<1>. QED
  BY <1>3, <1>5, FromClient DEF ClientStep

\* dhcp_stop.
LEMMA StopStep ==
  ASSUME DhcpInv, StopCalled
  PROVE  DhcpInv'
<1>. DEFINE c == dhcp_stop(dhcp)
<1>1. dhcp \in ClientRecord /\ UsedOK(dhcp) /\ leaseLeft \in Int /\ leaseLeft >= -1
  BY DEF DhcpInv, Good
<1>2. c \in ClientRecord /\ c.state = "OFF" /\ UsedOK(c)
  BY <1>1, StopFacts
<1>3. ClientStep(c)
  BY DEF StopCalled
<1>. HIDE DEF c
<1>4. Good(c, leaseLeft, badOffer, granted, starved) /\ Linked(c)
  BY <1>1, <1>2, OffGood
<1>. QED
  BY <1>3, <1>4, FromClient DEF ClientStep

\* dhcp_network_changed.
LEMMA NetworkChangedStep ==
  ASSUME DhcpInv, NEW mem \in BOOLEAN, dhcp_network_changed(mem)
  PROVE  DhcpInv'
<1>. DEFINE a == [dhcp EXCEPT !.tries = 0]
            again == dhcp.state \in {"REBINDING", "RENEWING", "BOUND", "REBOOTING"}
            c == IF again THEN dhcp_reboot(a, mem) ELSE dhcp_discover(a, mem)
<1>1. dhcp.state # "OFF" /\ ClientStep(c)
  BY Zenon DEF dhcp_network_changed
<1>2. dhcp \in ClientRecord
  BY DEF DhcpInv, Good
<1>3. SameButTimer(a, dhcp)
  BY <1>2, TimerReset
<1>. HIDE DEF a
<1>4. a \in ClientRecord
  BY <1>3 DEF SameButTimer
<1>5. Good(c, leaseLeft, badOffer, granted, starved) /\ Linked(c)
  <2>1. CASE again
    <3>1. dhcp.state \in Holding
      BY <2>1 DEF Holding
    <3>2. Sent(c, a, "REBOOTING", "REQUEST", mem)
      BY <1>4, <2>1, SendingFunctions
    <3>. HIDE DEF c
    <3>. QED
      BY <1>1, <1>3, <3>1, <3>2, ActiveSends
  <2>2. CASE ~again
    <3>1. Sent(c, a, "SELECTING", "DISCOVER", mem)
      BY <1>4, <2>2, SendingFunctions
    <3>2. "SELECTING" \notin Holding
      BY DEF Holding
    <3>. HIDE DEF c
    <3>. QED
      BY <1>1, <1>3, <3>1, <3>2, ActiveSends
  <2>. QED
    BY <2>1, <2>2
<1>. HIDE DEF c
<1>. QED
  BY <1>1, <1>5, FromClient DEF ClientStep

\* dhcp_arp_reply.
LEMMA ArpReplyStep ==
  ASSUME DhcpInv, NEW mem \in BOOLEAN, dhcp_arp_reply(mem)
  PROVE  DhcpInv'
<1>. DEFINE c == dhcp_decline(dhcp, mem)
<1>1. dhcp.state # "OFF" /\ ClientStep(c)
  BY DEF dhcp_arp_reply
<1>2. dhcp \in ClientRecord
  BY DEF DhcpInv, Good
<1>3. SameButTimer(dhcp, dhcp)
  BY <1>2 DEF SameButTimer, SameTimes
<1>4. Sent(c, dhcp, "BACKING_OFF", "DECLINE", mem)
  BY <1>2, SendingFunctions
<1>. HIDE DEF c
<1>5. "BACKING_OFF" \notin Holding
  BY DEF Holding
<1>6. Good(c, leaseLeft, badOffer, granted, starved) /\ Linked(c)
  BY <1>1, <1>3, <1>4, <1>5, ActiveSends
<1>. QED
  BY <1>1, <1>6, FromClient DEF ClientStep

\* A release followed by a new discovery, for a client whose address no message gave back.
LEMMA ReleaseAndDiscover ==
  ASSUME NEW c \in ClientRecord, c.pcb, c.xid = c.gxid, NEW mem \in BOOLEAN, NEW mem2 \in BOOLEAN,
         NEW left \in Int, left >= -1, NEW bad, NEW gr, NEW st
  PROVE  LET q == dhcp_release(c, mem)
             r == dhcp_discover(q, mem2)
         IN /\ Released(q, c) /\ Sent(r, q, "SELECTING", "DISCOVER", mem2)
            /\ Good(r, left, bad, gr, st)
<1>. DEFINE q == dhcp_release(c, mem)
            r == dhcp_discover(q, mem2)
<1>1. Released(q, c)
  BY ReleaseFacts
<1>. HIDE DEF q
<1>2. q \in ClientRecord
  BY <1>1 DEF Released
<1>3. Sent(r, q, "SELECTING", "DISCOVER", mem2)
  BY <1>2, SendingFunctions
<1>. HIDE DEF r
<1>4. UsedOK(q) /\ LeaseOK(q, left) /\ q.pcb /\ q.xid = q.gxid
  BY <1>1, Zenon DEF Released, UsedOK, LeaseOK, Holding
<1>5. r.xid = r.gxid
  BY <1>3, <1>4, Zenon DEF Sent
<1>6. "SELECTING" \notin {"OFF", "BOUND", "CHECKING"} /\ "SELECTING" \notin Holding
  BY DEF Holding
<1>7. Good(r, left, bad, gr, st)
  BY <1>2, <1>3, <1>4, <1>5, <1>6, SentGood
<1>. QED
  BY <1>1, <1>3, <1>7 DEF q, r

\* dhcp_fine_tmr: what dhcp_timeout does in each state.
LEMMA FineStep ==
  ASSUME DhcpInv, NEW mem \in BOOLEAN, NEW mem2 \in BOOLEAN, dhcp_fine_tmr(mem, mem2)
  PROVE  DhcpInv'
<1>. DEFINE a == [dhcp EXCEPT !.armed = FALSE]
            c == dhcp_timeout(a, mem, mem2)
<1>1. dhcp.armed /\ ClientBecomes(c) /\ Exchange(c) /\ LeaseFrom(c) /\ UNCHANGED <<toClient, badOffer>>
  BY Zenon DEF dhcp_fine_tmr
<1>2. dhcp \in ClientRecord
  BY DEF DhcpInv, Good
<1>3. SameButTimer(a, dhcp)
  BY <1>2, TimerReset
<1>. HIDE DEF a
<1>4. a \in ClientRecord /\ a.state = dhcp.state
  BY <1>3 DEF SameButTimer
<1>5. dhcp.state # "BOUND"
  BY <1>1, Zenon DEF DhcpInv, Good
<1>. SUFFICES Good(c, leaseLeft', badOffer, granted, starved) /\ Linked(c)
  <2>. HIDE DEF c
  <2>. QED
    BY <1>1, FromClient
<1>6. CASE c.state # "BOUND" /\ Good(c, leaseLeft, badOffer, granted, starved) /\ Linked(c)
  <2>. HIDE DEF c
  <2>. QED
    BY <1>1, <1>6, Zenon DEF LeaseFrom
<1>7. CASE dhcp.state \in {"BACKING_OFF", "SELECTING"}
  <2>1. c = dhcp_discover(a, mem)
    BY <1>4, <1>7 DEF dhcp_timeout
  <2>2. Sent(c, a, "SELECTING", "DISCOVER", mem)
    BY <1>4, <2>1, SendingFunctions
  <2>3. "SELECTING" \notin Holding
    BY DEF Holding
  <2>. HIDE DEF c
  <2>4. Good(c, leaseLeft, badOffer, granted, starved) /\ Linked(c) /\ c.state # "BOUND"
    BY <1>3, <1>7, <2>2, <2>3, ActiveSends DEF Sent
  <2>. QED
    BY <1>6, <2>4 DEF c
<1>8. CASE dhcp.state = "REQUESTING" /\ a.tries <= REQUEST_TRIES
  <2>1. c = dhcp_select(a, mem)
    <3>1. ~(a.tries > REQUEST_TRIES)
      BY <1>4, <1>8, DhcpAssumption DEF ClientRecord
    <3>. QED
      BY <1>4, <1>8, <3>1 DEF dhcp_timeout
  <2>2. Sent(c, a, "REQUESTING", "REQUEST", mem)
    BY <1>4, <2>1, SendingFunctions
  <2>3. "REQUESTING" \notin Holding
    BY DEF Holding
  <2>. HIDE DEF c
  <2>4. Good(c, leaseLeft, badOffer, granted, starved) /\ Linked(c) /\ c.state # "BOUND"
    BY <1>3, <1>8, <2>2, <2>3, ActiveSends DEF Sent
  <2>. QED
    BY <1>6, <2>4 DEF c
<1>9. CASE dhcp.state = "REQUESTING" /\ ~(a.tries <= REQUEST_TRIES)
  <2>. DEFINE q == dhcp_release(a, mem)
  <2>1. c = dhcp_discover(q, mem2)
    <3>1. a.tries > REQUEST_TRIES
      BY <1>4, <1>9, DhcpAssumption DEF ClientRecord
    <3>. QED
      BY <1>4, <1>9, <3>1 DEF dhcp_timeout
  <2>2. /\ leaseLeft \in Int /\ leaseLeft >= -1 /\ a.pcb /\ a.xid = a.gxid /\ a.out = {}
        /\ a.gxid = dhcp.gxid /\ a.xid = dhcp.xid
    BY <1>3, <1>9, ActiveClient, Zenon DEF SameButTimer
  <2>3. /\ Released(q, a) /\ Sent(c, q, "SELECTING", "DISCOVER", mem2)
        /\ Good(c, leaseLeft, badOffer, granted, starved)
    BY <1>4, <2>1, <2>2, ReleaseAndDiscover
  <2>. HIDE DEF c, q
  <2>4. ~dhcp_supplied_address(a)
    BY <1>4, <1>9 DEF dhcp_supplied_address
  <2>5. q \in ClientRecord /\ q.gxid = dhcp.gxid /\ q.xid = dhcp.xid /\ q.out = {}
    BY <2>2, <2>3, <2>4, Zenon DEF Released
  <2>6. Linked(c) /\ c.state # "BOUND"
    BY <1>9, <2>3, <2>5, SentLinked DEF Sent
  <2>. QED
    BY <1>6, <2>3, <2>6 DEF c
<1>10. CASE dhcp.state = "CHECKING" /\ a.tries <= 1
  <2>1. c = dhcp_check(a)
    <3>1. ~(a.tries > 1)
      BY <1>4, <1>10, DhcpAssumption DEF ClientRecord
    <3>. QED
      BY <1>4, <1>10, <3>1 DEF dhcp_timeout
  <2>2. Probed(c, a)
    BY <1>4, <2>1, CheckFacts
  <2>. HIDE DEF c
  <2>3. /\ leaseLeft \in Int /\ leaseLeft >= -1 /\ UsedOK(dhcp) /\ dhcp.pcb /\ LeaseOK(dhcp, leaseLeft)
        /\ dhcp.xid = dhcp.gxid
    BY <1>10, ActiveClient
  <2>4. UsedOK(a) /\ a.pcb /\ a.xid = a.gxid /\ LeaseOK(a, leaseLeft) /\ (a.offered \in granted \/ starved)
    BY <1>3, <1>10, <2>3, Zenon DEF SameButTimer, SameTimes, UsedOK, LeaseOK, Runs, DhcpInv, Good
  <2>5. Good(c, leaseLeft, badOffer, granted, starved)
    BY <1>4, <2>2, <2>3, <2>4, ProbedGood
  <2>6. Linked(c) /\ c.state # "BOUND"
    BY <1>3, <1>10, <2>2, Zenon DEF SameButTimer, Probed, Linked, Begins, FirstTry
  <2>. QED
    BY <1>6, <2>5, <2>6 DEF c
<1>11. CASE dhcp.state = "CHECKING" /\ ~(a.tries <= 1)
  <2>1. c = dhcp_bind(a)
    <3>1. a.tries > 1
      BY <1>4, <1>11, DhcpAssumption DEF ClientRecord
    <3>. QED
      BY <1>4, <1>11, <3>1 DEF dhcp_timeout
  <2>2. Taken(c, a)
    BY <1>4, <1>5, <2>1, BindFacts
  <2>. HIDE DEF c
  <2>3. UsedOK(dhcp) /\ dhcp.pcb /\ dhcp.xid = dhcp.gxid
    BY <1>11, ActiveClient
  <2>4. UsedOK(a) /\ a.pcb /\ a.xid = a.gxid /\ (a.offered \in granted \/ starved)
    BY <1>3, <1>11, <2>3, Zenon DEF SameButTimer, SameTimes, UsedOK, DhcpInv, Good
  <2>5. leaseLeft' = IF c.lease.t0 = 0 THEN -1 ELSE c.lease.t0
    BY <1>1, <2>2 DEF LeaseFrom, Taken
  <2>6. Good(c, leaseLeft', badOffer, granted, starved)
    BY <1>4, <2>2, <2>4, <2>5, TakenGood
  <2>7. Linked(c)
    BY <1>3, <1>11, <2>2, Zenon DEF SameButTimer, Taken, Linked, Begins, FirstTry
  <2>. QED
    BY <2>6, <2>7 DEF c
<1>12. CASE dhcp.state = "REBOOTING" /\ a.tries < REBOOT_TRIES
  <2>1. c = dhcp_reboot(a, mem)
    <3>1. ~(a.tries >= REBOOT_TRIES)
      BY <1>4, <1>12, DhcpAssumption DEF ClientRecord
    <3>. QED
      BY <1>4, <1>12, <3>1 DEF dhcp_timeout
  <2>2. Sent(c, a, "REBOOTING", "REQUEST", mem)
    BY <1>4, <2>1, SendingFunctions
  <2>. HIDE DEF c
  <2>3. Good(c, leaseLeft, badOffer, granted, starved) /\ Linked(c) /\ c.state # "BOUND"
    BY <1>3, <1>12, <2>2, ActiveSends DEF Sent
  <2>. QED
    BY <1>6, <2>3 DEF c
<1>13. CASE dhcp.state = "REBOOTING" /\ ~(a.tries < REBOOT_TRIES)
  <2>1. c = dhcp_discover(a, mem)
    <3>1. a.tries >= REBOOT_TRIES
      BY <1>4, <1>13, DhcpAssumption DEF ClientRecord
    <3>. QED
      BY <1>4, <1>13, <3>1 DEF dhcp_timeout
  <2>2. Sent(c, a, "SELECTING", "DISCOVER", mem)
    BY <1>4, <2>1, SendingFunctions
  <2>3. "SELECTING" \notin Holding
    BY DEF Holding
  <2>. HIDE DEF c
  <2>4. Good(c, leaseLeft, badOffer, granted, starved) /\ Linked(c) /\ c.state # "BOUND"
    BY <1>3, <1>13, <2>2, <2>3, ActiveSends DEF Sent
  <2>. QED
    BY <1>6, <2>4 DEF c
<1>14. CASE dhcp.state \in {"OFF", "RENEWING", "REBINDING"}
  <2>1. c = a
    BY <1>4, <1>14 DEF dhcp_timeout
  <2>2. /\ leaseLeft \in Int /\ leaseLeft >= -1 /\ UsedOK(dhcp)
        /\ dhcp.state # "OFF" => dhcp.pcb /\ dhcp.xid = dhcp.gxid /\ LeaseOK(dhcp, leaseLeft)
    BY DEF DhcpInv, Good
  <2>3. UsedOK(a) /\ (LeaseOK(dhcp, leaseLeft) => LeaseOK(a, leaseLeft))
    BY <1>3, <2>2, Zenon DEF SameButTimer, SameTimes, UsedOK, LeaseOK, Runs
  <2>4. Good(a, leaseLeft, badOffer, granted, starved)
    BY <1>3, <1>14, <2>2, <2>3, Zenon DEF SameButTimer, Good, Waiting
  <2>5. Linked(a) /\ a.state # "BOUND"
    BY <1>3, <1>14, Zenon DEF SameButTimer, Linked, Begins, FirstTry
  <2>. QED
    BY <1>6, <2>1, <2>4, <2>5
<1>15. dhcp.state \in DhcpStates
  BY <1>2 DEF ClientRecord
<1>. HIDE DEF c
<1>. QED
  BY <1>5, <1>7, <1>8, <1>9, <1>10, <1>11, <1>12, <1>13, <1>14, <1>15, Zenon DEF DhcpStates

\* A tick of the coarse timer clears the network: what is left to show is that the client is good.
LEMMA FromCoarse ==
  ASSUME DhcpInv, NEW c, Good(c, leaseLeft', badOffer, granted, starved), Exchange(c),
         dhcp' = [c EXCEPT !.out = {}], toServer' = {m \in c.out : m.type \in Answered}, toClient' = {},
         badOffer' = badOffer
  PROVE  DhcpInv'
<1>1. c \in ClientRecord
  BY DEF Good
<1>2. Good(dhcp', leaseLeft', badOffer', granted', starved')
  BY ExchangeKeeps
<1>3. dhcp'.out = {}
  BY <1>1, Zenon DEF ClientRecord
<1>4. toServer' \subseteq Msg /\ (\A m \in toServer' : m.type \in Answered)
  <2>1. c.out \in SUBSET Msg
    BY <1>1 DEF ClientRecord
  <2>. QED
    BY <2>1, Zenon
<1>5. toClient' \subseteq ReplyMsg /\ LeaseAcked'
  BY DEF LeaseAcked
<1>. QED
  BY <1>2, <1>3, <1>4, <1>5 DEF DhcpInv

\* One tick later than the client d, with the counters not yet acted upon.
Ticked(c, d) ==
  /\ c \in ClientRecord
  /\ c.state = d.state /\ c.armed = d.armed /\ c.pcb = d.pcb /\ c.xid = d.xid /\ c.gxid = d.gxid
  /\ c.ip = d.ip /\ c.offered = d.offered /\ c.out = d.out /\ c.t0_timeout = d.t0_timeout
  /\ c.lease_used = IF d.t0_timeout # 0 THEN d.lease_used + 1 ELSE d.lease_used
  /\ d.t1_renew_time = 0 => c.t1_renew_time = 0
  /\ d.t2_rebind_time = 0 => c.t2_rebind_time = 0

\* A tick that does not end the lease leaves a good client, one tick nearer to the end of its lease.
LEMMA TickedGood ==
  ASSUME DhcpInv, NEW c, Ticked(c, dhcp), ~(dhcp.t0_timeout # 0 /\ c.lease_used = dhcp.t0_timeout),
         NEW left, left = IF leaseLeft > 0 THEN leaseLeft - 1 ELSE leaseLeft
  PROVE  /\ Good(c, left, badOffer, granted, starved)
         /\ Runs(dhcp, leaseLeft) => Runs(c, left)
<1>1. /\ dhcp \in ClientRecord /\ leaseLeft \in Int /\ leaseLeft >= -1 /\ UsedOK(dhcp)
      /\ dhcp.state # "OFF" => LeaseOK(dhcp, leaseLeft)
  BY DEF DhcpInv, Good
<1>2. dhcp.t0_timeout \in Nat /\ dhcp.lease_used \in Nat
  BY <1>1 DEF ClientRecord
<1>3. left \in Int /\ left >= -1
  BY <1>1
<1>4. c.t0_timeout = dhcp.t0_timeout /\ c.lease_used = IF dhcp.t0_timeout # 0 THEN dhcp.lease_used + 1 ELSE dhcp.lease_used
  BY DEF Ticked
<1>5. UsedOK(c)
  BY <1>1, <1>2, <1>4 DEF UsedOK
<1>6. Runs(dhcp, leaseLeft) => Runs(c, left)
  BY <1>1, <1>2, <1>4 DEF Runs, UsedOK
<1>7. LeaseOK(dhcp, leaseLeft) => LeaseOK(c, left)
  BY <1>6, Zenon DEF LeaseOK, Ticked
<1>. QED
  BY <1>1, <1>3, <1>5, <1>6, <1>7, Zenon DEF Good, Ticked, DhcpInv

\* Setting the time of the next renewal keeps a good client that holds its address.
LEMMA Rescheduled ==
  ASSUME NEW r, NEW left, NEW bad, NEW gr, NEW st, Good(r, left, bad, gr, st),
         r.state \in {"RENEWING", "REBINDING"}, NEW h \in Int
  PROVE  /\ Good([r EXCEPT !.t1_renew_time = h], left, bad, gr, st)
         /\ Good([r EXCEPT !.t2_rebind_time = h], left, bad, gr, st)
<1>1. r \in ClientRecord /\ left \in Int /\ left >= -1 /\ UsedOK(r) /\ r.pcb /\ r.xid = r.gxid
  BY DEF Good
<1>2. r.ip # ANY => Runs(r, left)
  BY Zenon DEF Good, LeaseOK, Holding
<1>3. ASSUME NEW e \in ClientRecord, e.state = r.state, e.pcb = r.pcb, e.xid = r.xid, e.gxid = r.gxid, e.ip = r.ip,
             e.t0_timeout = r.t0_timeout, e.lease_used = r.lease_used
      PROVE  Good(e, left, bad, gr, st)
  <2>1. UsedOK(e) /\ LeaseOK(e, left)
    BY <1>1, <1>2, <1>3, Zenon DEF UsedOK, LeaseOK, Runs
  <2>. QED
    BY <1>1, <1>3, <2>1, Zenon DEF Good, Waiting
<1>4. Good([r EXCEPT !.t1_renew_time = h], left, bad, gr, st)
  <2>. DEFINE e == [r EXCEPT !.t1_renew_time = h]
  <2>1. e \in ClientRecord
    BY <1>1, Zenon DEF ClientRecord
  <2>2. /\ e.state = r.state /\ e.pcb = r.pcb /\ e.xid = r.xid /\ e.gxid = r.gxid /\ e.ip = r.ip
        /\ e.t0_timeout = r.t0_timeout /\ e.lease_used = r.lease_used
    BY <1>1, Zenon DEF ClientRecord
  <2>. HIDE DEF e
  <2>3. Good(e, left, bad, gr, st)
    BY <1>3, <2>1, <2>2
  <2>. QED
    BY <2>3 DEF e
<1>5. Good([r EXCEPT !.t2_rebind_time = h], left, bad, gr, st)
  <2>. DEFINE e == [r EXCEPT !.t2_rebind_time = h]
  <2>1. e \in ClientRecord
    BY <1>1, Zenon DEF ClientRecord
  <2>2. /\ e.state = r.state /\ e.pcb = r.pcb /\ e.xid = r.xid /\ e.gxid = r.gxid /\ e.ip = r.ip
        /\ e.t0_timeout = r.t0_timeout /\ e.lease_used = r.lease_used
    BY <1>1, Zenon DEF ClientRecord
  <2>. HIDE DEF e
  <2>3. Good(e, left, bad, gr, st)
    BY <1>3, <2>1, <2>2
  <2>. QED
    BY <2>3 DEF e
<1>. QED
  BY <1>4, <1>5

\* Half of the time left is a number.
LEMMA HalvedIsInt ==
  ASSUME NEW end \in Nat, NEW used \in Nat, NEW old \in Int
  PROVE  Halved(end, used, old) \in Int
<1>1. \A n \in Int : n \div 2 \in Int
  BY Z3
<1>2. end - used \in Int
  OBVIOUS
<1>. QED
  BY <1>1, <1>2, Zenon DEF Halved

\* dhcp_coarse_tmr: the end of the lease, then rebinding, then renewing.
LEMMA CoarseStep ==
  ASSUME DhcpInv, NEW mem \in BOOLEAN, NEW mem2 \in BOOLEAN, dhcp_coarse_tmr(mem, mem2)
  PROVE  DhcpInv'
<1>. DEFINE n == dhcp.lease_used + 1
            u == IF dhcp.t0_timeout # 0 THEN [dhcp EXCEPT !.lease_used = n] ELSE dhcp
            t2 == IF u.t2_rebind_time = 0 THEN 0 ELSE u.t2_rebind_time - 1
            v == [u EXCEPT !.t2_rebind_time = t2]
            t1 == IF v.t1_renew_time = 0 THEN 0 ELSE v.t1_renew_time - 1
            w == [v EXCEPT !.t1_renew_time = t1]
            ended == dhcp.t0_timeout # 0 /\ u.lease_used = dhcp.t0_timeout
            c == Coarse(dhcp, mem, mem2)
<1>1. /\ dhcp \in ClientRecord /\ leaseLeft \in Int /\ leaseLeft >= -1 /\ UsedOK(dhcp)
      /\ Good(dhcp, leaseLeft, badOffer, granted, starved)
  BY DEF DhcpInv, Good
<1>2. n \in Nat
  BY <1>1 DEF ClientRecord
<1>3. /\ dhcp.state = "OFF" => c = dhcp
      /\ dhcp.state # "OFF" /\ ended => c = dhcp_discover(dhcp_release(u, mem), mem2)
      /\ dhcp.state # "OFF" /\ ~ended =>
           c = IF dhcp.t2_rebind_time = 1 THEN dhcp_t2_timeout(v, mem)
               ELSE IF dhcp.t1_renew_time = 1 THEN dhcp_t1_timeout(w, mem) ELSE w
  BY Zenon DEF Coarse
<1>. HIDE DEF n
<1>4. Ticked(u, dhcp)
  <2>1. CASE dhcp.t0_timeout # 0
    <3>1. u = [dhcp EXCEPT !.lease_used = n]
      BY <2>1
    <3>. HIDE DEF u
    <3>2. u \in ClientRecord
      BY <1>1, <1>2, <3>1, Zenon DEF ClientRecord
    <3>3. /\ u.state = dhcp.state /\ u.armed = dhcp.armed /\ u.pcb = dhcp.pcb /\ u.xid = dhcp.xid
          /\ u.gxid = dhcp.gxid /\ u.ip = dhcp.ip /\ u.offered = dhcp.offered /\ u.out = dhcp.out
          /\ u.t0_timeout = dhcp.t0_timeout /\ u.t1_renew_time = dhcp.t1_renew_time
          /\ u.t2_rebind_time = dhcp.t2_rebind_time /\ u.lease_used = n
      BY <1>1, <3>1, Zenon DEF ClientRecord
    <3>. QED
      BY <2>1, <3>2, <3>3, Zenon DEF Ticked, n
  <2>2. CASE dhcp.t0_timeout = 0
    <3>1. u = dhcp
      BY <2>2
    <3>. HIDE DEF u
    <3>. QED
      BY <1>1, <2>2, <3>1, Zenon DEF Ticked
  <2>. QED
    BY <2>1, <2>2
<1>. HIDE DEF u
<1>5. u \in ClientRecord
  BY <1>4 DEF Ticked
<1>6. t2 \in Int /\ (u.t2_rebind_time = 0 => t2 = 0)
  BY <1>5 DEF ClientRecord
<1>. HIDE DEF t2
<1>7. v \in ClientRecord /\ v.lease_used = u.lease_used /\ Ticked(v, dhcp)
  <2>1. v \in ClientRecord
    BY <1>5, <1>6, Zenon DEF ClientRecord
  <2>2. /\ v.state = u.state /\ v.armed = u.armed /\ v.pcb = u.pcb /\ v.xid = u.xid
        /\ v.gxid = u.gxid /\ v.ip = u.ip /\ v.offered = u.offered /\ v.out = u.out
        /\ v.t0_timeout = u.t0_timeout /\ v.t1_renew_time = u.t1_renew_time
        /\ v.t2_rebind_time = t2 /\ v.lease_used = u.lease_used
    BY <1>5, Zenon DEF ClientRecord
  <2>. HIDE DEF v
  <2>. QED
    BY <1>4, <1>6, <2>1, <2>2, Zenon DEF Ticked
<1>. HIDE DEF v
<1>8. t1 \in Int /\ (v.t1_renew_time = 0 => t1 = 0)
  BY <1>7 DEF ClientRecord
<1>. HIDE DEF t1
<1>9. w \in ClientRecord /\ w.lease_used = v.lease_used /\ Ticked(w, dhcp)
  <2>1. w \in ClientRecord
    BY <1>7, <1>8, Zenon DEF ClientRecord
  <2>2. /\ w.state = v.state /\ w.armed = v.armed /\ w.pcb = v.pcb /\ w.xid = v.xid
        /\ w.gxid = v.gxid /\ w.ip = v.ip /\ w.offered = v.offered /\ w.out = v.out
        /\ w.t0_timeout = v.t0_timeout /\ w.t1_renew_time = t1
        /\ w.t2_rebind_time = v.t2_rebind_time /\ w.lease_used = v.lease_used
    BY <1>7, Zenon DEF ClientRecord
  <2>. HIDE DEF w
  <2>. QED
    BY <1>7, <1>8, <2>1, <2>2, Zenon DEF Ticked
<1>. HIDE DEF w, c
<1>10. leaseLeft' = IF leaseLeft > 0 THEN leaseLeft - 1 ELSE leaseLeft
  BY DEF dhcp_coarse_tmr
<1>11. leaseLeft' \in Int /\ leaseLeft' >= -1
  BY <1>1, <1>10
<1>12. CASE dhcp.state = "OFF"
  <2>1. Good(dhcp, leaseLeft', badOffer, granted, starved)
    BY <1>1, <1>11, <1>12, OffGood
  <2>2. c = dhcp
    BY <1>3, <1>12
  <2>. QED
    BY <2>1, <2>2, FromCoarse, Zenon DEF dhcp_coarse_tmr, c
<1>13. CASE dhcp.state # "OFF" /\ ended
  <2>1. u.pcb /\ u.xid = u.gxid
    BY <1>4, <1>13, ActiveClient, Zenon DEF Ticked
  <2>2. Good(c, leaseLeft', badOffer, granted, starved)
    BY <1>3, <1>5, <1>11, <1>13, <2>1, ReleaseAndDiscover
  <2>. QED
    BY <2>2, FromCoarse, Zenon DEF dhcp_coarse_tmr, c
<1>14. CASE dhcp.state # "OFF" /\ ~ended
  <2>1. /\ ~(dhcp.t0_timeout # 0 /\ v.lease_used = dhcp.t0_timeout)
        /\ ~(dhcp.t0_timeout # 0 /\ w.lease_used = dhcp.t0_timeout)
    BY <1>7, <1>9, <1>14
  <2>2. /\ Good(v, leaseLeft', badOffer, granted, starved)
        /\ Runs(dhcp, leaseLeft) => Runs(v, leaseLeft')
    BY <1>7, <1>10, <2>1, TickedGood
  <2>3. /\ Good(w, leaseLeft', badOffer, granted, starved)
        /\ Runs(dhcp, leaseLeft) => Runs(w, leaseLeft')
    BY <1>9, <1>10, <2>1, TickedGood
  <2>4. v.state # "OFF" /\ w.state # "OFF" /\ v.ip = dhcp.ip /\ w.ip = dhcp.ip
    BY <1>7, <1>9, <1>14, Zenon DEF Ticked
  <2>5. dhcp.ip # ANY /\ (dhcp.t1_renew_time # 0 \/ dhcp.t2_rebind_time # 0) => Runs(dhcp, leaseLeft)
    BY <1>14, ActiveClient, Zenon DEF LeaseOK
  <2>6. ASSUME NEW x \in ClientRecord, NEW r, NEW s \in {"RENEWING", "REBINDING"},
               Good(x, leaseLeft', badOffer, granted, starved),
               x.state # "OFF", x.ip # ANY => Runs(x, leaseLeft'), Sent(r, x, s, "REQUEST", mem)
        PROVE  Good(r, leaseLeft', badOffer, granted, starved)
    <3>1. UsedOK(x) /\ x.pcb /\ x.xid = x.gxid /\ LeaseOK(x, leaseLeft')
      BY <2>6, Zenon DEF Good
    <3>2. r.xid = r.gxid
      BY <2>6, <3>1, Zenon DEF Sent
    <3>3. s \notin {"OFF", "BOUND", "CHECKING"}
      OBVIOUS
    <3>. QED
      BY <1>11, <2>6, <3>1, <3>2, <3>3, SentGood
  <2>7. dhcp.t2_rebind_time = 1 => Good(dhcp_t2_timeout(v, mem), leaseLeft', badOffer, granted, starved)
    <3>. SUFFICES ASSUME dhcp.t2_rebind_time = 1
                  PROVE  Good(dhcp_t2_timeout(v, mem), leaseLeft', badOffer, granted, starved)
      OBVIOUS
    <3>. DEFINE r == dhcp_rebind(v, mem)
                h == Halved(v.t0_timeout, v.lease_used, r.t2_rebind_time)
    <3>1. Sent(r, v, "REBINDING", "REQUEST", mem)
      BY <1>7, SendingFunctions
    <3>2. dhcp_t2_timeout(v, mem) =
            IF v.state \in {"REQUESTING", "BOUND", "RENEWING", "REBINDING"} THEN [r EXCEPT !.t2_rebind_time = h] ELSE v
      BY Zenon DEF dhcp_t2_timeout
    <3>. HIDE DEF r
    <3>3. dhcp.t2_rebind_time # 0
      OBVIOUS
    <3>4. v.ip # ANY => Runs(v, leaseLeft')
      BY <2>2, <2>4, <2>5, <3>3
    <3>5. Good(r, leaseLeft', badOffer, granted, starved) /\ r.state = "REBINDING"
      BY <1>7, <2>2, <2>4, <2>6, <3>1, <3>4 DEF Sent
    <3>6. h \in Int
      <4>1. v.t0_timeout \in Nat /\ v.lease_used \in Nat
        BY <1>7 DEF ClientRecord
      <4>2. r.t2_rebind_time \in Int
        BY <3>5 DEF Good, ClientRecord
      <4>. QED
        BY <4>1, <4>2, HalvedIsInt
    <3>. HIDE DEF h
    <3>7. Good([r EXCEPT !.t2_rebind_time = h], leaseLeft', badOffer, granted, starved)
      BY <3>5, <3>6, Rescheduled
    <3>. QED
      BY <2>2, <3>2, <3>7, Zenon
  <2>8. dhcp.t1_renew_time = 1 => Good(dhcp_t1_timeout(w, mem), leaseLeft', badOffer, granted, starved)
    <3>. SUFFICES ASSUME dhcp.t1_renew_time = 1
                  PROVE  Good(dhcp_t1_timeout(w, mem), leaseLeft', badOffer, granted, starved)
      OBVIOUS
    <3>. DEFINE r == dhcp_renew(w, mem)
                h == Halved(w.t2_timeout, w.lease_used, r.t1_renew_time)
    <3>1. Sent(r, w, "RENEWING", "REQUEST", mem)
      BY <1>9, SendingFunctions
    <3>2. dhcp_t1_timeout(w, mem) =
            IF w.state \in {"REQUESTING", "BOUND", "RENEWING"} THEN [r EXCEPT !.t1_renew_time = h] ELSE w
      BY Zenon DEF dhcp_t1_timeout
    <3>. HIDE DEF r
    <3>3. dhcp.t1_renew_time # 0
      OBVIOUS
    <3>4. w.ip # ANY => Runs(w, leaseLeft')
      BY <2>3, <2>4, <2>5, <3>3
    <3>5. Good(r, leaseLeft', badOffer, granted, starved) /\ r.state = "RENEWING"
      BY <1>9, <2>3, <2>4, <2>6, <3>1, <3>4 DEF Sent
    <3>6. h \in Int
      <4>1. w.t2_timeout \in Nat /\ w.lease_used \in Nat
        BY <1>9 DEF ClientRecord
      <4>2. r.t1_renew_time \in Int
        BY <3>5 DEF Good, ClientRecord
      <4>. QED
        BY <4>1, <4>2, HalvedIsInt
    <3>. HIDE DEF h
    <3>7. Good([r EXCEPT !.t1_renew_time = h], leaseLeft', badOffer, granted, starved)
      BY <3>5, <3>6, Rescheduled
    <3>. QED
      BY <2>3, <3>2, <3>7, Zenon
  <2>9. Good(c, leaseLeft', badOffer, granted, starved)
    BY <1>3, <1>14, <2>3, <2>7, <2>8
  <2>. QED
    BY <2>9, FromCoarse, Zenon DEF dhcp_coarse_tmr, c
<1>. QED
  BY <1>12, <1>13, <1>14

\* dhcp_recv: what the client does with a message of its exchange.
LEMMA ReceiveStep ==
  ASSUME DhcpInv, NEW m \in toClient, NEW mem \in BOOLEAN, dhcp_recv(m, mem)
  PROVE  DhcpInv'
<1>. DEFINE c == Handled(dhcp, m, mem)
            h == dhcp_handle_ack(dhcp, m)
<1>1. /\ dhcp.pcb /\ m.xid = dhcp.xid /\ c # dhcp /\ ClientBecomes(c) /\ Exchange(c)
      /\ UNCHANGED toClient /\ badOffer' = (badOffer \/ (m.type = "OFFER" /\ ~m.server))
      /\ m.type = "ACK" => LeaseFrom(c)
      /\ m.type # "ACK" => leaseLeft' = leaseLeft
  BY Zenon DEF dhcp_recv, Accepts
<1>2. dhcp \in ClientRecord /\ m \in ReplyMsg
  BY DEF DhcpInv, Good
<1>3. m.addr \in DhcpAddrs /\ m.lease \in Times /\ m.type \in {"OFFER", "ACK", "NAK"}
  BY <1>2 DEF ReplyMsg
<1>4. /\ h \in ClientRecord
      /\ h.state = dhcp.state /\ h.pcb = dhcp.pcb /\ h.xid = dhcp.xid /\ h.gxid = dhcp.gxid
      /\ h.ip = dhcp.ip /\ h.out = dhcp.out /\ h.offered = m.addr
      /\ h.t0_timeout = dhcp.t0_timeout /\ h.lease_used = dhcp.lease_used
      /\ h.t1_renew_time = dhcp.t1_renew_time /\ h.t2_rebind_time = dhcp.t2_rebind_time
  BY <1>2, <1>3, Zenon DEF ClientRecord, dhcp_handle_ack
<1>5. m.type = "ACK" /\ dhcp.state # "OFF" => m.addr \in granted \/ starved
  BY <1>1, Zenon DEF DhcpInv, LeaseAcked
<1>6. dhcp.state # "OFF" =>
        /\ UsedOK(h) /\ h.pcb /\ h.xid = h.gxid /\ LeaseOK(h, leaseLeft)
        /\ leaseLeft \in Int /\ leaseLeft >= -1
  BY <1>4, ActiveClient, Zenon DEF UsedOK, LeaseOK, Runs
<1>. HIDE DEF h
<1>. SUFFICES Good(c, leaseLeft', badOffer', granted, starved) /\ Linked(c)
  <2>. HIDE DEF c
  <2>. QED
    BY <1>1, FromClient
<1>7. CASE m.type = "ACK" /\ dhcp.state = "REQUESTING"
  <2>1. c = dhcp_check(h)
    BY <1>7 DEF Handled, h
  <2>2. Probed(c, h)
    BY <1>4, <2>1, CheckFacts
  <2>. HIDE DEF c
  <2>3. leaseLeft' = leaseLeft
    BY <1>1, <1>7, <2>2, Zenon DEF LeaseFrom, Probed
  <2>4. Good(c, leaseLeft, badOffer', granted, starved)
    BY <1>4, <1>5, <1>6, <1>7, <2>2, ProbedGood
  <2>5. Linked(c)
    BY <1>4, <1>7, <2>2, Zenon DEF Probed, Linked, Begins, FirstTry
  <2>. QED
    BY <2>3, <2>4, <2>5 DEF c
<1>8. CASE m.type = "ACK" /\ dhcp.state \in {"REBOOTING", "REBINDING", "RENEWING"}
  <2>1. c = dhcp_bind(h)
    BY <1>8 DEF Handled, h
  <2>2. Taken(c, h)
    BY <1>4, <1>8, <2>1, BindFacts
  <2>. HIDE DEF c
  <2>3. leaseLeft' = IF c.lease.t0 = 0 THEN -1 ELSE c.lease.t0
    BY <1>1, <1>8, <2>2 DEF LeaseFrom, Taken
  <2>4. Good(c, leaseLeft', badOffer', granted, starved)
    BY <1>4, <1>5, <1>6, <1>8, <2>2, <2>3, TakenGood
  <2>5. Linked(c)
    BY <1>4, <1>8, <2>2, Zenon DEF Taken, Linked, Begins, FirstTry
  <2>. QED
    BY <2>4, <2>5 DEF c
<1>9. CASE m.type = "NAK" /\ dhcp.state \in {"REBOOTING", "REQUESTING", "REBINDING", "RENEWING"}
  <2>. DEFINE a == dhcp_set_state(dhcp, "BACKING_OFF")
              b == [a EXCEPT !.ip = ANY]
  <2>1. c = dhcp_discover(b, mem)
    BY <1>9, Zenon DEF Handled, dhcp_handle_nak
  <2>2. "BACKING_OFF" \in DhcpStates /\ ANY \in DhcpAddrs /\ "SELECTING" \notin Holding
    BY DEF DhcpStates, DhcpAddrs, Holding
  <2>3. /\ a \in ClientRecord /\ a.gxid = dhcp.gxid /\ a.out = dhcp.out /\ a.pcb = dhcp.pcb /\ a.xid = dhcp.xid
        /\ SameTimes(a, dhcp)
    BY <1>2, <2>2, SetStateFacts, Zenon
  <2>. HIDE DEF a
  <2>4. /\ b \in ClientRecord /\ b.gxid = a.gxid /\ b.out = a.out /\ b.pcb = a.pcb /\ b.xid = a.xid
        /\ SameTimes(b, a) /\ b.ip = ANY
    BY <2>2, <2>3, Zenon DEF ClientRecord, SameTimes
  <2>. HIDE DEF b
  <2>5. Sent(c, b, "SELECTING", "DISCOVER", mem)
    BY <2>1, <2>4, SendingFunctions
  <2>. HIDE DEF c
  <2>6. UsedOK(b) /\ b.pcb /\ LeaseOK(b, leaseLeft) /\ b.out = {} /\ b.gxid = dhcp.gxid /\ b.xid = dhcp.xid
    BY <1>1, <1>9, <2>3, <2>4, ActiveClient, Zenon DEF UsedOK, LeaseOK, SameTimes
  <2>7. Linked(c) /\ c.xid = c.gxid
    BY <1>9, <2>4, <2>5, <2>6, SentLinked
  <2>8. Good(c, leaseLeft, badOffer', granted, starved)
    BY <1>6, <1>9, <2>2, <2>4, <2>5, <2>6, <2>7, SentGood
  <2>. QED
    BY <1>1, <1>9, <2>7, <2>8 DEF c
<1>10. CASE m.type = "OFFER" /\ dhcp.state = "SELECTING"
  <2>. DEFINE o == [dhcp EXCEPT !.armed = FALSE]
              p == [o EXCEPT !.offered = m.addr]
  <2>1. c = IF m.server THEN dhcp_select(p, mem) ELSE o
    BY <1>10, Zenon DEF Handled
  <2>2. SameButTimer(o, dhcp)
    BY <1>2, TimerReset
  <2>. HIDE DEF o
  <2>3. o \in ClientRecord
    BY <2>2 DEF SameButTimer
  <2>4. /\ p \in ClientRecord /\ p.gxid = o.gxid /\ p.out = o.out /\ p.pcb = o.pcb /\ p.xid = o.xid
        /\ SameTimes(p, o) /\ p.ip = o.ip /\ p.state = o.state
    BY <1>3, <2>3, Zenon DEF ClientRecord, SameTimes
  <2>. HIDE DEF p
  <2>5. leaseLeft' = leaseLeft /\ leaseLeft \in Int /\ leaseLeft >= -1
    BY <1>1, <1>6, <1>10
  <2>6. /\ UsedOK(dhcp) /\ dhcp.pcb /\ dhcp.xid = dhcp.gxid /\ LeaseOK(dhcp, leaseLeft) /\ dhcp.out = {}
    BY <1>10, ActiveClient
  <2>7. CASE m.server
    <3>1. Sent(c, p, "REQUESTING", "REQUEST", mem)
      BY <2>1, <2>4, <2>7, SendingFunctions
    <3>. HIDE DEF c
    <3>2. UsedOK(p) /\ p.pcb /\ LeaseOK(p, leaseLeft) /\ p.out = {} /\ p.gxid = dhcp.gxid /\ p.xid = dhcp.xid
      BY <2>2, <2>4, <2>6, Zenon DEF UsedOK, LeaseOK, Runs, SameTimes, SameButTimer
    <3>3. Linked(c) /\ c.xid = c.gxid
      BY <1>10, <2>4, <3>1, <3>2, SentLinked
    <3>4. "REQUESTING" \notin Holding
      BY DEF Holding
    <3>5. Good(c, leaseLeft, badOffer', granted, starved)
      BY <2>4, <2>5, <3>1, <3>2, <3>3, <3>4, SentGood
    <3>. QED
      BY <2>5, <3>3, <3>5 DEF c
  <2>8. CASE ~m.server
    <3>1. c = o
      BY <2>1, <2>8
    <3>. HIDE DEF c
    <3>2. badOffer'
      BY <1>1, <1>10, <2>8, Zenon
    <3>3. UsedOK(o) /\ LeaseOK(o, leaseLeft)
      BY <2>2, <2>6, Zenon DEF UsedOK, LeaseOK, Runs, SameTimes, SameButTimer
    <3>4. Good(o, leaseLeft, badOffer', granted, starved)
      BY <1>10, <2>2, <2>5, <2>6, <3>2, <3>3, Zenon DEF Good, SameButTimer
    <3>5. Linked(o)
      BY <1>10, <2>2, <2>6, Zenon DEF SameButTimer, Linked, NoDiscover
    <3>. QED
      BY <2>5, <3>1, <3>4, <3>5 DEF c
  <2>. QED
    BY <2>7, <2>8
<1>11. CASE /\ ~(m.type = "ACK" /\ dhcp.state = "REQUESTING")
            /\ ~(m.type = "ACK" /\ dhcp.state \in {"REBOOTING", "REBINDING", "RENEWING"})
            /\ ~(m.type = "NAK" /\ dhcp.state \in {"REBOOTING", "REQUESTING", "REBINDING", "RENEWING"})
            /\ ~(m.type = "OFFER" /\ dhcp.state = "SELECTING")
  <2>1. c = dhcp
    BY <1>11, Zenon DEF Handled
  <2>. QED
    BY <1>1, <2>1
<1>. HIDE DEF c
<1>. QED
  BY <1>7, <1>8, <1>9, <1>10, <1>11

\* A reply of the server.
LEMMA ReplyStep ==
  ASSUME DhcpInv, NEW m \in toServer, NEW type \in {"OFFER", "ACK", "NAK"}, NEW addr \in DhcpAddrs,
         NEW lease \in Times, NEW server \in BOOLEAN, Reply(type, m, addr, lease, server)
  PROVE  DhcpInv'
<1>. DEFINE p == [type |-> type, xid |-> m.xid, addr |-> addr, lease |-> lease, server |-> server]
<1>1. /\ toClient' = toClient \cup {p}
      /\ granted' = IF type = "ACK" /\ m.xid = dhcp.xid THEN granted \cup {addr} ELSE granted
      /\ UNCHANGED <<dhcp, toServer, leaseLeft, starved, badOffer>>
  BY Zenon DEF Reply
<1>2. m.xid \in Xids
  BY DEF DhcpInv, Msg
<1>3. p \in ReplyMsg /\ p.type = type /\ p.xid = m.xid /\ p.addr = addr
  BY <1>2, Zenon DEF ReplyMsg
<1>. HIDE DEF p
<1>4. toClient' \subseteq ReplyMsg
  BY <1>1, <1>3 DEF DhcpInv
<1>5. granted \subseteq granted'
  BY <1>1
<1>6. LeaseAcked'
  BY <1>1, <1>3, <1>5, Zenon DEF LeaseAcked, DhcpInv
<1>7. Good(dhcp', leaseLeft', badOffer', granted', starved')
  BY <1>1, <1>5, Zenon DEF Good, DhcpInv
<1>. QED
  BY <1>1, <1>4, <1>6, <1>7, Zenon DEF DhcpInv

\* The initial state is one of the invariant.
LEMMA DhcpInvInit == DhcpInit => DhcpInv
<1>. SUFFICES ASSUME DhcpInit PROVE DhcpInv
  OBVIOUS
<1>1. dhcp = Cleared(0, ANY) /\ toServer = {} /\ toClient = {} /\ leaseLeft = 0
  BY DEF DhcpInit
<1>2. ANY \in DhcpAddrs /\ "OFF" \in DhcpStates /\ NoLease \in Times /\ {} \in SUBSET Msg
  BY DEF DhcpAddrs, DhcpStates, NoLease, Times
<1>3. dhcp \in ClientRecord
  BY <1>1, <1>2, Numbers, Zenon DEF Cleared, ClientRecord
<1>4. dhcp.state = "OFF" /\ dhcp.t0_timeout = 0 /\ dhcp.lease_used = 0 /\ dhcp.out = {}
  BY <1>1, Zenon DEF Cleared
<1>5. UsedOK(dhcp) /\ leaseLeft \in Int /\ leaseLeft >= -1
  BY <1>1, <1>4 DEF UsedOK
<1>6. Good(dhcp, leaseLeft, badOffer, granted, starved)
  BY <1>3, <1>4, <1>5, OffGood
<1>. QED
  BY <1>1, <1>4, <1>6, Zenon DEF DhcpInv, LeaseAcked

\* Every step of the client, of the timers, of the network and of the server keeps the invariant.
LEMMA DhcpInvNext == DhcpInv /\ [DhcpNext]_dhcpVars => DhcpInv'
<1>. SUFFICES ASSUME DhcpInv, [DhcpNext]_dhcpVars PROVE DhcpInv'
  OBVIOUS
<1>1. CASE UNCHANGED dhcpVars
  BY <1>1, Zenon DEF dhcpVars, DhcpInv, LeaseAcked
<1>2. CASE \E pcb, mem \in BOOLEAN : dhcp_start(pcb, mem)
  BY <1>2, StartStep
<1>3. CASE \E mem \in BOOLEAN : ReleaseCalled(mem)
  BY <1>3, ReleaseStep
<1>4. CASE StopCalled
  BY <1>4, StopStep
<1>5. CASE \E mem \in BOOLEAN : dhcp_network_changed(mem)
  BY <1>5, NetworkChangedStep
<1>6. CASE \E mem \in BOOLEAN : dhcp_arp_reply(mem)
  BY <1>6, ArpReplyStep
<1>7. CASE \E mem, mem2 \in BOOLEAN : dhcp_fine_tmr(mem, mem2)
  BY <1>7, FineStep
<1>8. CASE \E mem, mem2 \in BOOLEAN : dhcp_coarse_tmr(mem, mem2)
  BY <1>8, CoarseStep
<1>9. CASE \E m \in toClient, mem \in BOOLEAN : dhcp_recv(m, mem)
  BY <1>9, ReceiveStep
<1>10. NoLease \in Times /\ Leases \subseteq Times /\ ANY \in DhcpAddrs /\ OfferedAddrs \subseteq DhcpAddrs
  BY DhcpAssumption DEF NoLease, Times, DhcpAddrs
<1>11. CASE \E m \in toServer, a \in OfferedAddrs, server \in BOOLEAN : ServerOffers(m, a, server)
  BY <1>10, <1>11, ReplyStep DEF ServerOffers
<1>12. CASE \E m \in toServer, l \in Leases : ServerAcks(m, l)
  <2>1. PICK m \in toServer, l \in Leases : Reply("ACK", m, m.addr, l, TRUE)
    BY <1>12 DEF ServerAcks
  <2>2. m.addr \in DhcpAddrs
    BY DEF DhcpInv, Msg
  <2>. QED
    BY <1>10, <2>1, <2>2, ReplyStep
<1>13. CASE \E m \in toServer : ServerNaks(m)
  BY <1>10, <1>13, ReplyStep DEF ServerNaks
<1>. QED
  BY <1>1, <1>2, <1>3, <1>4, <1>5, <1>6, <1>7, <1>8, <1>9, <1>11, <1>12, <1>13, Zenon DEF DhcpNext

\* The invariant gives what the runs check.
LEMMA DhcpInvSound == DhcpInv => DhcpSound
<1>. SUFFICES ASSUME DhcpInv PROVE DhcpSound
  OBVIOUS
<1>1. dhcp \in ClientRecord /\ UsedOK(dhcp)
  BY DEF DhcpInv, Good
<1>2. DhcpTypeOK
  <2>1. dhcp.lease_used \in 0..dhcp.t0_timeout
    BY <1>1 DEF UsedOK, ClientRecord
  <2>2. /\ dhcp.state \in DhcpStates /\ dhcp.tries \in 0..MAX_TRIES
        /\ dhcp.armed \in BOOLEAN /\ dhcp.pcb \in BOOLEAN
        /\ dhcp.xid \in 0..(XidWrap - 1) /\ dhcp.gxid \in 0..(XidWrap - 1)
        /\ dhcp.offered \in DhcpAddrs /\ dhcp.ip \in DhcpAddrs
    BY <1>1, Zenon DEF ClientRecord, Xids
  <2>. QED
    BY <2>1, <2>2, Zenon DEF DhcpTypeOK, DhcpInv
<1>3. NeverStuck /\ OnlyGrantedAddress /\ PcbWhileActive
  BY Zenon DEF NeverStuck, OnlyGrantedAddress, PcbWhileActive, DhcpInv, Good, Waiting
<1>4. LeaseHonoured
  <2>. SUFFICES ASSUME dhcp.state \in Holding, dhcp.ip # ANY
                PROVE  leaseLeft # 0
    BY DEF LeaseHonoured, Holding
  <2>1. dhcp.state # "OFF"
    BY DEF Holding
  <2>2. Runs(dhcp, leaseLeft)
    BY <2>1, ActiveClient
  <2>3. dhcp.t0_timeout \in Nat /\ dhcp.lease_used \in Nat
    BY <1>1 DEF ClientRecord
  <2>. QED
    BY <1>1, <2>2, <2>3 DEF Runs, UsedOK
<1>. QED
  BY <1>2, <1>3, <1>4 DEF DhcpSound

\* The DHCP client of dhcp.c is sound for every lease, address set, limit of tries and size of the
\* network: it never waits without a timer, holds no address beyond its lease, and takes none that was
\* not acknowledged in its exchange.
THEOREM DhcpIsSound == DhcpSpec => []DhcpSound
<1>1. DhcpSpec => []DhcpInv
  BY DhcpInvInit, DhcpInvNext, PTL DEF DhcpSpec
<1>. QED
  BY <1>1, DhcpInvSound, PTL

-----------------------------------------------------------------------------
(* The option negotiation of PPP: what its primitives do to one end.       *)

PppStates == {"INITIAL", "STARTING", "CLOSED", "STOPPED", "OPENED"} \cup Trying \cup Ending
MaxRetransmits == IF MaxConfReqs > MaxTermReqs THEN MaxConfReqs ELSE MaxTermReqs
Options == {NoOption, Wanted, Suggested}
Codes == {"CONFREQ", "CONFACK", "CONFNAK", "CONFREJ", "TERMREQ", "TERMACK"}
Packets == [code : Codes, id : Nat, ci : Options]
FsmRecord ==
  [state : PppStates, id : Nat, reqid : Nat, seen_ack : BOOLEAN, retransmits : 0..MaxRetransmits,
   nakloops : 0..MaxNakLoops, rnakloops : Nat, timers : Nat, up : BOOLEAN, ci : Options,
   granted : Options, starved : BOOLEAN, out : Seq(Packets)]

\* One end in order: its timer and its upper layer go with its state.
TimerOK(f) ==
  /\ f.state \in Trying \cup Ending => f.timers = 1 \/ (f.timers = 0 /\ f.starved)
  /\ f.state \notin Trying \cup Ending => f.timers = 0
FsmOK(f) == f \in FsmRecord /\ TimerOK(f) /\ (f.up <=> f.state = "OPENED")

\* Nothing but counters, identifiers, options or what is sent changes.
SameFsm(r, f) ==
  r \in FsmRecord /\ r.state = f.state /\ r.timers = f.timers /\ r.up = f.up /\ r.starved = f.starved

\* Numbers that the functions store are in their ranges.
LEMMA PppNumbers ==
  /\ 0 \in Nat /\ 0 \in 0..MaxRetransmits /\ 0 \in 0..MaxNakLoops
  /\ MaxConfReqs \in 0..MaxRetransmits /\ MaxConfReqs - 1 \in 0..MaxRetransmits
  /\ MaxTermReqs # 0 => MaxTermReqs - 1 \in 0..MaxRetransmits
  /\ \A n \in 0..MaxRetransmits : n > 0 => n - 1 \in 0..MaxRetransmits
  /\ \A n \in 0..MaxNakLoops : ~(n >= MaxNakLoops) => n + 1 \in 0..MaxNakLoops
  /\ \A n \in Nat : n + 1 \in Nat /\ (n + 1) % IdWrap \in Nat
<1>1. \A n \in Nat : \A k \in Nat \ {0} : n % k \in Nat
  BY Z3
<1>2. \A n \in Nat : (n + 1) % IdWrap \in Nat
  BY <1>1, PppFsmAssumption
<1>. QED
  BY <1>2, PppFsmAssumption DEF MaxRetransmits

\* The options are the three there are, and every state is one of the automaton.
LEMMA PppConstants ==
  /\ NoOption \in Options /\ Wanted \in Options /\ Suggested \in Options
  /\ Trying \subseteq PppStates /\ Ending \subseteq PppStates
  /\ {"INITIAL", "STARTING", "CLOSED", "STOPPED", "OPENED"} \subseteq PppStates
  BY DEF Options, PppStates

\* A change of state changes nothing else.
LEMMA ToFacts ==
  ASSUME NEW f \in FsmRecord, NEW s \in PppStates
  PROVE  /\ To(f, s) \in FsmRecord /\ To(f, s).state = s
         /\ To(f, s).timers = f.timers /\ To(f, s).up = f.up /\ To(f, s).starved = f.starved
  BY Zenon DEF To, FsmRecord

\* TIMEOUT adds a pending call of fsm_timeout.
LEMMA TimeoutFacts ==
  ASSUME NEW f \in FsmRecord
  PROVE  /\ TIMEOUT(f) \in FsmRecord /\ TIMEOUT(f).timers = f.timers + 1
         /\ TIMEOUT(f).state = f.state /\ TIMEOUT(f).up = f.up /\ TIMEOUT(f).starved = f.starved
<1>1. f.timers + 1 \in Nat
  BY DEF FsmRecord
<1>. QED
  BY <1>1, Zenon DEF TIMEOUT, FsmRecord

\* UNTIMEOUT cancels them.
LEMMA UntimeoutFacts ==
  ASSUME NEW f \in FsmRecord
  PROVE  /\ UNTIMEOUT(f) \in FsmRecord /\ UNTIMEOUT(f).timers = 0
         /\ UNTIMEOUT(f).state = f.state /\ UNTIMEOUT(f).up = f.up /\ UNTIMEOUT(f).starved = f.starved
  BY PppNumbers, Zenon DEF UNTIMEOUT, FsmRecord

\* The callbacks up and down tell the layer above.
LEMMA UpDownFacts ==
  ASSUME NEW f \in FsmRecord
  PROVE  /\ Down(f) \in FsmRecord /\ Down(f).up = FALSE
         /\ Down(f).state = f.state /\ Down(f).timers = f.timers /\ Down(f).starved = f.starved
         /\ Up(f) \in FsmRecord /\ Up(f).up = TRUE
         /\ Up(f).state = f.state /\ Up(f).timers = f.timers /\ Up(f).starved = f.starved
  BY Zenon DEF Up, Down, FsmRecord

\* Identifiers stay numbers.
LEMMA NextIdFacts ==
  ASSUME NEW f \in FsmRecord
  PROVE  NextId(f) \in Nat
<1>1. f.id \in Nat
  BY DEF FsmRecord
<1>. QED
  BY <1>1, PppNumbers DEF NextId

\* fsm_sdata.
LEMMA SdataFacts ==
  ASSUME NEW f \in FsmRecord, NEW code \in Codes, NEW id \in Nat, NEW ci \in Options, NEW mem \in BOOLEAN
  PROVE  LET r == fsm_sdata(f, code, id, ci, mem)
         IN /\ SameFsm(r, f) /\ r.retransmits = f.retransmits /\ r.nakloops = f.nakloops
<1>. DEFINE r == fsm_sdata(f, code, id, ci, mem)
            p == [code |-> code, id |-> id, ci |-> ci]
            o == Append(f.out, p)
<1>1. CASE ~mem
  BY <1>1, Zenon DEF fsm_sdata, SameFsm
<1>2. CASE mem
  <2>1. p \in Packets
    BY Zenon DEF Packets
  <2>2. r = [f EXCEPT !.out = o]
    BY <1>2, Zenon DEF fsm_sdata
  <2>. HIDE DEF p
  <2>3. o \in Seq(Packets)
    <3>1. f.out \in Seq(Packets)
      BY DEF FsmRecord
    <3>. QED
      BY <2>1, <3>1
  <2>. HIDE DEF r, o
  <2>4. SameFsm(r, f) /\ r.retransmits = f.retransmits /\ r.nakloops = f.nakloops
    BY <2>2, <2>3, Zenon DEF FsmRecord, SameFsm
  <2>. QED
    BY <2>4 DEF r
<1>. QED
  BY <1>1, <1>2

\* What a Configure-Request leaves: one timer more, or the mark that memory lacked for it.
Requested(r, f, mem) ==
  /\ r \in FsmRecord /\ r.state = f.state /\ r.up = f.up
  /\ mem => r.timers = f.timers + 1
  /\ ~mem => r.timers = f.timers /\ r.starved

\* fsm_sconfreq.
LEMMA SconfreqFacts ==
  ASSUME NEW f \in FsmRecord, NEW retransmit \in BOOLEAN, NEW mem \in BOOLEAN,
         retransmit => f.retransmits > 0
  PROVE  Requested(fsm_sconfreq(f, retransmit, mem), f, mem)
<1>. DEFINE a == IF f.state \in Trying THEN f ELSE [f EXCEPT !.ci = Wanted, !.nakloops = 0, !.rnakloops = 0]
            b == IF retransmit THEN a ELSE [a EXCEPT !.retransmits = MaxConfReqs, !.id = NextId(f), !.reqid = NextId(f)]
            s == [b EXCEPT !.seen_ack = FALSE, !.starved = ~mem]
            d == fsm_sdata(s, "CONFREQ", s.reqid, s.ci, TRUE)
            e == [d EXCEPT !.retransmits = d.retransmits - 1]
            r == fsm_sconfreq(f, retransmit, mem)
<1>1. r = IF ~mem THEN s ELSE TIMEOUT(e)
  BY Zenon DEF fsm_sconfreq
<1>2. SameFsm(a, f) /\ a.retransmits = f.retransmits
  <2>1. CASE f.state \in Trying
    BY <2>1 DEF SameFsm
  <2>2. CASE f.state \notin Trying
    <3>1. a = [f EXCEPT !.ci = Wanted, !.nakloops = 0, !.rnakloops = 0]
      BY <2>2
    <3>. HIDE DEF a
    <3>. QED
      BY <3>1, PppNumbers, PppConstants, Zenon DEF SameFsm, FsmRecord
  <2>. QED
    BY <2>1, <2>2
<1>. HIDE DEF a, r
<1>3. a \in FsmRecord
  BY <1>2 DEF SameFsm
<1>4. NextId(f) \in Nat
  BY NextIdFacts
<1>5. /\ b \in FsmRecord /\ b.state = f.state /\ b.up = f.up /\ b.timers = f.timers
      /\ b.retransmits = IF retransmit THEN f.retransmits ELSE MaxConfReqs
  <2>1. CASE retransmit
    BY <1>2, <2>1 DEF SameFsm
  <2>2. CASE ~retransmit
    <3>1. b = [a EXCEPT !.retransmits = MaxConfReqs, !.id = NextId(f), !.reqid = NextId(f)]
      BY <2>2
    <3>. HIDE DEF b
    <3>2. SameFsm(b, a) /\ b.retransmits = MaxConfReqs
      BY <1>3, <1>4, <3>1, PppNumbers, Zenon DEF SameFsm, FsmRecord
    <3>. QED
      BY <1>2, <2>2, <3>2, Zenon DEF SameFsm
  <2>. QED
    BY <2>1, <2>2
<1>. HIDE DEF b
<1>6. /\ s \in FsmRecord /\ s.state = b.state /\ s.up = b.up /\ s.timers = b.timers
      /\ s.starved = ~mem /\ s.retransmits = b.retransmits
  BY <1>5, Zenon DEF FsmRecord
<1>. HIDE DEF s
<1>7. s.reqid \in Nat /\ s.ci \in Options /\ "CONFREQ" \in Codes /\ TRUE \in BOOLEAN
  BY <1>6 DEF FsmRecord, Codes
<1>8. SameFsm(d, s) /\ d.retransmits = s.retransmits
  BY <1>6, <1>7, SdataFacts, Zenon
<1>. HIDE DEF d
<1>9. d \in FsmRecord
  BY <1>8 DEF SameFsm
<1>10. d.retransmits - 1 \in 0..MaxRetransmits
  <2>1. CASE retransmit
    <3>1. f.retransmits \in 0..MaxRetransmits
      BY DEF FsmRecord
    <3>2. d.retransmits = f.retransmits
      BY <1>5, <1>6, <1>8, <2>1
    <3>. QED
      BY <2>1, <3>1, <3>2, PppNumbers
  <2>2. CASE ~retransmit
    BY <1>5, <1>6, <1>8, <2>2, PppNumbers
  <2>. QED
    BY <2>1, <2>2
<1>11. SameFsm(e, d)
  BY <1>9, <1>10, Zenon DEF SameFsm, FsmRecord
<1>. HIDE DEF e
<1>12. CASE mem
  <2>1. r = TIMEOUT(e)
    BY <1>1, <1>12
  <2>2. e \in FsmRecord
    BY <1>11 DEF SameFsm
  <2>3. r \in FsmRecord /\ r.timers = e.timers + 1 /\ r.state = e.state /\ r.up = e.up
    BY <2>1, <2>2, TimeoutFacts
  <2>4. Requested(r, f, mem)
    BY <1>5, <1>6, <1>8, <1>11, <1>12, <2>3, Zenon DEF Requested, SameFsm
  <2>. QED
    BY <2>4 DEF r
<1>13. CASE ~mem
  <2>1. r = s
    BY <1>1, <1>13
  <2>2. s.starved
    BY <1>6, <1>13
  <2>3. Requested(r, f, mem)
    BY <1>5, <1>6, <1>13, <2>1, <2>2, Zenon DEF Requested
  <2>. QED
    BY <2>3 DEF r
<1>. QED
  BY <1>12, <1>13

\* Restarting the negotiation where no timer runs.
LEMMA RestartFacts ==
  ASSUME NEW f \in FsmRecord, NEW mem \in BOOLEAN, f.timers = 0, f.up = FALSE
  PROVE  FsmOK(Restart(f, mem)) /\ Restart(f, mem).state = "REQSENT"
<1>. DEFINE s == fsm_sconfreq(f, FALSE, mem)
            r == To(s, "REQSENT")
<1>1. Requested(s, f, mem)
  BY SconfreqFacts
<1>. HIDE DEF s
<1>2. s \in FsmRecord /\ "REQSENT" \in PppStates
  BY <1>1, PppConstants DEF Requested, Trying
<1>3. r \in FsmRecord /\ r.state = "REQSENT" /\ r.timers = s.timers /\ r.up = s.up /\ r.starved = s.starved
  BY <1>2, ToFacts
<1>. HIDE DEF r
<1>4. r.timers = 1 \/ (r.timers = 0 /\ r.starved)
  <2>1. CASE mem
    BY <1>1, <1>3, <2>1 DEF Requested
  <2>2. CASE ~mem
    BY <1>1, <1>3, <2>2, Zenon DEF Requested
  <2>. QED
    BY <2>1, <2>2
<1>5. TimerOK(r)
  BY <1>3, <1>4, Zenon DEF TimerOK, Trying
<1>6. r.up = FALSE
  BY <1>1, <1>3, Zenon DEF Requested
<1>7. FsmOK(r) /\ r.state = "REQSENT"
  BY <1>3, <1>5, <1>6, Zenon DEF FsmOK
<1>. QED
  BY <1>7 DEF Restart, r, s

\* The Terminate-Request.
LEMMA SendTermReqFacts ==
  ASSUME NEW f \in FsmRecord, NEW mem \in BOOLEAN
  PROVE  SameFsm(SendTermReq(f, mem), f) /\ SendTermReq(f, mem).retransmits = f.retransmits
<1>. DEFINE d == fsm_sdata(f, "TERMREQ", NextId(f), NoOption, mem)
            r == [d EXCEPT !.id = NextId(f), !.reqid = NextId(f)]
<1>1. NextId(f) \in Nat /\ NoOption \in Options /\ "TERMREQ" \in Codes
  BY NextIdFacts, PppConstants DEF Codes
<1>2. SameFsm(d, f) /\ d.retransmits = f.retransmits
  BY <1>1, SdataFacts, Zenon
<1>. HIDE DEF d
<1>3. d \in FsmRecord
  BY <1>2 DEF SameFsm
<1>4. SameFsm(r, d) /\ r.retransmits = d.retransmits
  BY <1>1, <1>3, Zenon DEF SameFsm, FsmRecord
<1>. HIDE DEF r
<1>5. SameFsm(r, f) /\ r.retransmits = f.retransmits
  BY <1>2, <1>4, Zenon DEF SameFsm
<1>. QED
  BY <1>5 DEF SendTermReq, r, d

\* terminate_layer, which leaves the end closing or, without a Terminate-Request to wait for, closed.
LEMMA TerminateFacts ==
  ASSUME NEW f, FsmOK(f), NEW next \in Ending, NEW mem \in BOOLEAN
  PROVE  FsmOK(terminate_layer(f, next, mem))
<1>. DEFINE q == Quiet(f)
            s == SendTermReq(q, mem)
            a == [s EXCEPT !.retransmits = 0]
            b == [s EXCEPT !.retransmits = MaxTermReqs - 1]
            r == terminate_layer(f, next, mem)
<1>1. f \in FsmRecord /\ TimerOK(f) /\ (f.up <=> f.state = "OPENED")
  BY DEF FsmOK
<1>2. q \in FsmRecord /\ q.timers = 0 /\ q.up = FALSE
  <2>1. CASE f.state # "OPENED"
    <3>1. q = UNTIMEOUT(f)
      BY <2>1 DEF Quiet
    <3>2. f.up = FALSE
      BY <1>1, <2>1, Zenon DEF FsmRecord
    <3>. QED
      BY <1>1, <3>1, <3>2, UntimeoutFacts
  <2>2. CASE f.state = "OPENED"
    <3>1. q = Down(f)
      BY <2>2 DEF Quiet
    <3>2. f.timers = 0
      BY <1>1, <2>2, Zenon DEF TimerOK, Trying, Ending
    <3>. QED
      BY <1>1, <3>1, <3>2, UpDownFacts
  <2>. QED
    BY <2>1, <2>2
<1>3. r = IF MaxTermReqs = 0 THEN To(a, Ended(next)) ELSE To(TIMEOUT(b), next)
  BY Zenon DEF terminate_layer
<1>. HIDE DEF q, r
<1>4. SameFsm(s, q)
  BY <1>2, SendTermReqFacts
<1>. HIDE DEF s
<1>5. s \in FsmRecord /\ s.timers = 0 /\ s.up = FALSE
  BY <1>2, <1>4 DEF SameFsm
<1>6. CASE MaxTermReqs = 0
  <2>1. SameFsm(a, s)
    BY <1>5, PppNumbers, Zenon DEF SameFsm, FsmRecord
  <2>. HIDE DEF a
  <2>2. a \in FsmRecord /\ a.timers = 0 /\ a.up = FALSE
    BY <1>5, <2>1 DEF SameFsm
  <2>3. Ended(next) \in PppStates /\ Ended(next) \notin Trying \cup Ending /\ Ended(next) # "OPENED"
    BY DEF Ended, PppStates, Trying, Ending
  <2>4. r = To(a, Ended(next))
    BY <1>3, <1>6
  <2>5. r \in FsmRecord /\ r.state = Ended(next) /\ r.timers = 0 /\ r.up = FALSE
    BY <2>2, <2>3, <2>4, ToFacts
  <2>. QED
    BY <2>3, <2>5, Zenon DEF FsmOK, TimerOK, r
<1>7. CASE MaxTermReqs # 0
  <2>1. SameFsm(b, s)
    BY <1>5, <1>7, PppNumbers, Zenon DEF SameFsm, FsmRecord
  <2>. HIDE DEF b
  <2>2. b \in FsmRecord /\ b.timers = 0 /\ b.up = FALSE
    BY <1>5, <2>1 DEF SameFsm
  <2>3. TIMEOUT(b) \in FsmRecord /\ TIMEOUT(b).timers = 1 /\ TIMEOUT(b).up = FALSE
    BY <2>2, TimeoutFacts
  <2>4. next \in PppStates /\ next \in Trying \cup Ending /\ next # "OPENED"
    BY DEF PppStates, Ending
  <2>5. r = To(TIMEOUT(b), next)
    BY <1>3, <1>7
  <2>6. r \in FsmRecord /\ r.state = next /\ r.timers = 1 /\ r.up = FALSE
    BY <2>3, <2>4, <2>5, ToFacts
  <2>. QED
    BY <2>4, <2>6, Zenon DEF FsmOK, TimerOK, r
<1>. QED
  BY <1>6, <1>7

-----------------------------------------------------------------------------
(* Every function of fsm.c leaves its end in order.                        *)

\* A change of state keeps the end in order when the timer and the upper layer already fit.
LEMMA MovedOK ==
  ASSUME NEW f \in FsmRecord, NEW s \in PppStates,
         f.up <=> s = "OPENED",
         s \in Trying \cup Ending => f.timers = 1 \/ (f.timers = 0 /\ f.starved),
         s \notin Trying \cup Ending => f.timers = 0
  PROVE  FsmOK(To(f, s)) /\ To(f, s).state = s
<1>1. /\ To(f, s) \in FsmRecord /\ To(f, s).state = s
      /\ To(f, s).timers = f.timers /\ To(f, s).up = f.up /\ To(f, s).starved = f.starved
  BY ToFacts
<1>. QED
  BY <1>1, Zenon DEF FsmOK, TimerOK

\* An end in which nothing of it changed stays in order.
LEMMA SameOK ==
  ASSUME NEW f, NEW r, FsmOK(f), SameFsm(r, f)
  PROVE  FsmOK(r)
  BY Zenon DEF FsmOK, SameFsm, TimerOK

\* What being in order says in each group of states.
LEMMA OrderFacts ==
  ASSUME NEW f, FsmOK(f)
  PROVE  /\ f \in FsmRecord /\ f.state \in PppStates
         /\ f.state # "OPENED" => f.up = FALSE
         /\ f.state = "OPENED" => f.up = TRUE
         /\ f.state \notin Trying \cup Ending => f.timers = 0
         /\ f.state \in Trying \cup Ending => f.timers = 1 \/ (f.timers = 0 /\ f.starved)
<1>1. f \in FsmRecord /\ TimerOK(f) /\ (f.up <=> f.state = "OPENED")
  BY DEF FsmOK
<1>2. f.up \in BOOLEAN /\ f.state \in PppStates
  BY <1>1 DEF FsmRecord
<1>. QED
  BY <1>1, <1>2, Zenon DEF TimerOK

\* fsm_lowerup.
LEMMA LowerupOK ==
  ASSUME NEW f, FsmOK(f), NEW e, NEW mem \in BOOLEAN
  PROVE  FsmOK(fsm_lowerup(f, e, mem))
<1>1. CASE f.state = "INITIAL"
  <2>1. fsm_lowerup(f, e, mem) = To(f, "CLOSED")
    BY <1>1 DEF fsm_lowerup
  <2>2. f \in FsmRecord /\ f.up = FALSE /\ f.timers = 0
    BY <1>1, OrderFacts DEF Trying, Ending
  <2>3. "CLOSED" \in PppStates /\ "CLOSED" \notin Trying \cup Ending
    BY DEF PppStates, Trying, Ending
  <2>. QED
    BY <2>1, <2>2, <2>3, MovedOK
<1>2. CASE f.state = "STARTING"
  <2>1. fsm_lowerup(f, e, mem) = IF Silent(e) THEN To(f, "STOPPED") ELSE Restart(f, mem)
    BY <1>2 DEF fsm_lowerup
  <2>2. f \in FsmRecord /\ f.up = FALSE /\ f.timers = 0
    BY <1>2, OrderFacts DEF Trying, Ending
  <2>3. "STOPPED" \in PppStates /\ "STOPPED" \notin Trying \cup Ending
    BY DEF PppStates, Trying, Ending
  <2>4. FsmOK(To(f, "STOPPED"))
    BY <2>2, <2>3, MovedOK
  <2>5. FsmOK(Restart(f, mem))
    BY <2>2, RestartFacts
  <2>. QED
    BY <2>1, <2>4, <2>5
<1>3. CASE f.state \notin {"INITIAL", "STARTING"}
  <2>1. fsm_lowerup(f, e, mem) = f
    BY <1>3 DEF fsm_lowerup
  <2>. QED
    BY <2>1
<1>. QED
  BY <1>1, <1>2, <1>3

\* fsm_lowerdown.
LEMMA LowerdownOK ==
  ASSUME NEW f, FsmOK(f)
  PROVE  FsmOK(fsm_lowerdown(f))
<1>1. /\ f \in FsmRecord
      /\ {"INITIAL", "STARTING"} \subseteq PppStates
      /\ "INITIAL" \notin Trying \cup Ending /\ "STARTING" \notin Trying \cup Ending
  BY OrderFacts DEF PppStates, Trying, Ending
<1>2. CASE f.state \in {"CLOSED", "STOPPED"}
  <2>1. fsm_lowerdown(f) = To(f, IF f.state = "CLOSED" THEN "INITIAL" ELSE "STARTING")
    BY <1>2 DEF fsm_lowerdown, Trying, Ending
  <2>2. f.up = FALSE /\ f.timers = 0
    BY <1>2, OrderFacts DEF Trying, Ending
  <2>. QED
    BY <1>1, <2>1, <2>2, MovedOK
<1>3. CASE f.state \in Trying \cup Ending
  <2>1. fsm_lowerdown(f) = To(UNTIMEOUT(f), IF f.state = "CLOSING" THEN "INITIAL" ELSE "STARTING")
    BY <1>3 DEF fsm_lowerdown, Trying, Ending
  <2>2. f.up = FALSE
    BY <1>3, OrderFacts DEF Trying, Ending
  <2>3. UNTIMEOUT(f) \in FsmRecord /\ UNTIMEOUT(f).up = FALSE /\ UNTIMEOUT(f).timers = 0
    BY <1>1, <2>2, UntimeoutFacts
  <2>. QED
    BY <1>1, <2>1, <2>3, MovedOK
<1>4. CASE f.state = "OPENED"
  <2>1. fsm_lowerdown(f) = To(Down(f), "STARTING")
    BY <1>4 DEF fsm_lowerdown, Trying
  <2>2. f.timers = 0
    BY <1>4, OrderFacts DEF Trying, Ending
  <2>3. Down(f) \in FsmRecord /\ Down(f).up = FALSE /\ Down(f).timers = 0
    BY <1>1, <2>2, UpDownFacts
  <2>. QED
    BY <1>1, <2>1, <2>3, MovedOK
<1>5. CASE f.state \notin {"CLOSED", "STOPPED", "OPENED"} \cup Trying \cup Ending
  <2>1. fsm_lowerdown(f) = f
    BY <1>5 DEF fsm_lowerdown, Trying, Ending
  <2>. QED
    BY <2>1
<1>. QED
  BY <1>2, <1>3, <1>4, <1>5

\* fsm_open.
LEMMA OpenOK ==
  ASSUME NEW f, FsmOK(f), NEW e, NEW mem \in BOOLEAN
  PROVE  FsmOK(fsm_open(f, e, mem))
<1>. DEFINE again(g) == IF "RESTART" \in FsmFlags[e] THEN fsm_lowerup(fsm_lowerdown(g), e, mem) ELSE g
<1>1. ASSUME NEW g, FsmOK(g) PROVE FsmOK(again(g))
  <2>1. FsmOK(fsm_lowerup(fsm_lowerdown(g), e, mem))
    BY <1>1, LowerdownOK, LowerupOK
  <2>. QED
    BY <1>1, <2>1
<1>2. f \in FsmRecord
  BY OrderFacts
<1>3. CASE f.state = "INITIAL"
  <2>1. fsm_open(f, e, mem) = To(f, "STARTING")
    BY <1>3 DEF fsm_open
  <2>2. f.up = FALSE /\ f.timers = 0 /\ "STARTING" \in PppStates /\ "STARTING" \notin Trying \cup Ending
    BY <1>3, OrderFacts DEF Trying, Ending, PppStates
  <2>. QED
    BY <1>2, <2>1, <2>2, MovedOK
<1>4. CASE f.state = "CLOSED"
  <2>1. fsm_open(f, e, mem) = IF Silent(e) THEN To(f, "STOPPED") ELSE Restart(f, mem)
    BY <1>4 DEF fsm_open
  <2>2. f.up = FALSE /\ f.timers = 0 /\ "STOPPED" \in PppStates /\ "STOPPED" \notin Trying \cup Ending
    BY <1>4, OrderFacts DEF Trying, Ending, PppStates
  <2>3. FsmOK(To(f, "STOPPED")) /\ FsmOK(Restart(f, mem))
    BY <1>2, <2>2, MovedOK, RestartFacts
  <2>. QED
    BY <2>1, <2>3
<1>5. CASE f.state = "CLOSING"
  <2>1. fsm_open(f, e, mem) = again(To(f, "STOPPING"))
    BY <1>5 DEF fsm_open
  <2>2. /\ f.up = FALSE /\ (f.timers = 1 \/ (f.timers = 0 /\ f.starved))
        /\ "STOPPING" \in PppStates /\ "STOPPING" \in Trying \cup Ending
    BY <1>5, OrderFacts, Zenon DEF Trying, Ending, PppStates
  <2>3. FsmOK(To(f, "STOPPING"))
    BY <1>2, <2>2, MovedOK
  <2>. HIDE DEF again
  <2>. QED
    BY <1>1, <2>1, <2>3
<1>6. CASE f.state \in {"STOPPED", "OPENED"}
  <2>1. fsm_open(f, e, mem) = again(f)
    BY <1>6 DEF fsm_open
  <2>. HIDE DEF again
  <2>. QED
    BY <1>1, <2>1
<1>7. CASE f.state \notin {"INITIAL", "CLOSED", "CLOSING", "STOPPED", "OPENED"}
  <2>1. fsm_open(f, e, mem) = f
    BY <1>7 DEF fsm_open
  <2>. QED
    BY <2>1
<1>. QED
  BY <1>3, <1>4, <1>5, <1>6, <1>7

\* fsm_close.
LEMMA CloseOK ==
  ASSUME NEW f, FsmOK(f), NEW mem \in BOOLEAN
  PROVE  FsmOK(fsm_close(f, mem))
<1>1. f \in FsmRecord
  BY OrderFacts
<1>2. CASE f.state \in {"STARTING", "STOPPED"}
  <2>1. fsm_close(f, mem) = To(f, IF f.state = "STARTING" THEN "INITIAL" ELSE "CLOSED")
    BY <1>2 DEF fsm_close, Trying, Ending
  <2>2. /\ f.up = FALSE /\ f.timers = 0 /\ {"INITIAL", "CLOSED"} \subseteq PppStates
        /\ "INITIAL" \notin Trying \cup Ending /\ "CLOSED" \notin Trying \cup Ending
    BY <1>2, OrderFacts DEF Trying, Ending, PppStates
  <2>. QED
    BY <1>1, <2>1, <2>2, MovedOK
<1>3. CASE f.state = "STOPPING"
  <2>1. fsm_close(f, mem) = To(f, "CLOSING")
    BY <1>3 DEF fsm_close, Trying, Ending
  <2>2. /\ f.up = FALSE /\ (f.timers = 1 \/ (f.timers = 0 /\ f.starved))
        /\ "CLOSING" \in PppStates /\ "CLOSING" \in Trying \cup Ending
    BY <1>3, OrderFacts, Zenon DEF Trying, Ending, PppStates
  <2>. QED
    BY <1>1, <2>1, <2>2, MovedOK
<1>4. CASE f.state \in Trying \cup {"OPENED"}
  <2>1. fsm_close(f, mem) = terminate_layer(f, "CLOSING", mem) /\ "CLOSING" \in Ending
    BY <1>4 DEF fsm_close, Trying, Ending
  <2>. QED
    BY <2>1, TerminateFacts
<1>5. CASE f.state \notin {"STARTING", "STOPPED", "STOPPING", "OPENED"} \cup Trying
  <2>1. fsm_close(f, mem) = f
    BY <1>5 DEF fsm_close
  <2>. QED
    BY <2>1
<1>. QED
  BY <1>2, <1>3, <1>4, <1>5

\* fsm_protreject.
LEMMA ProtrejectOK ==
  ASSUME NEW f, FsmOK(f), NEW mem \in BOOLEAN
  PROVE  FsmOK(fsm_protreject(f, mem))
<1>1. f \in FsmRecord
  BY OrderFacts
<1>2. CASE f.state \in Trying \cup {"CLOSING", "CLOSED", "STOPPING", "STOPPED"}
  <2>1. fsm_protreject(f, mem) = To(UNTIMEOUT(f), IF f.state \in {"CLOSING", "CLOSED"} THEN "CLOSED" ELSE "STOPPED")
    BY <1>2 DEF fsm_protreject, Trying
  <2>2. f.up = FALSE
    BY <1>2, OrderFacts DEF Trying
  <2>3. UNTIMEOUT(f) \in FsmRecord /\ UNTIMEOUT(f).up = FALSE /\ UNTIMEOUT(f).timers = 0
    BY <1>1, <2>2, UntimeoutFacts
  <2>4. /\ {"STOPPED", "CLOSED"} \subseteq PppStates
        /\ "STOPPED" \notin Trying \cup Ending /\ "CLOSED" \notin Trying \cup Ending
    BY DEF Trying, Ending, PppStates
  <2>. QED
    BY <2>1, <2>3, <2>4, MovedOK
<1>3. CASE f.state = "OPENED"
  <2>1. fsm_protreject(f, mem) = terminate_layer(f, "STOPPING", mem) /\ "STOPPING" \in Ending
    BY <1>3 DEF fsm_protreject, Trying, Ending
  <2>. QED
    BY <2>1, TerminateFacts
<1>4. CASE f.state \notin Trying \cup {"CLOSING", "CLOSED", "STOPPING", "STOPPED", "OPENED"}
  <2>1. fsm_protreject(f, mem) = f
    BY <1>4 DEF fsm_protreject
  <2>. QED
    BY <2>1
<1>. QED
  BY <1>2, <1>3, <1>4

\* fsm_timeout, once its timer is no longer pending.
LEMMA FsmTimeoutOK ==
  ASSUME NEW f \in FsmRecord, f.state \in Trying \cup Ending, f.timers = 0, f.up = FALSE, NEW mem \in BOOLEAN
  PROVE  FsmOK(fsm_timeout(f, mem))
<1>1. f.retransmits \in 0..MaxRetransmits /\ MaxRetransmits \in Nat
  BY PppFsmAssumption DEF FsmRecord, MaxRetransmits
<1>2. (f.retransmits <= 0 /\ ~(f.retransmits > 0)) \/ (f.retransmits > 0 /\ ~(f.retransmits <= 0))
  BY <1>1
<1>3. f.state \in Trying <=> f.state \notin Ending
  BY DEF Trying, Ending
<1>4. CASE f.retransmits <= 0 /\ ~(f.retransmits > 0)
  <2>1. fsm_timeout(f, mem) = To(f, IF f.state \in Ending THEN Ended(f.state) ELSE "STOPPED")
    BY <1>4, <1>3 DEF fsm_timeout
  <2>2. /\ Ended(f.state) \in {"CLOSED", "STOPPED"} /\ {"CLOSED", "STOPPED"} \subseteq PppStates
        /\ "STOPPED" \notin Trying \cup Ending /\ "CLOSED" \notin Trying \cup Ending
    BY DEF Ended, PppStates, Trying, Ending
  <2>. QED
    BY <2>1, <2>2, MovedOK
<1>5. CASE f.state \in Ending /\ f.retransmits > 0 /\ ~(f.retransmits <= 0)
  <2>. DEFINE s == SendTermReq(f, mem)
              t == [s EXCEPT !.retransmits = s.retransmits - 1]
              r == TIMEOUT(t)
  <2>1. fsm_timeout(f, mem) = r
    BY <1>5, <1>3, Zenon DEF fsm_timeout
  <2>2. SameFsm(s, f) /\ s.retransmits = f.retransmits
    BY SendTermReqFacts
  <2>. HIDE DEF s
  <2>3. s \in FsmRecord /\ s.retransmits - 1 \in 0..MaxRetransmits
    BY <1>1, <1>5, <2>2, PppNumbers DEF SameFsm
  <2>4. SameFsm(t, s)
    BY <2>3, Zenon DEF SameFsm, FsmRecord
  <2>. HIDE DEF t
  <2>5. t \in FsmRecord /\ t.state = f.state /\ t.timers = 0 /\ t.up = FALSE
    BY <2>2, <2>4 DEF SameFsm
  <2>6. r \in FsmRecord /\ r.state = f.state /\ r.timers = 1 /\ r.up = FALSE
    BY <2>5, TimeoutFacts
  <2>. HIDE DEF r
  <2>7. f.state # "OPENED"
    BY <1>5 DEF Ending
  <2>. QED
    BY <1>5, <2>1, <2>6, <2>7, Zenon DEF FsmOK, TimerOK
<1>6. CASE f.state \in Trying /\ f.state \notin Ending /\ f.retransmits > 0 /\ ~(f.retransmits <= 0)
  <2>. DEFINE s == fsm_sconfreq(f, TRUE, mem)
              r == IF s.state = "ACKRCVD" THEN To(s, "REQSENT") ELSE s
  <2>1. fsm_timeout(f, mem) = r
    BY <1>6, Zenon DEF fsm_timeout
  <2>2. Requested(s, f, mem)
    BY <1>6, SconfreqFacts
  <2>. HIDE DEF s
  <2>3. s \in FsmRecord /\ s.state \in Trying /\ s.up = FALSE
    BY <1>6, <2>2 DEF Requested
  <2>4. s.timers = 1 \/ (s.timers = 0 /\ s.starved)
    <3>1. mem => s.timers = 1
      BY <2>2 DEF Requested
    <3>. QED
      BY <2>2, <3>1, Zenon DEF Requested
  <2>5. s.state # "OPENED" /\ "REQSENT" \in PppStates /\ "REQSENT" \in Trying
    BY <2>3 DEF Trying, PppStates
  <2>6. FsmOK(s)
    BY <2>3, <2>4, <2>5, Zenon DEF FsmOK, TimerOK
  <2>7. FsmOK(To(s, "REQSENT"))
    BY <2>3, <2>4, <2>5, MovedOK
  <2>. QED
    BY <2>1, <2>6, <2>7
<1>. QED
  BY <1>2, <1>4, <1>5, <1>6, <1>6

\* An end that leaves OPENED to negotiate again.
LEMMA ReopenOK ==
  ASSUME NEW f, FsmOK(f), f.state = "OPENED", NEW s, SameFsm(s, f), NEW mem \in BOOLEAN
  PROVE  FsmOK(Restart(Down(s), mem)) /\ Restart(Down(s), mem).state = "REQSENT"
<1>1. s \in FsmRecord /\ s.timers = 0
  BY OrderFacts DEF SameFsm, Trying, Ending
<1>2. Down(s) \in FsmRecord /\ Down(s).timers = 0 /\ Down(s).up = FALSE
  BY <1>1, UpDownFacts
<1>. QED
  BY <1>2, RestartFacts

\* fsm_rconfreq.
LEMMA RconfreqOK ==
  ASSUME NEW f, FsmOK(f), f.state \notin {"INITIAL", "STARTING"}, NEW e, NEW m \in Packets, NEW mem \in BOOLEAN
  PROVE  FsmOK(fsm_rconfreq(f, e, m, mem))
<1>. DEFINE g == IF f.state = "OPENED" THEN Restart(Down(f), mem)
                 ELSE IF f.state = "STOPPED" THEN Restart(f, mem) ELSE f
            code == reqci(g, e, m.ci)
            ci == IF code = "CONFNAK" THEN Suggested ELSE m.ci
            s == fsm_sdata(g, code, m.id, ci, mem)
            a == [s EXCEPT !.nakloops = 0, !.granted = m.ci]
            n == IF code = "CONFNAK" THEN [s EXCEPT !.nakloops = s.nakloops + 1] ELSE s
            r == fsm_rconfreq(f, e, m, mem)
<1>1. f \in FsmRecord /\ m.id \in Nat /\ m.ci \in Options
  BY OrderFacts DEF Packets
<1>2. CASE f.state \in {"CLOSED"} \cup Ending
  <2>. DEFINE d == fsm_sdata(f, "TERMACK", m.id, NoOption, mem)
  <2>1. "TERMACK" \in Codes /\ NoOption \in Options
    BY PppConstants DEF Codes
  <2>2. SameFsm(d, f)
    BY <1>1, <2>1, SdataFacts, Zenon
  <2>3. FsmOK(d)
    <3>. HIDE DEF d
    <3>. QED
      BY <2>2, SameOK
  <2>4. r = d \/ r = f
    BY <1>2, Zenon DEF fsm_rconfreq, Ending
  <2>. QED
    BY <2>3, <2>4
<1>3. CASE f.state \notin {"CLOSED"} \cup Ending
  <2>1. FsmOK(g) /\ g.state \in Trying
    <3>1. CASE f.state = "OPENED"
      <4>1. SameFsm(f, f)
        BY <1>1 DEF SameFsm
      <4>2. g = Restart(Down(f), mem)
        BY <3>1
      <4>. HIDE DEF g
      <4>. QED
        BY <3>1, <4>1, <4>2, ReopenOK DEF Trying
    <3>2. CASE f.state = "STOPPED"
      <4>1. f.timers = 0 /\ f.up = FALSE
        BY <3>2, OrderFacts DEF Trying, Ending
      <4>2. g = Restart(f, mem)
        BY <3>2
      <4>. HIDE DEF g
      <4>. QED
        BY <1>1, <4>1, <4>2, RestartFacts DEF Trying
    <3>3. CASE f.state \notin {"OPENED", "STOPPED"}
      <4>1. g = f
        BY <3>3
      <4>2. f.state \in PppStates
        BY OrderFacts
      <4>. QED
        BY <1>3, <3>3, <4>1, <4>2 DEF PppStates
    <3>. QED
      BY <3>1, <3>2, <3>3
  <2>2. /\ code = "CONFACK" => r = IF g.state = "ACKRCVD" THEN Up(To(UNTIMEOUT(a), "OPENED")) ELSE To(a, "ACKSENT")
        /\ code # "CONFACK" => r = IF g.state # "ACKRCVD" THEN To(n, "REQSENT") ELSE n
    BY <1>3, Zenon DEF fsm_rconfreq
  <2>. HIDE DEF g, r
  <2>3. g \in FsmRecord /\ g.up = FALSE /\ (g.timers = 1 \/ (g.timers = 0 /\ g.starved))
    BY <2>1, OrderFacts DEF Trying
  <2>4. code \in Codes /\ ci \in Options /\ (code = "CONFNAK" => ~(g.nakloops >= MaxNakLoops))
    BY <1>1, PppConstants DEF reqci, Codes
  <2>. HIDE DEF code, ci
  <2>5. SameFsm(s, g) /\ s.nakloops = g.nakloops
    <3>1. g \in FsmRecord /\ code \in Codes /\ ci \in Options /\ m.id \in Nat
      BY <1>1, <2>3, <2>4
    <3>. QED
      BY <3>1, SdataFacts
  <2>. HIDE DEF s
  <2>6. s \in FsmRecord /\ s.up = FALSE /\ (s.timers = 1 \/ (s.timers = 0 /\ s.starved)) /\ s.state = g.state
    BY <2>3, <2>5, Zenon DEF SameFsm
  <2>7. SameFsm(a, s)
    BY <1>1, <2>6, PppNumbers, Zenon DEF SameFsm, FsmRecord
  <2>. HIDE DEF a
  <2>8. SameFsm(n, s)
    <3>1. CASE code = "CONFNAK"
      <4>. DEFINE k == s.nakloops + 1
                  n1 == [s EXCEPT !.nakloops = k]
      <4>1. k \in 0..MaxNakLoops
        <5>1. g.nakloops \in 0..MaxNakLoops
          BY <2>3 DEF FsmRecord
        <5>. QED
          BY <2>4, <2>5, <3>1, <5>1, PppNumbers
      <4>. HIDE DEF k
      <4>2. SameFsm(n1, s)
        BY <2>6, <4>1, Zenon DEF SameFsm, FsmRecord
      <4>3. n = n1
        BY <3>1, Zenon DEF k
      <4>. HIDE DEF n, n1
      <4>. QED
        BY <4>2, <4>3
    <3>2. CASE code # "CONFNAK"
      BY <2>6, <3>2 DEF SameFsm
    <3>. QED
      BY <3>1, <3>2
  <2>. HIDE DEF n
  <2>9. FsmOK(n)
    BY <2>1, <2>5, <2>8, SameOK
  <2>10. FsmOK(To(n, "REQSENT"))
    <3>1. n \in FsmRecord /\ n.up = FALSE /\ (n.timers = 1 \/ (n.timers = 0 /\ n.starved))
      BY <2>6, <2>8, Zenon DEF SameFsm
    <3>2. "REQSENT" \in PppStates /\ "REQSENT" \in Trying
      BY DEF PppStates, Trying
    <3>. QED
      BY <3>1, <3>2, MovedOK
  <2>11. a \in FsmRecord /\ a.up = FALSE /\ (a.timers = 1 \/ (a.timers = 0 /\ a.starved))
    BY <2>6, <2>7, Zenon DEF SameFsm
  <2>12. FsmOK(To(a, "ACKSENT"))
    <3>1. "ACKSENT" \in PppStates /\ "ACKSENT" \in Trying
      BY DEF PppStates, Trying
    <3>. QED
      BY <2>11, <3>1, MovedOK
  <2>13. FsmOK(Up(To(UNTIMEOUT(a), "OPENED")))
    <3>. DEFINE u == UNTIMEOUT(a)
                o == To(u, "OPENED")
                p == Up(o)
    <3>1. u \in FsmRecord /\ u.timers = 0 /\ "OPENED" \in PppStates /\ "OPENED" \notin Trying \cup Ending
      BY <2>11, UntimeoutFacts DEF PppStates, Trying, Ending
    <3>. HIDE DEF u
    <3>2. o \in FsmRecord /\ o.timers = 0 /\ o.state = "OPENED"
      BY <3>1, ToFacts
    <3>. HIDE DEF o
    <3>3. p \in FsmRecord /\ p.timers = 0 /\ p.state = "OPENED" /\ p.up = TRUE
      BY <3>2, UpDownFacts
    <3>. HIDE DEF p
    <3>4. FsmOK(p)
      BY <3>1, <3>3, Zenon DEF FsmOK, TimerOK
    <3>. QED
      BY <3>4 DEF p, o, u
  <2>14. FsmOK(r)
    BY <2>2, <2>9, <2>10, <2>12, <2>13
  <2>. QED
    BY <2>14 DEF r
<1>. QED
  BY <1>2, <1>3

\* An end that takes up the negotiation again after its timer is stopped.
LEMMA AgainOK ==
  ASSUME NEW f, FsmOK(f), f.state \in Trying, NEW s, SameFsm(s, f), NEW mem \in BOOLEAN
  PROVE  FsmOK(Restart(UNTIMEOUT(s), mem)) /\ FsmOK(fsm_sconfreq(UNTIMEOUT(s), FALSE, mem))
<1>. DEFINE u == UNTIMEOUT(s)
            r == fsm_sconfreq(u, FALSE, mem)
<1>1. s \in FsmRecord /\ s.up = FALSE /\ s.state \in Trying
  BY OrderFacts DEF SameFsm, Trying
<1>2. u \in FsmRecord /\ u.timers = 0 /\ u.up = FALSE /\ u.state \in Trying
  BY <1>1, UntimeoutFacts
<1>. HIDE DEF u
<1>3. FsmOK(Restart(u, mem))
  BY <1>2, RestartFacts
<1>4. Requested(r, u, mem)
  BY <1>2, SconfreqFacts
<1>. HIDE DEF r
<1>5. r \in FsmRecord /\ r.up = FALSE /\ r.state \in Trying /\ r.state # "OPENED"
  BY <1>2, <1>4 DEF Requested, Trying
<1>6. r.timers = 1 \/ (r.timers = 0 /\ r.starved)
  <2>1. mem => r.timers = 1
    BY <1>2, <1>4 DEF Requested
  <2>. QED
    BY <1>2, <1>4, <2>1, Zenon DEF Requested
<1>7. FsmOK(r)
  BY <1>5, <1>6, Zenon DEF FsmOK, TimerOK
<1>. QED
  BY <1>3, <1>7 DEF r, u

\* The Terminate-Ack that answers what a closed end does not expect.
LEMMA TermackOK ==
  ASSUME NEW f, FsmOK(f), NEW s, SameFsm(s, f), NEW id \in Nat, NEW mem \in BOOLEAN
  PROVE  FsmOK(fsm_sdata(s, "TERMACK", id, NoOption, mem))
<1>. DEFINE d == fsm_sdata(s, "TERMACK", id, NoOption, mem)
<1>1. s \in FsmRecord /\ "TERMACK" \in Codes /\ NoOption \in Options
  BY PppConstants DEF SameFsm, Codes
<1>2. SameFsm(d, s)
  BY <1>1, SdataFacts
<1>. HIDE DEF d
<1>3. FsmOK(d)
  BY <1>2, SameOK
<1>. QED
  BY <1>3 DEF d

\* fsm_rconfack.
LEMMA RconfackOK ==
  ASSUME NEW f, FsmOK(f), NEW m \in Packets, NEW mem \in BOOLEAN
  PROVE  FsmOK(fsm_rconfack(f, m, mem))
<1>. DEFINE s == [f EXCEPT !.seen_ack = TRUE, !.rnakloops = 0]
            t == [s EXCEPT !.retransmits = MaxConfReqs]
            r == fsm_rconfack(f, m, mem)
<1>1. f \in FsmRecord /\ m.id \in Nat
  BY OrderFacts DEF Packets
<1>2. SameFsm(s, f)
  BY <1>1, PppNumbers, Zenon DEF SameFsm, FsmRecord
<1>3. s \in FsmRecord
  BY <1>2 DEF SameFsm
<1>4. /\ ~Acknowledges(f, m) => r = f
      /\ Acknowledges(f, m) =>
           /\ f.state \in {"CLOSED", "STOPPED"} => r = fsm_sdata(s, "TERMACK", m.id, NoOption, mem)
           /\ f.state = "REQSENT" => r = To(t, "ACKRCVD")
           /\ f.state = "ACKRCVD" => r = Restart(UNTIMEOUT(s), mem)
           /\ f.state = "ACKSENT" => r = Up(To(UNTIMEOUT(t), "OPENED"))
           /\ f.state = "OPENED" => r = Restart(Down(s), mem)
           /\ f.state \notin {"CLOSED", "STOPPED", "REQSENT", "ACKRCVD", "ACKSENT", "OPENED"} => r = s
  BY Zenon DEF fsm_rconfack
<1>. HIDE DEF s, r
<1>5. SameFsm(t, s)
  BY <1>3, PppNumbers, Zenon DEF SameFsm, FsmRecord
<1>. HIDE DEF t
<1>6. t \in FsmRecord /\ SameFsm(t, f)
  BY <1>2, <1>5, Zenon DEF SameFsm
<1>7. FsmOK(s)
  BY <1>2, SameOK
<1>8. f.state \in {"CLOSED", "STOPPED"} => FsmOK(fsm_sdata(s, "TERMACK", m.id, NoOption, mem))
  BY <1>1, <1>2, TermackOK
<1>9. f.state = "REQSENT" => FsmOK(To(t, "ACKRCVD"))
  <2>. SUFFICES ASSUME f.state = "REQSENT" PROVE FsmOK(To(t, "ACKRCVD"))
    OBVIOUS
  <2>1. f.up = FALSE /\ (f.timers = 1 \/ (f.timers = 0 /\ f.starved))
    BY OrderFacts, Zenon DEF Trying
  <2>2. t.up = FALSE /\ (t.timers = 1 \/ (t.timers = 0 /\ t.starved))
    BY <1>6, <2>1, Zenon DEF SameFsm
  <2>3. "ACKRCVD" \in PppStates /\ "ACKRCVD" \in Trying
    BY DEF PppStates, Trying
  <2>. QED
    BY <1>6, <2>2, <2>3, MovedOK
<1>10. f.state = "ACKRCVD" => FsmOK(Restart(UNTIMEOUT(s), mem))
  BY <1>2, AgainOK DEF Trying
<1>11. FsmOK(Up(To(UNTIMEOUT(t), "OPENED")))
  <2>. DEFINE u == UNTIMEOUT(t)
              o == To(u, "OPENED")
              p == Up(o)
  <2>1. u \in FsmRecord /\ u.timers = 0 /\ "OPENED" \in PppStates /\ "OPENED" \notin Trying \cup Ending
    BY <1>6, UntimeoutFacts DEF PppStates, Trying, Ending
  <2>. HIDE DEF u
  <2>2. o \in FsmRecord /\ o.timers = 0 /\ o.state = "OPENED"
    BY <2>1, ToFacts
  <2>. HIDE DEF o
  <2>3. p \in FsmRecord /\ p.timers = 0 /\ p.state = "OPENED" /\ p.up = TRUE
    BY <2>2, UpDownFacts
  <2>. HIDE DEF p
  <2>4. FsmOK(p)
    BY <2>1, <2>3, Zenon DEF FsmOK, TimerOK
  <2>. QED
    BY <2>4 DEF p, o, u
<1>12. f.state = "OPENED" => FsmOK(Restart(Down(s), mem))
  BY <1>2, ReopenOK
<1>13. FsmOK(r)
  BY <1>4, <1>7, <1>8, <1>9, <1>10, <1>11, <1>12
<1>. QED
  BY <1>13 DEF r

\* fsm_rconfnakrej.
LEMMA RconfnakrejOK ==
  ASSUME NEW f, FsmOK(f), NEW m \in Packets, NEW mem \in BOOLEAN
  PROVE  FsmOK(fsm_rconfnakrej(f, m, mem))
<1>. DEFINE n == IF m.code = "CONFNAK" THEN f.rnakloops + 1 ELSE 0
            ci == IF m.code = "CONFNAK" /\ n < MaxNakLoops THEN m.ci ELSE NoOption
            s == [f EXCEPT !.seen_ack = TRUE, !.rnakloops = n, !.ci = ci]
            r == fsm_rconfnakrej(f, m, mem)
<1>1. f \in FsmRecord /\ m.id \in Nat /\ m.ci \in Options
  BY OrderFacts DEF Packets
<1>2. n \in Nat
  <2>1. f.rnakloops \in Nat
    BY <1>1 DEF FsmRecord
  <2>. QED
    BY <2>1
<1>3. AfterNakRej(f, m) = s
  BY Zenon DEF AfterNakRej
<1>. HIDE DEF n
<1>4. ci \in Options
  BY <1>1, PppConstants
<1>. HIDE DEF ci
<1>5. SameFsm(s, f)
  BY <1>1, <1>2, <1>4, Zenon DEF SameFsm, FsmRecord
<1>. HIDE DEF s
<1>6. /\ ~Answers(f, m) => r = f
      /\ Answers(f, m) =>
           /\ f.state \in {"CLOSED", "STOPPED"} => r = fsm_sdata(s, "TERMACK", m.id, NoOption, mem)
           /\ f.state \in {"REQSENT", "ACKSENT"} => r = fsm_sconfreq(UNTIMEOUT(s), FALSE, mem)
           /\ f.state = "ACKRCVD" => r = Restart(UNTIMEOUT(s), mem)
           /\ f.state = "OPENED" => r = Restart(Down(s), mem)
           /\ f.state \notin {"CLOSED", "STOPPED", "REQSENT", "ACKRCVD", "ACKSENT", "OPENED"} => r = s
  BY <1>3, Zenon DEF fsm_rconfnakrej
<1>. HIDE DEF r
<1>7. FsmOK(s)
  BY <1>5, SameOK
<1>8. FsmOK(fsm_sdata(s, "TERMACK", m.id, NoOption, mem))
  BY <1>1, <1>5, TermackOK
<1>9. f.state \in {"REQSENT", "ACKRCVD", "ACKSENT"} =>
        FsmOK(Restart(UNTIMEOUT(s), mem)) /\ FsmOK(fsm_sconfreq(UNTIMEOUT(s), FALSE, mem))
  BY <1>5, AgainOK DEF Trying
<1>10. f.state = "OPENED" => FsmOK(Restart(Down(s), mem))
  BY <1>5, ReopenOK
<1>11. FsmOK(r)
  BY <1>6, <1>7, <1>8, <1>9, <1>10
<1>. QED
  BY <1>11 DEF r

\* fsm_rtermreq.
LEMMA RtermreqOK ==
  ASSUME NEW f, FsmOK(f), NEW m \in Packets, NEW mem \in BOOLEAN
  PROVE  FsmOK(fsm_rtermreq(f, m, mem))
<1>. DEFINE z == [f EXCEPT !.retransmits = 0]
            g == CASE f.state \in {"ACKRCVD", "ACKSENT"} -> To(f, "REQSENT")
                   [] f.state = "OPENED" -> TIMEOUT(To(Down(z), "STOPPING"))
                   [] OTHER -> f
<1>1. f \in FsmRecord /\ m.id \in Nat
  BY OrderFacts DEF Packets
<1>2. fsm_rtermreq(f, m, mem) = fsm_sdata(g, "TERMACK", m.id, NoOption, mem)
  BY Zenon DEF fsm_rtermreq
<1>3. FsmOK(g)
  <2>1. CASE f.state \in {"ACKRCVD", "ACKSENT"}
    <3>1. g = To(f, "REQSENT")
      BY <2>1, Zenon
    <3>. HIDE DEF g
    <3>2. f.up = FALSE /\ (f.timers = 1 \/ (f.timers = 0 /\ f.starved))
      BY <2>1, OrderFacts, Zenon DEF Trying
    <3>3. "REQSENT" \in PppStates /\ "REQSENT" \in Trying
      BY DEF PppStates, Trying
    <3>. QED
      BY <1>1, <3>1, <3>2, <3>3, MovedOK
  <2>2. CASE f.state = "OPENED"
    <3>. DEFINE d == Down(z)
                o == To(d, "STOPPING")
    <3>1. g = TIMEOUT(o)
      BY <2>2, Zenon
    <3>. HIDE DEF g
    <3>2. SameFsm(z, f)
      BY <1>1, PppNumbers, Zenon DEF SameFsm, FsmRecord
    <3>. HIDE DEF z
    <3>3. z \in FsmRecord /\ z.timers = 0
      BY <2>2, <3>2, OrderFacts DEF SameFsm, Trying, Ending
    <3>4. d \in FsmRecord /\ d.timers = 0 /\ d.up = FALSE
      BY <3>3, UpDownFacts
    <3>. HIDE DEF d
    <3>5. "STOPPING" \in PppStates /\ "STOPPING" \in Ending
      BY DEF PppStates, Ending
    <3>6. o \in FsmRecord /\ o.timers = 0 /\ o.up = FALSE /\ o.state = "STOPPING"
      BY <3>4, <3>5, ToFacts
    <3>. HIDE DEF o
    <3>7. g \in FsmRecord /\ g.timers = 1 /\ g.up = FALSE /\ g.state = "STOPPING"
      BY <3>1, <3>6, TimeoutFacts
    <3>. QED
      BY <3>5, <3>7, Zenon DEF FsmOK, TimerOK
  <2>3. CASE f.state \notin {"ACKRCVD", "ACKSENT", "OPENED"}
    <3>1. g = f
      BY <2>3, Zenon
    <3>. QED
      BY <3>1
  <2>. QED
    BY <2>1, <2>2, <2>3
<1>. HIDE DEF g
<1>4. SameFsm(g, g)
  BY <1>3 DEF SameFsm, FsmOK
<1>. QED
  BY <1>1, <1>2, <1>3, <1>4, TermackOK

\* fsm_rtermack.
LEMMA RtermackOK ==
  ASSUME NEW f, FsmOK(f), NEW mem \in BOOLEAN
  PROVE  FsmOK(fsm_rtermack(f, mem))
<1>1. f \in FsmRecord /\ SameFsm(f, f)
  BY OrderFacts DEF SameFsm
<1>2. CASE f.state \in Ending
  <2>1. fsm_rtermack(f, mem) = To(UNTIMEOUT(f), Ended(f.state))
    BY <1>2 DEF fsm_rtermack, Ending
  <2>2. f.up = FALSE
    BY <1>2, OrderFacts DEF Ending
  <2>3. UNTIMEOUT(f) \in FsmRecord /\ UNTIMEOUT(f).up = FALSE /\ UNTIMEOUT(f).timers = 0
    BY <1>1, <2>2, UntimeoutFacts
  <2>4. Ended(f.state) \in PppStates /\ Ended(f.state) \notin Trying \cup Ending /\ Ended(f.state) # "OPENED"
    BY DEF Ended, PppStates, Trying, Ending
  <2>. QED
    BY <2>1, <2>3, <2>4, MovedOK
<1>3. CASE f.state = "ACKRCVD"
  <2>1. fsm_rtermack(f, mem) = To(f, "REQSENT")
    BY <1>3 DEF fsm_rtermack, Ending
  <2>2. f.up = FALSE /\ (f.timers = 1 \/ (f.timers = 0 /\ f.starved))
    BY <1>3, OrderFacts, Zenon DEF Trying
  <2>3. "REQSENT" \in PppStates /\ "REQSENT" \in Trying
    BY DEF PppStates, Trying
  <2>. QED
    BY <1>1, <2>1, <2>2, <2>3, MovedOK
<1>4. CASE f.state = "OPENED"
  <2>1. fsm_rtermack(f, mem) = Restart(Down(f), mem)
    BY <1>4 DEF fsm_rtermack, Ending
  <2>. QED
    BY <1>1, <1>4, <2>1, ReopenOK
<1>5. CASE f.state \notin {"ACKRCVD", "OPENED"} \cup Ending
  <2>1. fsm_rtermack(f, mem) = f
    BY <1>5 DEF fsm_rtermack
  <2>. QED
    BY <2>1
<1>. QED
  BY <1>2, <1>3, <1>4, <1>5

\* fsm_input.
LEMMA InputOK ==
  ASSUME NEW f, FsmOK(f), NEW e, NEW m \in Packets, NEW mem \in BOOLEAN
  PROVE  FsmOK(fsm_input(f, e, m, mem))
<1>1. CASE f.state \in {"INITIAL", "STARTING"}
  <2>1. fsm_input(f, e, m, mem) = f
    BY <1>1 DEF fsm_input
  <2>. QED
    BY <2>1
<1>2. CASE f.state \notin {"INITIAL", "STARTING"}
  <2>. DEFINE r == fsm_input(f, e, m, mem)
  <2>1. m.code \in Codes
    BY DEF Packets
  <2>2. /\ m.code = "CONFREQ" => r = fsm_rconfreq(f, e, m, mem)
        /\ m.code = "CONFACK" => r = fsm_rconfack(f, m, mem)
        /\ m.code \in {"CONFNAK", "CONFREJ"} => r = fsm_rconfnakrej(f, m, mem)
        /\ m.code = "TERMREQ" => r = fsm_rtermreq(f, m, mem)
        /\ m.code = "TERMACK" => r = fsm_rtermack(f, mem)
    BY <1>2 DEF fsm_input
  <2>. HIDE DEF r
  <2>3. FsmOK(r)
    BY <1>2, <2>1, <2>2, RconfreqOK, RconfackOK, RconfnakrejOK, RtermreqOK, RtermackOK DEF Codes
  <2>. QED
    BY <2>3 DEF r
<1>. QED
  BY <1>1, <1>2

-----------------------------------------------------------------------------
(* Both ends and the link.                                                 *)

PppInv ==
  /\ fsm \in [Ends -> FsmRecord] /\ (\A e \in Ends : FsmOK(fsm[e]))
  /\ link \in [Ends -> Seq(Packets)]

\* A step that leaves its end in order keeps the invariant.
LEMMA EndStepOK ==
  ASSUME PppInv, NEW e \in Ends, NEW f, FsmOK(f), NEW rest \in Seq(Packets), EndStep(e, f, rest)
  PROVE  PppInv'
<1>. DEFINE r == [f EXCEPT !.out = <<>>]
<1>1. f \in FsmRecord
  BY OrderFacts
<1>2. f.out \in Seq(Packets) /\ <<>> \in Seq(Packets)
  BY <1>1 DEF FsmRecord
<1>3. SameFsm(r, f)
  BY <1>1, <1>2, Zenon DEF SameFsm, FsmRecord
<1>4. fsm' = [fsm EXCEPT ![e] = r]
  BY DEF EndStep
<1>. HIDE DEF r
<1>5. r \in FsmRecord /\ FsmOK(r)
  BY <1>3, SameOK DEF SameFsm
<1>6. fsm' \in [Ends -> FsmRecord] /\ (\A x \in Ends : FsmOK(fsm'[x]))
  <2>1. fsm' \in [Ends -> FsmRecord]
    BY <1>4, <1>5, Zenon DEF PppInv
  <2>2. \A x \in Ends : fsm'[x] = IF x = e THEN r ELSE fsm[x]
    BY <1>4, Zenon DEF PppInv
  <2>. QED
    BY <1>5, <2>1, <2>2, Zenon DEF PppInv
<1>7. link' \in [Ends -> Seq(Packets)]
  <2>. DEFINE o == OtherEnd(e)
              q == link[o] \o f.out
  <2>1. o \in Ends
    <3>1. \E x \in Ends : x # e
      BY PppFsmAssumption
    <3>. QED
      BY <3>1 DEF OtherEnd
  <2>2. link' = [link EXCEPT ![e] = rest, ![o] = q]
    BY DEF EndStep
  <2>. HIDE DEF o
  <2>3. q \in Seq(Packets)
    <3>1. link[o] \in Seq(Packets)
      BY <2>1 DEF PppInv
    <3>. QED
      BY <1>2, <3>1
  <2>. HIDE DEF q
  <2>. QED
    BY <2>1, <2>2, <2>3, Zenon DEF PppInv
<1>. QED
  BY <1>6, <1>7 DEF PppInv

\* Both ends begin in order.
LEMMA PppInvInit == PppInit => PppInv
<1>. SUFFICES ASSUME PppInit PROVE PppInv
  OBVIOUS
<1>1. "INITIAL" \in PppStates /\ "INITIAL" \notin Trying \cup Ending /\ <<>> \in Seq(Packets)
  BY DEF PppStates, Trying, Ending
<1>2. FsmInit \in FsmRecord
  BY <1>1, PppNumbers, PppConstants, Zenon DEF FsmInit, FsmRecord
<1>3. FsmInit.state = "INITIAL" /\ FsmInit.timers = 0 /\ FsmInit.up = FALSE
  BY Zenon DEF FsmInit
<1>4. FsmOK(FsmInit)
  BY <1>1, <1>2, <1>3, Zenon DEF FsmOK, TimerOK
<1>. QED
  BY <1>1, <1>2, <1>4, Zenon DEF PppInit, PppInv

\* Every call, timeout and packet keeps both ends in order.
LEMMA PppInvNext == PppInv /\ [PppNext]_pppVars => PppInv'
<1>. SUFFICES ASSUME PppInv, [PppNext]_pppVars PROVE PppInv'
  OBVIOUS
<1>1. \A e \in Ends : FsmOK(fsm[e]) /\ link[e] \in Seq(Packets)
  BY DEF PppInv
<1>2. CASE UNCHANGED pppVars
  BY <1>2 DEF pppVars, PppInv
<1>3. ASSUME NEW e \in Ends, LowerDown(e) PROVE PppInv'
  <2>1. FsmOK(fsm_lowerdown(fsm[e])) /\ EndStep(e, fsm_lowerdown(fsm[e]), link[e])
    BY <1>1, <1>3, LowerdownOK DEF LowerDown, Call
  <2>. QED
    BY <1>1, <2>1, EndStepOK
<1>4. ASSUME NEW e \in Ends, Lost(e) PROVE PppInv'
  <2>1. Tail(link[e]) \in Seq(Packets)
    BY <1>1, <1>4 DEF Lost
  <2>2. link' = [link EXCEPT ![e] = Tail(link[e])] /\ fsm' = fsm
    BY <1>4 DEF Lost
  <2>3. link' \in [Ends -> Seq(Packets)]
    BY <2>1, <2>2, Zenon DEF PppInv
  <2>. QED
    BY <2>2, <2>3 DEF PppInv
<1>5. ASSUME NEW e \in Ends, NEW mem \in BOOLEAN, LowerUp(e, mem) PROVE PppInv'
  <2>1. FsmOK(fsm_lowerup(fsm[e], e, mem)) /\ EndStep(e, fsm_lowerup(fsm[e], e, mem), link[e])
    BY <1>1, <1>5, LowerupOK DEF LowerUp, Call
  <2>. QED
    BY <1>1, <2>1, EndStepOK
<1>6. ASSUME NEW e \in Ends, NEW mem \in BOOLEAN, PppOpen(e, mem) PROVE PppInv'
  <2>1. FsmOK(fsm_open(fsm[e], e, mem)) /\ EndStep(e, fsm_open(fsm[e], e, mem), link[e])
    BY <1>1, <1>6, OpenOK DEF PppOpen, Call
  <2>. QED
    BY <1>1, <2>1, EndStepOK
<1>7. ASSUME NEW e \in Ends, NEW mem \in BOOLEAN, PppClose(e, mem) PROVE PppInv'
  <2>1. FsmOK(fsm_close(fsm[e], mem)) /\ EndStep(e, fsm_close(fsm[e], mem), link[e])
    BY <1>1, <1>7, CloseOK DEF PppClose, Call
  <2>. QED
    BY <1>1, <2>1, EndStepOK
<1>8. ASSUME NEW e \in Ends, NEW mem \in BOOLEAN, ProtReject(e, mem) PROVE PppInv'
  <2>1. FsmOK(fsm_protreject(fsm[e], mem)) /\ EndStep(e, fsm_protreject(fsm[e], mem), link[e])
    BY <1>1, <1>8, ProtrejectOK DEF ProtReject, Call
  <2>. QED
    BY <1>1, <2>1, EndStepOK
<1>9. ASSUME NEW e \in Ends, NEW mem \in BOOLEAN, Timeout(e, mem) PROVE PppInv'
  <2>. DEFINE f == fsm[e]
              k == f.timers - 1
              t == [f EXCEPT !.timers = k]
  <2>1. f.timers > 0 /\ EndStep(e, fsm_timeout(t, mem), link[e])
    BY <1>9, Zenon DEF Timeout
  <2>2. FsmOK(f)
    BY <1>1
  <2>. HIDE DEF f
  <2>3. f \in FsmRecord /\ f.state \in Trying \cup Ending /\ f.timers = 1
    <3>1. f \in FsmRecord
      BY <2>2, OrderFacts
    <3>2. f.timers # 0
      BY <2>1, <3>1 DEF FsmRecord
    <3>. QED
      BY <2>2, <3>1, <3>2, OrderFacts, Zenon
  <2>4. f.up = FALSE
    BY <2>2, <2>3, OrderFacts DEF Trying, Ending
  <2>5. k = 0 /\ 0 \in Nat
    BY <2>3
  <2>. HIDE DEF k
  <2>6. t \in FsmRecord /\ t.state = f.state /\ t.timers = 0 /\ t.up = f.up
    BY <2>3, <2>5, Zenon DEF FsmRecord
  <2>. HIDE DEF t
  <2>7. FsmOK(fsm_timeout(t, mem))
    BY <2>3, <2>4, <2>6, FsmTimeoutOK
  <2>. QED
    BY <1>1, <2>1, <2>7, EndStepOK
<1>10. ASSUME NEW e \in Ends, NEW mem \in BOOLEAN, Packet(e, mem) PROVE PppInv'
  <2>1. Head(link[e]) \in Packets /\ Tail(link[e]) \in Seq(Packets)
    BY <1>1, <1>10 DEF Packet
  <2>2. FsmOK(fsm_input(fsm[e], e, Head(link[e]), mem))
    BY <1>1, <2>1, InputOK
  <2>3. EndStep(e, fsm_input(fsm[e], e, Head(link[e]), mem), Tail(link[e]))
    BY <1>10 DEF Packet
  <2>. QED
    BY <2>1, <2>2, <2>3, EndStepOK
<1>. QED
  BY <1>2, <1>3, <1>4, <1>5, <1>6, <1>7, <1>8, <1>9, <1>10, Zenon DEF PppNext

\* The automaton of fsm.c keeps its counters within the settings, one timer for every answer it waits
\* for, and the layer above up exactly while it is opened: for every setting, flag and length of the
\* link, whatever is lost.
THEOREM PppEndsInOrder == PppSpec => [](PppTypeOK /\ TimerMatchesState /\ UpIffOpened)
<1>1. PppInv => PppTypeOK /\ TimerMatchesState /\ UpIffOpened
  <2>. SUFFICES ASSUME PppInv PROVE PppTypeOK /\ TimerMatchesState /\ UpIffOpened
    OBVIOUS
  <2>1. \A e \in Ends : fsm[e] \in FsmRecord /\ TimerOK(fsm[e]) /\ (fsm[e].up <=> fsm[e].state = "OPENED")
    BY DEF PppInv, FsmOK
  <2>2. PppTypeOK
    BY <2>1, Zenon DEF PppTypeOK, FsmRecord, MaxRetransmits, Options
  <2>3. TimerMatchesState
    BY <2>1, Zenon DEF TimerMatchesState, TimerOK
  <2>4. UpIffOpened
    BY <2>1 DEF UpIffOpened
  <2>. QED
    BY <2>2, <2>3, <2>4
<1>2. PppSpec => []PppInv
  BY PppInvInit, PppInvNext, PTL DEF PppSpec
<1>. QED
  BY <1>1, <1>2, PTL

-----------------------------------------------------------------------------
(* The netconns: callbacks, signals, backlog and pbufs.                    *)

PcbRecord ==
  [state : {"CLOSED", "SYN_RCVD", "ESTABLISHED", "CLOSE_WAIT"}, arg : Conns \cup {0}, pend : BOOLEAN, snd : Int,
   refused : {"none", "data", "fin"}, unread : Int, rxclosed : BOOLEAN]
ConnRec ==
  [alive : BOOLEAN, pcb : Pcbs \cup {0}, state : {"NONE", "WRITE", "CLOSE"}, last_err : {"OK", "FATAL"},
   valid : BOOLEAN, recvmbox : Seq({"data", "NULL"}), msg : {"NULL", "write", "shutrd", "close", "delete"},
   left : Int, sem : Int]
AppPcs ==
  {"accept", "accepted", "run", "wait write", "recv", "recved", "shutrd", "wait close", "close", "wait delete",
   "delete", "wait free", "free"}
AppRecord ==
  [pc : AppPcs, n : Conns \cup {0}, got : {"none", "data", "NULL"}]
StackRecord ==
  [pcb : [Pcbs -> PcbRecord], conn : [Conns -> ConnRec], pending : Int, mbox : Seq(Conns \cup {ABORTED}), pbufs : Int]

\* A pcb by itself: without a netconn it has no refused data; only an established one has a netconn.
PcbOK(P) ==
  /\ P.state \in {"CLOSED", "SYN_RCVD"} => P.arg = 0
  /\ P.state = "CLOSED" => ~P.pend
  /\ P.arg = 0 => P.refused = "none"
  /\ P.snd \in 0..SndBuf /\ P.unread \in 0..RecvWindow

\* A netconn by itself: state and message agree, an operation in progress has a pcb and is not yet
\* signalled, a mailbox that was deleted is empty, and so is a netconn that was freed.
ConnOK(C) ==
  /\ C.pcb # 0 => C.alive
  /\ ~C.alive => ~C.valid
  /\ ~C.valid => C.recvmbox = <<>>
  /\ Len(C.recvmbox) <= DEFAULT_TCP_RECVMBOX_SIZE
  /\ \/ C.msg = "NULL" /\ C.state = "NONE"
     \/ C.msg = "write" /\ C.state = "WRITE"
     \/ C.msg \in {"shutrd", "close", "delete"} /\ C.state = "CLOSE"
  /\ C.msg # "NULL" => C.pcb # 0 /\ C.sem = 0
  /\ C.left >= 0 /\ C.sem \in 0..1

\* Segments in a mailbox, refused by a pcb, in the hands of the thread that receives on netconn h.
DataIn(box) == Cardinality({k \in 1..Len(box) : box[k] = "data"})
Refused(P) == IF P.refused = "none" THEN 0 ELSE 1
InHand(h, n) == IF h = n THEN 1 ELSE 0

\* Pcbs and netconns point at each other, and what is unread of a connection is what it holds, at least:
\* shutting down for reading frees refused data without a word to the window.
Joined(ps, cs, h) ==
  /\ \A p \in Pcbs : ps[p].arg # 0 =>
       /\ cs[ps[p].arg].pcb = p
       /\ ps[p].unread >= DataIn(cs[ps[p].arg].recvmbox) + Refused(ps[p]) + InHand(h, ps[p].arg)
  /\ \A n \in Conns : cs[n].pcb # 0 => ps[cs[n].pcb].arg = n

Pending(ps) == {p \in Pcbs : ps[p].pend}
Refusing(ps) == {p \in Pcbs : ps[p].refused # "none"}
Boxed(cs) ==
  {x \in Conns \X (1..DEFAULT_TCP_RECVMBOX_SIZE) :
     x[2] <= Len(cs[x[1]].recvmbox) /\ cs[x[1]].recvmbox[x[2]] = "data"}

\* The counters are exact.
Counts(ps, cs, pending, pbufs, h) ==
  /\ pending = Cardinality(Pending(ps))
  /\ pbufs = Cardinality(Boxed(cs)) + Cardinality(Refusing(ps)) + (IF h = 0 THEN 0 ELSE 1)

\* The pcbs, the netconns and the counters, when the thread holds a segment of netconn h.
Tidy(ps, cs, pending, pbufs, h) ==
  /\ ps \in [Pcbs -> PcbRecord] /\ cs \in [Conns -> ConnRec] /\ h \in Conns \cup {0}
  /\ \A p \in Pcbs : PcbOK(ps[p])
  /\ \A n \in Conns : ConnOK(cs[n])
  /\ h # 0 => cs[h].alive
  /\ Joined(ps, cs, h) /\ Counts(ps, cs, pending, pbufs, h)

\* The mailbox of the listener: live netconns, none twice, none that the thread has.
BoxOK(cs, mbox, n) ==
  /\ mbox \in Seq(Conns \cup {ABORTED}) /\ Len(mbox) <= DEFAULT_ACCEPTMBOX_SIZE
  /\ \A k \in 1..Len(mbox) : mbox[k] # ABORTED => cs[mbox[k]].alive /\ mbox[k] # n
  /\ \A k, j \in 1..Len(mbox) : mbox[k] = mbox[j] /\ mbox[k] # ABORTED => k = j

\* The thread waits exactly for an operation in progress or one that was signalled.
WaitPcs == {"wait write", "wait close", "wait delete", "wait free"}
Busy(C) == C.sem = 1 \/ C.msg # "NULL"
WaitOK(cs, n, pc) == \A m \in Conns : Busy(cs[m]) <=> (m = n /\ pc \in WaitPcs)

\* The thread has a live netconn from accept to free; at the end its mailbox and its pcb are gone.
ThreadOK(cs, n, pc) ==
  /\ pc = "accept" <=> n = 0
  /\ n # 0 => cs[n].alive
  /\ pc \in {"wait free", "free"} => ~cs[n].valid
  /\ pc = "free" => cs[n].pcb = 0
  /\ pc = "wait free" => cs[n].msg = "delete" \/ (cs[n].msg = "NULL" /\ cs[n].pcb = 0)

Hand(a) == IF a.got = "data" THEN a.n ELSE 0

\* The inductive invariant of the netconns.
NetconnInv ==
  /\ app \in AppRecord /\ (app.got = "data" => app.pc = "recved")
  /\ Tidy(tpcb, conn, accepts_pending, apiPbufs, Hand(app))
  /\ BoxOK(conn, acceptmbox, app.n) /\ WaitOK(conn, app.n, app.pc) /\ ThreadOK(conn, app.n, app.pc)

\* Assigning to a field keeps a record in its type.
LEMMA PcbUpdates ==
  ASSUME NEW r \in PcbRecord
  PROVE  /\ \A x \in {"CLOSED", "SYN_RCVD", "ESTABLISHED", "CLOSE_WAIT"} : [r EXCEPT !.state = x] \in PcbRecord
         /\ \A x \in Conns \cup {0} : [r EXCEPT !.arg = x] \in PcbRecord
         /\ \A x \in BOOLEAN : [r EXCEPT !.pend = x] \in PcbRecord
         /\ \A x \in Int : [r EXCEPT !.snd = x] \in PcbRecord
         /\ \A x \in {"none", "data", "fin"} : [r EXCEPT !.refused = x] \in PcbRecord
         /\ \A x \in Int : [r EXCEPT !.unread = x] \in PcbRecord
         /\ \A x \in BOOLEAN : [r EXCEPT !.rxclosed = x] \in PcbRecord
<1>1. \A x \in {"CLOSED", "SYN_RCVD", "ESTABLISHED", "CLOSE_WAIT"} : [r EXCEPT !.state = x] \in PcbRecord
  BY SMT DEF PcbRecord
<1>2. \A x \in Conns \cup {0} : [r EXCEPT !.arg = x] \in PcbRecord
  BY SMT DEF PcbRecord
<1>3. \A x \in BOOLEAN : [r EXCEPT !.pend = x] \in PcbRecord
  BY SMT DEF PcbRecord
<1>4. \A x \in Int : [r EXCEPT !.snd = x] \in PcbRecord
  BY SMT DEF PcbRecord
<1>5. \A x \in {"none", "data", "fin"} : [r EXCEPT !.refused = x] \in PcbRecord
  BY SMT DEF PcbRecord
<1>6. \A x \in Int : [r EXCEPT !.unread = x] \in PcbRecord
  BY SMT DEF PcbRecord
<1>7. \A x \in BOOLEAN : [r EXCEPT !.rxclosed = x] \in PcbRecord
  BY SMT DEF PcbRecord
<1>. QED
  BY <1>1, <1>2, <1>3, <1>4, <1>5, <1>6, <1>7, Zenon

LEMMA NetconnUpdates ==
  ASSUME NEW r \in ConnRec
  PROVE  /\ \A x \in BOOLEAN : [r EXCEPT !.alive = x] \in ConnRec
         /\ \A x \in Pcbs \cup {0} : [r EXCEPT !.pcb = x] \in ConnRec
         /\ \A x \in {"NONE", "WRITE", "CLOSE"} : [r EXCEPT !.state = x] \in ConnRec
         /\ \A x \in {"OK", "FATAL"} : [r EXCEPT !.last_err = x] \in ConnRec
         /\ \A x \in BOOLEAN : [r EXCEPT !.valid = x] \in ConnRec
         /\ \A x \in Seq({"data", "NULL"}) : [r EXCEPT !.recvmbox = x] \in ConnRec
         /\ \A x \in {"NULL", "write", "shutrd", "close", "delete"} : [r EXCEPT !.msg = x] \in ConnRec
         /\ \A x \in Int : [r EXCEPT !.left = x] \in ConnRec
         /\ \A x \in Int : [r EXCEPT !.sem = x] \in ConnRec
<1>1. \A x \in BOOLEAN : [r EXCEPT !.alive = x] \in ConnRec
  BY SMT DEF ConnRec
<1>2. \A x \in Pcbs \cup {0} : [r EXCEPT !.pcb = x] \in ConnRec
  BY SMT DEF ConnRec
<1>3. \A x \in {"NONE", "WRITE", "CLOSE"} : [r EXCEPT !.state = x] \in ConnRec
  BY SMT DEF ConnRec
<1>4. \A x \in {"OK", "FATAL"} : [r EXCEPT !.last_err = x] \in ConnRec
  BY SMT DEF ConnRec
<1>5. \A x \in BOOLEAN : [r EXCEPT !.valid = x] \in ConnRec
  BY SMT DEF ConnRec
<1>6. \A x \in Seq({"data", "NULL"}) : [r EXCEPT !.recvmbox = x] \in ConnRec
  BY SMT DEF ConnRec
<1>7. \A x \in {"NULL", "write", "shutrd", "close", "delete"} : [r EXCEPT !.msg = x] \in ConnRec
  BY SMT DEF ConnRec
<1>8. \A x \in Int : [r EXCEPT !.left = x] \in ConnRec
  BY SMT DEF ConnRec
<1>9. \A x \in Int : [r EXCEPT !.sem = x] \in ConnRec
  BY SMT DEF ConnRec
<1>. QED
  BY <1>1, <1>2, <1>3, <1>4, <1>5, <1>6, <1>7, <1>8, <1>9, Zenon

LEMMA AppUpdates ==
  ASSUME NEW r \in AppRecord
  PROVE  /\ \A x \in AppPcs : [r EXCEPT !.pc = x] \in AppRecord
         /\ \A x \in Conns \cup {0} : [r EXCEPT !.n = x] \in AppRecord
         /\ \A x \in {"none", "data", "NULL"} : [r EXCEPT !.got = x] \in AppRecord
<1>1. \A x \in AppPcs : [r EXCEPT !.pc = x] \in AppRecord
  BY SMT DEF AppRecord
<1>2. \A x \in Conns \cup {0} : [r EXCEPT !.n = x] \in AppRecord
  BY SMT DEF AppRecord
<1>3. \A x \in {"none", "data", "NULL"} : [r EXCEPT !.got = x] \in AppRecord
  BY SMT DEF AppRecord
<1>. QED
  BY <1>1, <1>2, <1>3, Zenon

LEMMA StackUpdates ==
  ASSUME NEW r \in StackRecord
  PROVE  /\ \A x \in [Pcbs -> PcbRecord] : [r EXCEPT !.pcb = x] \in StackRecord
         /\ \A x \in [Conns -> ConnRec] : [r EXCEPT !.conn = x] \in StackRecord
         /\ \A x \in Int : [r EXCEPT !.pending = x] \in StackRecord
         /\ \A x \in Seq(Conns \cup {ABORTED}) : [r EXCEPT !.mbox = x] \in StackRecord
         /\ \A x \in Int : [r EXCEPT !.pbufs = x] \in StackRecord
<1>1. \A x \in [Pcbs -> PcbRecord] : [r EXCEPT !.pcb = x] \in StackRecord
  BY SMT DEF StackRecord
<1>2. \A x \in [Conns -> ConnRec] : [r EXCEPT !.conn = x] \in StackRecord
  BY SMT DEF StackRecord
<1>3. \A x \in Int : [r EXCEPT !.pending = x] \in StackRecord
  BY SMT DEF StackRecord
<1>4. \A x \in Seq(Conns \cup {ABORTED}) : [r EXCEPT !.mbox = x] \in StackRecord
  BY SMT DEF StackRecord
<1>5. \A x \in Int : [r EXCEPT !.pbufs = x] \in StackRecord
  BY SMT DEF StackRecord
<1>. QED
  BY <1>1, <1>2, <1>3, <1>4, <1>5, Zenon

\* The fields of the records.
LEMMA PcbFields ==
  ASSUME NEW r \in PcbRecord
  PROVE  /\ r.state \in {"CLOSED", "SYN_RCVD", "ESTABLISHED", "CLOSE_WAIT"}
         /\ r.arg \in Conns \cup {0}
         /\ r.pend \in BOOLEAN
         /\ r.snd \in Int
         /\ r.refused \in {"none", "data", "fin"}
         /\ r.unread \in Int
         /\ r.rxclosed \in BOOLEAN
  BY SMT DEF PcbRecord

LEMMA NetconnFields ==
  ASSUME NEW r \in ConnRec
  PROVE  /\ r.alive \in BOOLEAN
         /\ r.pcb \in Pcbs \cup {0}
         /\ r.state \in {"NONE", "WRITE", "CLOSE"}
         /\ r.last_err \in {"OK", "FATAL"}
         /\ r.valid \in BOOLEAN
         /\ r.recvmbox \in Seq({"data", "NULL"})
         /\ r.msg \in {"NULL", "write", "shutrd", "close", "delete"}
         /\ r.left \in Int
         /\ r.sem \in Int
  BY SMT DEF ConnRec

LEMMA AppFields ==
  ASSUME NEW r \in AppRecord
  PROVE  /\ r.pc \in AppPcs
         /\ r.n \in Conns \cup {0}
         /\ r.got \in {"none", "data", "NULL"}
  BY SMT DEF AppRecord

LEMMA StackFields ==
  ASSUME NEW r \in StackRecord
  PROVE  /\ r.pcb \in [Pcbs -> PcbRecord]
         /\ r.conn \in [Conns -> ConnRec]
         /\ r.pending \in Int
         /\ r.mbox \in Seq(Conns \cup {ABORTED})
         /\ r.pbufs \in Int
  BY SMT DEF StackRecord

\* The constants.
LEMMA NetconnConstants ==
  /\ MEMP_NUM_TCP_PCB \in Nat /\ MEMP_NUM_NETCONN \in Nat
  /\ DEFAULT_TCP_RECVMBOX_SIZE \in Nat /\ DEFAULT_ACCEPTMBOX_SIZE \in Nat
  /\ SndBuf \in Nat /\ WriteLen \in Nat /\ RecvWindow \in Nat /\ ClosePolls \in Nat
  /\ 0 \notin Pcbs /\ 0 \notin Conns /\ ABORTED \notin Conns /\ ABORTED # 0
  /\ Pcbs \subseteq Nat /\ Conns \subseteq Nat /\ ABORTED \in Nat
  /\ IsFiniteSet(Pcbs) /\ IsFiniteSet(Conns)
<1>1. /\ MEMP_NUM_TCP_PCB \in Nat /\ MEMP_NUM_NETCONN \in Nat
      /\ DEFAULT_TCP_RECVMBOX_SIZE \in Nat /\ DEFAULT_ACCEPTMBOX_SIZE \in Nat
      /\ SndBuf \in Nat /\ WriteLen \in Nat /\ RecvWindow \in Nat /\ ClosePolls \in Nat
  BY NetconnAssumption, Zenon
<1>2. /\ 0 \notin Pcbs /\ 0 \notin Conns /\ ABORTED \notin Conns /\ ABORTED # 0
      /\ Pcbs \subseteq Nat /\ Conns \subseteq Nat /\ ABORTED \in Nat
  BY <1>1, SMT DEF Pcbs, Conns, ABORTED
<1>3. IsFiniteSet(Pcbs) /\ IsFiniteSet(Conns)
  BY <1>1, FS_Interval, SMT DEF Pcbs, Conns
<1>. QED
  BY <1>1, <1>2, <1>3, Zenon

\* A record that is empty.
LEMMA NoRecords ==
  /\ NoPcb \in PcbRecord /\ NoConn \in ConnRec
  /\ NoPcb.state = "CLOSED" /\ NoPcb.arg = 0 /\ ~NoPcb.pend /\ NoPcb.snd = 0 /\ NoPcb.refused = "none" /\ NoPcb.unread = 0
  /\ ~NoConn.alive /\ NoConn.pcb = 0 /\ NoConn.state = "NONE" /\ ~NoConn.valid /\ NoConn.recvmbox = <<>>
  /\ NoConn.msg = "NULL" /\ NoConn.left = 0 /\ NoConn.sem = 0
<1>1. NoPcb \in PcbRecord
  BY SMT DEF NoPcb, PcbRecord
<1>2. <<>> \in Seq({"data", "NULL"})
  OBVIOUS
<1>3. NoConn \in ConnRec
  BY <1>2, SMT DEF NoConn, ConnRec
<1>4. NoPcb.state = "CLOSED" /\ NoPcb.arg = 0 /\ NoPcb.snd = 0 /\ NoPcb.refused = "none" /\ NoPcb.unread = 0
  BY SMT DEF NoPcb
<1>5. ~NoPcb.pend
  BY Zenon DEF NoPcb
<1>6. ~NoConn.alive /\ ~NoConn.valid
  BY Zenon DEF NoConn
<1>7. NoConn.pcb = 0 /\ NoConn.state = "NONE" /\ NoConn.recvmbox = <<>> /\ NoConn.msg = "NULL" /\ NoConn.left = 0 /\ NoConn.sem = 0
  BY SMT DEF NoConn
<1>. QED
  BY <1>1, <1>3, <1>4, <1>5, <1>6, <1>7, Zenon

-----------------------------------------------------------------------------
(* Counting.                                                               *)

\* Sets that a function matches one to one are of the same size.
LEMMA SameSize ==
  ASSUME NEW S, NEW T, IsFiniteSet(T), NEW f \in [S -> T],
         \A a, b \in S : f[a] = f[b] => a = b, \A y \in T : \E a \in S : f[a] = y
  PROVE  IsFiniteSet(S) /\ Cardinality(S) = Cardinality(T)
<1>1. f \in Injection(S, T)
  BY Zenon DEF Injection, IsInjective
<1>2. f \in Surjection(S, T)
  BY Zenon DEF Surjection
<1>. QED
  BY <1>1, <1>2, FS_Injection, Zenon

\* Two sets that differ in one element at most.
LEMMA CountChange ==
  ASSUME NEW S, IsFiniteSet(S), NEW A \in SUBSET S, NEW B \in SUBSET S, NEW p,
         \A q \in S : q # p => (q \in A <=> q \in B)
  PROVE  /\ Cardinality(A) \in Nat /\ Cardinality(B) \in Nat
         /\ Cardinality(B) = Cardinality(A) - (IF p \in A THEN 1 ELSE 0) + (IF p \in B THEN 1 ELSE 0)
<1>1. IsFiniteSet(A) /\ IsFiniteSet(B)
  BY FS_Subset, Zenon
<1>2. Cardinality(A) \in Nat /\ Cardinality(B) \in Nat
  BY <1>1, FS_CardinalityType, Zenon
<1>3. A \ {p} = B \ {p}
  OBVIOUS
<1>4. /\ Cardinality(A \ {p}) = IF p \in A THEN Cardinality(A) - 1 ELSE Cardinality(A)
      /\ Cardinality(B \ {p}) = IF p \in B THEN Cardinality(B) - 1 ELSE Cardinality(B)
  BY <1>1, FS_RemoveElement, Zenon
<1>. QED
  BY <1>2, <1>3, <1>4, SMT

\* The segments in a mailbox.
DataAt(box) == {k \in 1..Len(box) : box[k] = "data"}

LEMMA DataInNat ==
  ASSUME NEW box \in Seq({"data", "NULL"})
  PROVE  IsFiniteSet(DataAt(box)) /\ DataIn(box) = Cardinality(DataAt(box)) /\ DataIn(box) \in Nat
<1>1. IsFiniteSet(1..Len(box))
  BY FS_Interval, LenProperties, SMT
<1>2. DataAt(box) \subseteq 1..Len(box)
  BY Zenon DEF DataAt
<1>3. IsFiniteSet(DataAt(box))
  BY <1>1, <1>2, FS_Subset, Zenon
<1>4. Cardinality(DataAt(box)) \in Nat
  BY <1>3, FS_CardinalityType, Zenon
<1>. QED
  BY <1>3, <1>4, Zenon DEF DataIn, DataAt

LEMMA DataInEmpty == DataIn(<<>>) = 0
<1>1. {k \in 1..Len(<<>>) : <<>>[k] = "data"} = {}
  BY SMT
<1>. QED
  BY <1>1, FS_EmptySet, Zenon DEF DataIn

LEMMA DataInAppend ==
  ASSUME NEW box \in Seq({"data", "NULL"}), NEW item \in {"data", "NULL"}
  PROVE  DataIn(Append(box, item)) = DataIn(box) + (IF item = "data" THEN 1 ELSE 0)
<1>. DEFINE more == Append(box, item)
<1>1. /\ more \in Seq({"data", "NULL"}) /\ Len(more) = Len(box) + 1 /\ more[Len(box) + 1] = item
      /\ \A k \in 1..Len(box) : more[k] = box[k]
  BY AppendProperties
<1>2. Len(box) \in Nat
  BY LenProperties
<1>. HIDE DEF more
<1>3. Len(box) + 1 \notin DataAt(box)
  BY <1>2, SMT DEF DataAt
<1>4. IsFiniteSet(DataAt(box)) /\ DataIn(box) = Cardinality(DataAt(box)) /\ DataIn(more) = Cardinality(DataAt(more))
  BY <1>1, DataInNat, Zenon
<1>5. CASE item = "data"
  <2>1. DataAt(more) = DataAt(box) \cup {Len(box) + 1}
    BY <1>1, <1>2, <1>5, SMT DEF DataAt
  <2>2. Cardinality(DataAt(box) \cup {Len(box) + 1}) = Cardinality(DataAt(box)) + 1
    BY <1>3, <1>4, FS_AddElement, Zenon
  <2>. QED
    BY <1>4, <1>5, <2>1, <2>2, Zenon DEF more
<1>6. CASE item # "data"
  <2>1. DataAt(more) = DataAt(box)
    BY <1>1, <1>2, <1>6, SMT DEF DataAt
  <2>2. DataIn(box) \in Nat
    BY DataInNat, Zenon
  <2>3. DataIn(more) = DataIn(box)
    BY <1>4, <2>1, Zenon
  <2>4. DataIn(box) = DataIn(box) + 0
    BY <2>2, SMT
  <2>. QED
    BY <1>6, <2>3, <2>4, Zenon DEF more
<1>. QED
  BY <1>5, <1>6, Zenon

LEMMA DataInTail ==
  ASSUME NEW box \in Seq({"data", "NULL"}), box # <<>>
  PROVE  /\ Tail(box) \in Seq({"data", "NULL"}) /\ Head(box) \in {"data", "NULL"} /\ Len(Tail(box)) = Len(box) - 1
         /\ DataIn(box) = DataIn(Tail(box)) + (IF Head(box) = "data" THEN 1 ELSE 0)
<1>. DEFINE rest == Tail(box)
            old == DataAt(box) \ {1}
            f == [k \in DataAt(rest) |-> k + 1]
<1>1. /\ rest \in Seq({"data", "NULL"}) /\ Len(rest) = Len(box) - 1 /\ \A k \in 1..Len(rest) : rest[k] = box[k + 1]
      /\ Head(box) = box[1] /\ Len(box) \in Nat /\ Len(box) >= 1 /\ box[1] \in {"data", "NULL"}
  BY SMT
<1>. HIDE DEF rest
<1>2. IsFiniteSet(DataAt(box)) /\ DataIn(box) = Cardinality(DataAt(box)) /\ DataIn(box) \in Nat
  BY DataInNat, Zenon
<1>3. DataIn(rest) = Cardinality(DataAt(rest)) /\ DataIn(rest) \in Nat
  BY <1>1, DataInNat, Zenon
<1>4. IsFiniteSet(old) /\ Cardinality(old) = IF 1 \in DataAt(box) THEN Cardinality(DataAt(box)) - 1 ELSE Cardinality(DataAt(box))
  BY <1>2, FS_RemoveElement, Zenon
<1>5. 1 \in DataAt(box) <=> box[1] = "data"
  BY <1>1, SMT DEF DataAt
<1>6. f \in [DataAt(rest) -> old]
  <2>1. ASSUME NEW k \in DataAt(rest) PROVE k + 1 \in old
    BY <1>1, <2>1, SMT DEF DataAt
  <2>. QED
    BY <2>1
<1>7. \A a, b \in DataAt(rest) : f[a] = f[b] => a = b
  <2>1. \A a \in DataAt(rest) : f[a] = a + 1 /\ a \in Int
    BY SMT DEF DataAt
  <2>. QED
    BY <2>1, SMT
<1>8. \A y \in old : \E a \in DataAt(rest) : f[a] = y
  <2>. SUFFICES ASSUME NEW y \in old PROVE \E a \in DataAt(rest) : f[a] = y
    OBVIOUS
  <2>1. y \in 1..Len(box) /\ y # 1 /\ box[y] = "data"
    BY SMT DEF DataAt
  <2>2. y - 1 \in 1..Len(rest) /\ (y - 1) + 1 = y /\ y - 1 \in Int
    BY <1>1, <2>1, SMT
  <2>3. rest[y - 1] = box[(y - 1) + 1]
    BY <1>1, <2>2, Zenon
  <2>4. y - 1 \in DataAt(rest)
    BY <2>1, <2>2, <2>3, Zenon DEF DataAt
  <2>5. f[y - 1] = y
    BY <2>2, <2>4, Zenon
  <2>. QED
    BY <2>4, <2>5, Zenon
<1>. HIDE DEF f, old
<1>9. Cardinality(DataAt(rest)) = Cardinality(old)
  BY <1>4, <1>6, <1>7, <1>8, SameSize, Zenon
<1>10. DataIn(box) = DataIn(rest) + (IF box[1] = "data" THEN 1 ELSE 0)
  BY <1>2, <1>3, <1>4, <1>5, <1>9, SMT
<1>. QED
  BY <1>1, <1>10, Zenon DEF rest

\* The segments in all mailboxes but one, and in that one.
Cells == Conns \X (1..DEFAULT_TCP_RECVMBOX_SIZE)
Elsewhere(cs, n) == {x \in Boxed(cs) : x[1] # n}

LEMMA BoxedSplit ==
  ASSUME NEW cs \in [Conns -> ConnRec], NEW n \in Conns, Len(cs[n].recvmbox) <= DEFAULT_TCP_RECVMBOX_SIZE
  PROVE  /\ Cardinality(Boxed(cs)) \in Nat /\ Cardinality(Elsewhere(cs, n)) \in Nat
         /\ Cardinality(Boxed(cs)) = Cardinality(Elsewhere(cs, n)) + DataIn(cs[n].recvmbox)
<1>. DEFINE box == cs[n].recvmbox
            here == {x \in Boxed(cs) : x[1] = n}
            f == [x \in here |-> x[2]]
<1>1. box \in Seq({"data", "NULL"})
  <2>1. cs[n] \in ConnRec
    OBVIOUS
  <2>. QED
    BY <2>1, NetconnFields, Zenon
<1>2. IsFiniteSet(Cells)
  <2>1. IsFiniteSet(1..DEFAULT_TCP_RECVMBOX_SIZE)
    BY NetconnConstants, FS_Interval, SMT
  <2>. QED
    BY <2>1, NetconnConstants, FS_Product, Zenon DEF Cells
<1>3. Boxed(cs) \subseteq Cells /\ here \subseteq Boxed(cs) /\ Elsewhere(cs, n) \subseteq Boxed(cs)
  BY Zenon DEF Boxed, Cells, Elsewhere
<1>4. IsFiniteSet(Boxed(cs))
  BY <1>2, <1>3, FS_Subset, Zenon
<1>5. IsFiniteSet(here) /\ IsFiniteSet(Elsewhere(cs, n))
  BY <1>3, <1>4, FS_Subset, Zenon
<1>6. /\ Cardinality(Boxed(cs)) \in Nat /\ Cardinality(Elsewhere(cs, n)) \in Nat /\ Cardinality(here) \in Nat
  BY <1>4, <1>5, FS_CardinalityType, Zenon
<1>7. Cardinality(Elsewhere(cs, n)) = Cardinality(Boxed(cs)) - Cardinality(here)
  <2>1. Boxed(cs) \ here = Elsewhere(cs, n) /\ Boxed(cs) \cap here = here
    BY Zenon DEF Elsewhere
  <2>. QED
    BY <1>4, <2>1, FS_Difference, Zenon
<1>8. IsFiniteSet(DataAt(box)) /\ DataIn(box) = Cardinality(DataAt(box))
  BY <1>1, DataInNat, Zenon
<1>9. \A x \in here : x \in Cells /\ x[1] = n /\ x[2] <= Len(box) /\ box[x[2]] = "data"
  BY Zenon DEF Boxed, Cells
<1>10. \A x \in Cells : x = <<x[1], x[2]>> /\ x[2] \in 1..DEFAULT_TCP_RECVMBOX_SIZE
  BY SMT DEF Cells
<1>11. ASSUME NEW k \in DataAt(box) PROVE <<n, k>> \in here
  <2>1. k \in 1..Len(box) /\ box[k] = "data" /\ Len(box) \in Nat
    BY <1>1, LenProperties, Zenon DEF DataAt
  <2>2. k \in 1..DEFAULT_TCP_RECVMBOX_SIZE /\ k <= Len(box)
    BY <2>1, NetconnConstants, SMT
  <2>3. <<n, k>> \in Cells /\ <<n, k>>[1] = n /\ <<n, k>>[2] = k
    BY <2>2, SMT DEF Cells
  <2>. HIDE DEF box
  <2>4. <<n, k>> \in Boxed(cs)
    BY <2>1, <2>2, <2>3, Zenon DEF Boxed, Cells, box
  <2>. QED
    BY <2>3, <2>4, Zenon
<1>. HIDE DEF here
<1>12. f \in [here -> DataAt(box)]
  <2>1. ASSUME NEW x \in here PROVE x[2] \in DataAt(box)
    <3>1. Len(box) \in Nat
      BY <1>1, LenProperties, Zenon
    <3>2. x[2] \in 1..Len(box)
      BY <1>9, <1>10, <3>1, NetconnConstants, SMT
    <3>. QED
      BY <1>9, <3>2, Zenon DEF DataAt
  <2>. QED
    BY <2>1, Zenon
<1>13. \A a, b \in here : f[a] = f[b] => a = b
  <2>. SUFFICES ASSUME NEW a \in here, NEW b \in here, f[a] = f[b] PROVE a = b
    BY Zenon
  <2>1. a[2] = b[2]
    BY Zenon
  <2>2. a = <<n, a[2]>> /\ b = <<n, b[2]>>
    BY <1>9, <1>10, Zenon
  <2>. QED
    BY <2>1, <2>2, Zenon
<1>14. \A y \in DataAt(box) : \E a \in here : f[a] = y
  <2>1. ASSUME NEW y \in DataAt(box) PROVE \E a \in here : f[a] = y
    <3>1. <<n, y>> \in here /\ <<n, y>>[2] = y
      BY <1>11
    <3>. QED
      BY <3>1, Zenon
  <2>. QED
    BY <2>1, Zenon
<1>. HIDE DEF f
<1>15. Cardinality(here) = DataIn(box)
  BY <1>8, <1>12, <1>13, <1>14, SameSize, Zenon
<1>16. Cardinality(Boxed(cs)) = Cardinality(Elsewhere(cs, n)) + Cardinality(here)
  BY <1>6, <1>7, SMT
<1>. QED
  BY <1>6, <1>15, <1>16, Zenon

BoxOf(cs, n) == IF n = 0 THEN 0 ELSE DataIn(cs[n].recvmbox)

\* What a change of one mailbox is to the count.
LEMMA BoxedChange ==
  ASSUME NEW cs \in [Conns -> ConnRec], NEW ds \in [Conns -> ConnRec], NEW n \in Conns \cup {0},
         \A m \in Conns : m # n => ds[m] = cs[m],
         \A m \in Conns : Len(cs[m].recvmbox) <= DEFAULT_TCP_RECVMBOX_SIZE,
         \A m \in Conns : Len(ds[m].recvmbox) <= DEFAULT_TCP_RECVMBOX_SIZE
  PROVE  /\ Cardinality(Boxed(ds)) = Cardinality(Boxed(cs)) - BoxOf(cs, n) + BoxOf(ds, n)
         /\ Cardinality(Boxed(cs)) \in Nat /\ BoxOf(cs, n) \in Nat /\ BoxOf(ds, n) \in Nat
<1>1. CASE n = 0
  <2>1. \A m \in Conns : ds[m] = cs[m]
    BY <1>1, NetconnConstants, Zenon
  <2>2. \A x \in Conns \X (1..DEFAULT_TCP_RECVMBOX_SIZE) : x[1] \in Conns
    BY SMT
  <2>3. Boxed(ds) = Boxed(cs)
    BY <2>1, <2>2, Zenon DEF Boxed
  <2>4. 1 \in Conns
    BY NetconnAssumption, SMT DEF Conns
  <2>5. Cardinality(Boxed(cs)) \in Nat
    BY <2>4, BoxedSplit, Zenon
  <2>6. BoxOf(cs, n) = 0 /\ BoxOf(ds, n) = 0
    BY <1>1, Zenon DEF BoxOf
  <2>. QED
    BY <2>3, <2>5, <2>6, SMT
<1>2. CASE n # 0
  <2>1. n \in Conns
    BY <1>2, Zenon
  <2>2. \A x \in Conns \X (1..DEFAULT_TCP_RECVMBOX_SIZE) : x[1] \in Conns
    BY SMT
  <2>3. Elsewhere(ds, n) = Elsewhere(cs, n)
    BY <2>1, <2>2, Zenon DEF Elsewhere, Boxed
  <2>4. /\ Cardinality(Boxed(cs)) \in Nat /\ Cardinality(Elsewhere(cs, n)) \in Nat
        /\ Cardinality(Boxed(cs)) = Cardinality(Elsewhere(cs, n)) + DataIn(cs[n].recvmbox)
    BY <2>1, BoxedSplit, Zenon
  <2>5. Cardinality(Boxed(ds)) = Cardinality(Elsewhere(cs, n)) + DataIn(ds[n].recvmbox)
    BY <2>1, <2>3, BoxedSplit, Zenon
  <2>6. BoxOf(cs, n) = DataIn(cs[n].recvmbox) /\ BoxOf(ds, n) = DataIn(ds[n].recvmbox)
    BY <1>2, Zenon DEF BoxOf
  <2>7. DataIn(cs[n].recvmbox) \in Nat /\ DataIn(ds[n].recvmbox) \in Nat
    <3>1. cs[n] \in ConnRec /\ ds[n] \in ConnRec
      BY <2>1, Zenon
    <3>. QED
      BY <3>1, NetconnFields, DataInNat, Zenon
  <2>. QED
    BY <2>4, <2>5, <2>6, <2>7, SMT
<1>. QED
  BY <1>1, <1>2, Zenon

-----------------------------------------------------------------------------
(* Steps that change one pcb and one netconn.                              *)

PendOf(ps, p) == IF p # 0 /\ ps[p].pend THEN 1 ELSE 0
RefusedOf(ps, p) == IF p = 0 THEN 0 ELSE Refused(ps[p])
HeldOf(h) == IF h = 0 THEN 0 ELSE 1

\* What a change of one pcb is to the counts.
LEMMA PcbCounts ==
  ASSUME NEW ps \in [Pcbs -> PcbRecord], NEW qs \in [Pcbs -> PcbRecord], NEW p \in Pcbs \cup {0},
         \A q \in Pcbs : q # p => qs[q] = ps[q]
  PROVE  /\ Cardinality(Pending(ps)) \in Nat /\ Cardinality(Refusing(ps)) \in Nat
         /\ Cardinality(Pending(qs)) = Cardinality(Pending(ps)) - PendOf(ps, p) + PendOf(qs, p)
         /\ Cardinality(Refusing(qs)) = Cardinality(Refusing(ps)) - RefusedOf(ps, p) + RefusedOf(qs, p)
<1>0. IsFiniteSet(Pcbs)
  BY NetconnConstants, Zenon
<1>1. /\ Pending(ps) \in SUBSET Pcbs /\ Pending(qs) \in SUBSET Pcbs
      /\ Refusing(ps) \in SUBSET Pcbs /\ Refusing(qs) \in SUBSET Pcbs
  BY Zenon DEF Pending, Refusing
<1>2. \A q \in Pcbs : q # p => (q \in Pending(ps) <=> q \in Pending(qs))
  BY Zenon DEF Pending
<1>3. \A q \in Pcbs : q # p => (q \in Refusing(ps) <=> q \in Refusing(qs))
  BY Zenon DEF Refusing
<1>4. /\ Cardinality(Pending(ps)) \in Nat
      /\ Cardinality(Pending(qs)) =
           Cardinality(Pending(ps)) - (IF p \in Pending(ps) THEN 1 ELSE 0) + (IF p \in Pending(qs) THEN 1 ELSE 0)
  BY <1>0, <1>1, <1>2, CountChange
<1>5. /\ Cardinality(Refusing(ps)) \in Nat
      /\ Cardinality(Refusing(qs)) =
           Cardinality(Refusing(ps)) - (IF p \in Refusing(ps) THEN 1 ELSE 0) + (IF p \in Refusing(qs) THEN 1 ELSE 0)
  BY <1>0, <1>1, <1>3, CountChange
<1>6. p # 0 <=> p \in Pcbs
  BY NetconnConstants, Zenon
<1>7. (IF p \in Pending(ps) THEN 1 ELSE 0) = PendOf(ps, p) /\ (IF p \in Pending(qs) THEN 1 ELSE 0) = PendOf(qs, p)
  BY <1>6, Zenon DEF PendOf, Pending
<1>8. /\ (IF p \in Refusing(ps) THEN 1 ELSE 0) = RefusedOf(ps, p)
      /\ (IF p \in Refusing(qs) THEN 1 ELSE 0) = RefusedOf(qs, p)
  <2>1. CASE p = 0
    BY <1>6, <2>1, Zenon DEF RefusedOf, Refusing
  <2>2. CASE p # 0
    BY <1>6, <2>2, Zenon DEF RefusedOf, Refusing, Refused
  <2>. QED
    BY <2>1, <2>2, Zenon
<1>. QED
  BY <1>4, <1>5, <1>7, <1>8, Zenon

\* The pcb p, if it is not 0, and the netconn n, if it is not 0, belong to each other or to nobody.
Apart(ps, cs, p, n) ==
  /\ p # 0 => ps[p].arg \in {0, n}
  /\ n # 0 => cs[n].pcb \in {0, p}
  /\ p # 0 /\ n # 0 => (ps[p].arg = n <=> cs[n].pcb = p)

\* Only p and n change, and they end well by themselves and with each other.
LEMMA TidyStep ==
  ASSUME NEW ps, NEW cs, NEW pending \in Int, NEW pbufs \in Int, NEW h, Tidy(ps, cs, pending, pbufs, h),
         NEW qs \in [Pcbs -> PcbRecord], NEW ds \in [Conns -> ConnRec], NEW pending2 \in Int, NEW pbufs2 \in Int,
         NEW g \in Conns \cup {0},
         NEW p \in Pcbs \cup {0}, NEW n \in Conns \cup {0},
         \A q \in Pcbs : q # p => qs[q] = ps[q],
         \A m \in Conns : m # n => ds[m] = cs[m],
         p # 0 => PcbOK(qs[p]), n # 0 => ConnOK(ds[n]),
         Apart(ps, cs, p, n), Apart(qs, ds, p, n),
         p # 0 /\ n # 0 /\ qs[p].arg = n => qs[p].unread >= DataIn(ds[n].recvmbox) + Refused(qs[p]) + InHand(g, n),
         \A m \in Conns : m # n => (h = m <=> g = m),
         n # 0 /\ g = n => ds[n].alive,
         pending2 = pending - PendOf(ps, p) + PendOf(qs, p),
         pbufs2 = pbufs - BoxOf(cs, n) + BoxOf(ds, n) - RefusedOf(ps, p) + RefusedOf(qs, p) - HeldOf(h) + HeldOf(g)
  PROVE  Tidy(qs, ds, pending2, pbufs2, g)
<1>0. /\ ps \in [Pcbs -> PcbRecord] /\ cs \in [Conns -> ConnRec] /\ h \in Conns \cup {0}
      /\ \A q \in Pcbs : PcbOK(ps[q])
      /\ \A m \in Conns : ConnOK(cs[m])
      /\ h # 0 => cs[h].alive
      /\ Joined(ps, cs, h) /\ Counts(ps, cs, pending, pbufs, h)
  BY Zenon DEF Tidy
<1>1. \A x : (x \in Conns => x # 0) /\ (x \in Pcbs => x # 0)
  BY NetconnConstants, Zenon
<1>2. \A q \in Pcbs : PcbOK(qs[q])
  <2>1. ASSUME NEW q \in Pcbs PROVE PcbOK(qs[q])
    <3>1. CASE q = p
      BY <1>1, <3>1, Zenon
    <3>2. CASE q # p
      <4>1. qs[q] = ps[q]
        BY <3>2, Zenon
      <4>. QED
        BY <1>0, <4>1, Zenon
    <3>. QED
      BY <3>1, <3>2, Zenon
  <2>. QED
    BY <2>1, Zenon
<1>3. \A m \in Conns : ConnOK(ds[m])
  <2>1. ASSUME NEW m \in Conns PROVE ConnOK(ds[m])
    <3>1. CASE m = n
      BY <1>1, <3>1, Zenon
    <3>2. CASE m # n
      <4>1. ds[m] = cs[m]
        BY <3>2, Zenon
      <4>. QED
        BY <1>0, <4>1, Zenon
    <3>. QED
      BY <3>1, <3>2, Zenon
  <2>. QED
    BY <2>1, Zenon
<1>4. g # 0 => ds[g].alive
  <2>. SUFFICES ASSUME g # 0 PROVE ds[g].alive
    BY Zenon
  <2>1. g \in Conns
    BY Zenon
  <2>2. CASE g = n
    BY <2>2, Zenon
  <2>3. CASE g # n
    <3>1. h = g /\ ds[g] = cs[g]
      BY <2>1, <2>3, Zenon
    <3>2. cs[g].alive
      BY <1>0, <1>1, <2>1, <3>1, Zenon
    <3>. QED
      BY <3>1, <3>2, Zenon
  <2>. QED
    BY <2>2, <2>3, Zenon
<1>5. ASSUME NEW q \in Pcbs, qs[q].arg # 0
      PROVE  /\ ds[qs[q].arg].pcb = q
             /\ qs[q].unread >= DataIn(ds[qs[q].arg].recvmbox) + Refused(qs[q]) + InHand(g, qs[q].arg)
  <2>1. CASE q = p
    <3>1. p # 0
      BY <1>1, <2>1, Zenon
    <3>2. qs[p].arg = n /\ n # 0
      BY <1>5, <2>1, <3>1, Zenon DEF Apart
    <3>3. ds[n].pcb = p
      BY <3>1, <3>2, Zenon DEF Apart
    <3>. QED
      BY <2>1, <3>1, <3>2, <3>3, Zenon
  <2>2. CASE q # p
    <3>1. qs[q] = ps[q]
      BY <2>2, Zenon
    <3>2. /\ cs[ps[q].arg].pcb = q
          /\ ps[q].unread >= DataIn(cs[ps[q].arg].recvmbox) + Refused(ps[q]) + InHand(h, ps[q].arg)
      BY <1>0, <1>5, <3>1, Zenon DEF Joined
    <3>3. ps[q].arg \in Conns
      <4>1. ps[q] \in PcbRecord
        BY <1>0, Zenon
      <4>. QED
        BY <1>5, <3>1, <4>1, PcbFields, Zenon
    <3>4. ps[q].arg # n
      <4>1. ASSUME ps[q].arg = n PROVE FALSE
        <5>1. n # 0 /\ cs[n].pcb = q
          BY <1>1, <3>2, <3>3, <4>1, Zenon
        <5>. QED
          BY <1>1, <2>2, <5>1, Zenon DEF Apart
      <4>. QED
        BY <4>1, Zenon
    <3>5. ds[ps[q].arg] = cs[ps[q].arg]
      BY <3>3, <3>4, Zenon
    <3>6. InHand(g, ps[q].arg) = InHand(h, ps[q].arg)
      BY <3>3, <3>4, Zenon DEF InHand
    <3>. QED
      BY <3>1, <3>2, <3>5, <3>6, Zenon
  <2>. QED
    BY <2>1, <2>2, Zenon
<1>6. ASSUME NEW m \in Conns, ds[m].pcb # 0 PROVE qs[ds[m].pcb].arg = m
  <2>1. CASE m = n
    <3>1. n # 0
      BY <1>1, <2>1, Zenon
    <3>2. ds[n].pcb = p /\ p # 0
      BY <1>6, <2>1, <3>1, Zenon DEF Apart
    <3>3. qs[p].arg = n
      BY <3>1, <3>2, Zenon DEF Apart
    <3>. QED
      BY <2>1, <3>2, <3>3, Zenon
  <2>2. CASE m # n
    <3>1. ds[m] = cs[m]
      BY <2>2, Zenon
    <3>2. ps[cs[m].pcb].arg = m
      BY <1>0, <1>6, <3>1, Zenon DEF Joined
    <3>3. cs[m].pcb \in Pcbs
      <4>1. cs[m] \in ConnRec
        BY <1>0, Zenon
      <4>. QED
        BY <1>6, <3>1, <4>1, NetconnFields, Zenon
    <3>4. cs[m].pcb # p
      <4>1. ASSUME cs[m].pcb = p PROVE FALSE
        <5>1. p # 0 /\ ps[p].arg = m
          BY <1>1, <3>2, <3>3, <4>1, Zenon
        <5>. QED
          BY <1>1, <2>2, <5>1, Zenon DEF Apart
      <4>. QED
        BY <4>1, Zenon
    <3>5. qs[cs[m].pcb] = ps[cs[m].pcb]
      BY <3>3, <3>4, Zenon
    <3>. QED
      BY <3>1, <3>2, <3>5, Zenon
  <2>. QED
    BY <2>1, <2>2, Zenon
<1>7. Joined(qs, ds, g)
  BY <1>5, <1>6, Zenon DEF Joined
<1>8. /\ Cardinality(Pending(ps)) \in Nat /\ Cardinality(Refusing(ps)) \in Nat
      /\ Cardinality(Pending(qs)) = Cardinality(Pending(ps)) - PendOf(ps, p) + PendOf(qs, p)
      /\ Cardinality(Refusing(qs)) = Cardinality(Refusing(ps)) - RefusedOf(ps, p) + RefusedOf(qs, p)
  BY <1>0, PcbCounts, Zenon
<1>9. /\ Cardinality(Boxed(ds)) = Cardinality(Boxed(cs)) - BoxOf(cs, n) + BoxOf(ds, n)
      /\ Cardinality(Boxed(cs)) \in Nat /\ BoxOf(cs, n) \in Nat /\ BoxOf(ds, n) \in Nat
  <2>1. \A m \in Conns : Len(cs[m].recvmbox) <= DEFAULT_TCP_RECVMBOX_SIZE
    BY <1>0, Zenon DEF ConnOK
  <2>2. \A m \in Conns : Len(ds[m].recvmbox) <= DEFAULT_TCP_RECVMBOX_SIZE
    BY <1>3, Zenon DEF ConnOK
  <2>. QED
    BY <1>0, <2>1, <2>2, BoxedChange, Zenon
<1>10. /\ pending = Cardinality(Pending(ps))
       /\ pbufs = Cardinality(Boxed(cs)) + Cardinality(Refusing(ps)) + HeldOf(h)
  BY <1>0, Zenon DEF Counts, HeldOf
<1>11. pending2 = Cardinality(Pending(qs))
  BY <1>8, <1>10, Zenon
<1>12. pbufs2 = Cardinality(Boxed(ds)) + Cardinality(Refusing(qs)) + HeldOf(g)
  <2>1. RefusedOf(ps, p) \in Int /\ RefusedOf(qs, p) \in Int /\ HeldOf(h) \in Int /\ HeldOf(g) \in Int
    BY SMT DEF RefusedOf, Refused, HeldOf
  <2>. QED
    BY <1>8, <1>9, <1>10, <2>1, SMT
<1>13. Counts(qs, ds, pending2, pbufs2, g)
  BY <1>11, <1>12, Zenon DEF Counts, HeldOf
<1>. QED
  BY <1>2, <1>3, <1>4, <1>7, <1>13, Zenon DEF Tidy

-----------------------------------------------------------------------------
(* The state of the stack.                                                 *)

Sane(s, h) == s \in StackRecord /\ Tidy(s.pcb, s.conn, s.pending, s.pbufs, h)

\* What a callback may do to a netconn that a thread uses: an operation in progress ends with a signal,
\* and a close that ends has no pcb any more.
Gentle(C, D) ==
  /\ D.alive <=> C.alive
  /\ D.valid <=> C.valid
  /\ C.pcb = 0 => D.pcb = 0
  /\ Busy(D) <=> Busy(C)
  /\ D.msg = C.msg \/ (D.msg = "NULL" /\ (C.msg \in {"close", "delete"} => D.pcb = 0))

Serves(s, t, h) ==
  Sane(t, h) /\ t.mbox = s.mbox /\ \A m \in Conns : Gentle(s.conn[m], t.conn[m])

LEMMA GentleSelf == ASSUME NEW C PROVE Gentle(C, C)
  BY Zenon DEF Gentle

LEMMA GentleTwice ==
  ASSUME NEW C, NEW D, NEW E, Gentle(C, D), Gentle(D, E)
  PROVE  Gentle(C, E)
<1>1. /\ E.alive <=> C.alive
      /\ E.valid <=> C.valid
      /\ C.pcb = 0 => E.pcb = 0
      /\ Busy(E) <=> Busy(C)
  BY Zenon DEF Gentle
<1>2. E.msg = C.msg \/ (E.msg = "NULL" /\ (C.msg \in {"close", "delete"} => E.pcb = 0))
  BY Zenon DEF Gentle
<1>. QED
  BY <1>1, <1>2, Zenon DEF Gentle

LEMMA ServesSelf == ASSUME NEW s, NEW h, Sane(s, h) PROVE Serves(s, s, h)
  BY GentleSelf, Zenon DEF Serves

LEMMA ServesTwice ==
  ASSUME NEW s, NEW t, NEW u, NEW h, Serves(s, t, h), Serves(t, u, h)
  PROVE  Serves(s, u, h)
<1>1. \A m \in Conns : Gentle(s.conn[m], u.conn[m])
  BY GentleTwice, Zenon DEF Serves
<1>. QED
  BY <1>1, Zenon DEF Serves

\* What the invariant says of a pcb and of its netconn.
LEMMA SanePcb ==
  ASSUME NEW s, NEW h, Sane(s, h), NEW p \in Pcbs
  PROVE  /\ s \in StackRecord /\ s.pcb[p] \in PcbRecord /\ PcbOK(s.pcb[p]) /\ s.pcb[p].arg \in Conns \cup {0}
         /\ s.pcb \in [Pcbs -> PcbRecord] /\ s.conn \in [Conns -> ConnRec] /\ s.pending \in Int /\ s.pbufs \in Int
         /\ s.pcb[p].arg # 0 =>
              /\ s.pcb[p].arg \in Conns /\ s.conn[s.pcb[p].arg] \in ConnRec /\ ConnOK(s.conn[s.pcb[p].arg])
              /\ s.conn[s.pcb[p].arg].pcb = p
              /\ s.pcb[p].unread >= DataIn(s.conn[s.pcb[p].arg].recvmbox) + Refused(s.pcb[p]) + InHand(h, s.pcb[p].arg)
<1>1. s \in StackRecord /\ s.pcb \in [Pcbs -> PcbRecord] /\ s.conn \in [Conns -> ConnRec] /\ s.pending \in Int /\ s.pbufs \in Int
  BY StackFields, Zenon DEF Sane
<1>2. s.pcb[p] \in PcbRecord
  BY <1>1, Zenon
<1>3. s.pcb[p].arg \in Conns \cup {0}
  BY <1>2, PcbFields, Zenon
<1>4. PcbOK(s.pcb[p]) /\ (\A m \in Conns : ConnOK(s.conn[m])) /\ Joined(s.pcb, s.conn, h)
  BY Zenon DEF Sane, Tidy
<1>5. ASSUME s.pcb[p].arg # 0
      PROVE  /\ s.pcb[p].arg \in Conns /\ s.conn[s.pcb[p].arg] \in ConnRec /\ ConnOK(s.conn[s.pcb[p].arg])
             /\ s.conn[s.pcb[p].arg].pcb = p
             /\ s.pcb[p].unread >= DataIn(s.conn[s.pcb[p].arg].recvmbox) + Refused(s.pcb[p]) + InHand(h, s.pcb[p].arg)
  <2>1. s.pcb[p].arg \in Conns
    BY <1>3, <1>5, Zenon
  <2>2. s.conn[s.pcb[p].arg] \in ConnRec
    BY <1>1, <2>1, Zenon
  <2>. QED
    BY <1>4, <1>5, <2>1, <2>2, Zenon DEF Joined
<1>. QED
  BY <1>1, <1>2, <1>3, <1>4, <1>5, Zenon

\* And of a netconn and of its pcb.
LEMMA SaneConn ==
  ASSUME NEW s, NEW h, Sane(s, h), NEW n \in Conns
  PROVE  /\ s \in StackRecord /\ s.conn[n] \in ConnRec /\ ConnOK(s.conn[n]) /\ s.conn[n].pcb \in Pcbs \cup {0}
         /\ s.conn[n].pcb # 0 => s.conn[n].pcb \in Pcbs /\ s.pcb[s.conn[n].pcb].arg = n
<1>1. s \in StackRecord /\ s.conn \in [Conns -> ConnRec]
  BY StackFields, Zenon DEF Sane
<1>2. s.conn[n] \in ConnRec
  BY <1>1, Zenon
<1>3. s.conn[n].pcb \in Pcbs \cup {0}
  BY <1>2, NetconnFields, Zenon
<1>4. ConnOK(s.conn[n]) /\ Joined(s.pcb, s.conn, h)
  BY Zenon DEF Sane, Tidy
<1>. QED
  BY <1>1, <1>2, <1>3, <1>4, Zenon DEF Joined

\* Only the pcb p, its netconn n if it has one, and the counters change.
Changes(s, t, p, n) ==
  /\ t \in StackRecord /\ t.mbox = s.mbox
  /\ \A q \in Pcbs : q # p => t.pcb[q] = s.pcb[q]
  /\ \A m \in Conns : m # n => t.conn[m] = s.conn[m]

LEMMA BoxOfNat ==
  ASSUME NEW cs \in [Conns -> ConnRec], NEW n \in Conns \cup {0}
  PROVE  BoxOf(cs, n) \in Nat
<1>1. CASE n = 0
  BY <1>1, SMT DEF BoxOf
<1>2. CASE n # 0
  <2>1. cs[n] \in ConnRec
    BY <1>2, Zenon
  <2>2. DataIn(cs[n].recvmbox) \in Nat
    BY <2>1, NetconnFields, DataInNat, Zenon
  <2>. QED
    BY <1>2, <2>2, Zenon DEF BoxOf
<1>. QED
  BY <1>1, <1>2, Zenon

\* A step that leaves its pcb and its netconn in order.
LEMMA SaneStep ==
  ASSUME NEW s, NEW h, Sane(s, h), NEW p \in Pcbs, NEW n, n = s.pcb[p].arg, NEW t, Changes(s, t, p, n),
         PcbOK(t.pcb[p]), n # 0 => ConnOK(t.conn[n]) /\ (t.conn[n].alive <=> s.conn[n].alive),
         \/ t.pcb[p].arg = 0 /\ (n # 0 => t.conn[n].pcb = 0)
         \/ /\ n # 0 /\ t.pcb[p].arg = n /\ t.conn[n].pcb = p
            /\ t.pcb[p].unread >= DataIn(t.conn[n].recvmbox) + Refused(t.pcb[p]) + InHand(h, n),
         t.pending = s.pending - PendOf(s.pcb, p) + PendOf(t.pcb, p),
         t.pbufs = s.pbufs - BoxOf(s.conn, n) + BoxOf(t.conn, n) - RefusedOf(s.pcb, p) + RefusedOf(t.pcb, p)
  PROVE  Sane(t, h)
<1>1. /\ s \in StackRecord /\ t \in StackRecord /\ Tidy(s.pcb, s.conn, s.pending, s.pbufs, h) /\ n \in Conns \cup {0}
      /\ h \in Conns \cup {0} /\ p # 0
  BY SanePcb, NetconnConstants, Zenon DEF Sane, Changes, Tidy
<1>2. /\ s.pending \in Int /\ s.pbufs \in Int /\ t.pcb \in [Pcbs -> PcbRecord] /\ t.conn \in [Conns -> ConnRec]
      /\ t.pending \in Int /\ t.pbufs \in Int
  BY <1>1, StackFields, Zenon
<1>3. Apart(s.pcb, s.conn, p, n)
  BY SanePcb, Zenon DEF Apart
<1>4. Apart(t.pcb, t.conn, p, n)
  BY <1>1, Zenon DEF Apart
<1>5. p # 0 /\ n # 0 /\ t.pcb[p].arg = n => t.pcb[p].unread >= DataIn(t.conn[n].recvmbox) + Refused(t.pcb[p]) + InHand(h, n)
  BY Zenon
<1>6. n # 0 /\ h = n => t.conn[n].alive
  <2>. SUFFICES ASSUME n # 0, h = n PROVE t.conn[n].alive
    BY Zenon
  <2>1. s.conn[n].alive
    BY <1>1, Zenon DEF Tidy
  <2>. QED
    BY <2>1, Zenon
<1>7. t.pbufs = s.pbufs - BoxOf(s.conn, n) + BoxOf(t.conn, n) - RefusedOf(s.pcb, p) + RefusedOf(t.pcb, p) - HeldOf(h) + HeldOf(h)
  <2>1. HeldOf(h) \in Int /\ RefusedOf(s.pcb, p) \in Int /\ RefusedOf(t.pcb, p) \in Int
    BY SMT DEF HeldOf, RefusedOf, Refused
  <2>2. BoxOf(s.conn, n) \in Nat /\ BoxOf(t.conn, n) \in Nat
    <3>1. s.conn \in [Conns -> ConnRec]
      BY <1>1, StackFields, Zenon
    <3>. QED
      BY <1>1, <1>2, <3>1, BoxOfNat, Zenon
  <2>. QED
    BY <1>2, <2>1, <2>2, SMT
<1>8. Tidy(t.pcb, t.conn, t.pending, t.pbufs, h)
  <2>1. /\ \A q \in Pcbs : q # p => t.pcb[q] = s.pcb[q]
        /\ \A m \in Conns : m # n => t.conn[m] = s.conn[m]
    BY Zenon DEF Changes
  <2>2. /\ p \in Pcbs \cup {0}
        /\ p # 0 => PcbOK(t.pcb[p])
        /\ n # 0 => ConnOK(t.conn[n])
        /\ \A m \in Conns : m # n => (h = m <=> h = m)
    BY Zenon
  <2>. QED
    BY <1>1, <1>2, <1>3, <1>4, <1>5, <1>6, <1>7, <2>1, <2>2, TidyStep, SMTT(30)
<1>. QED
  BY <1>1, <1>8, Zenon DEF Sane

\* A callback that leaves its pcb and its netconn in order serves.
LEMMA ServesStep ==
  ASSUME NEW s, NEW h, Sane(s, h), NEW p \in Pcbs, NEW n, n = s.pcb[p].arg, NEW t, Changes(s, t, p, n),
         Sane(t, h), n # 0 => Gentle(s.conn[n], t.conn[n])
  PROVE  Serves(s, t, h)
<1>1. ASSUME NEW m \in Conns PROVE Gentle(s.conn[m], t.conn[m])
  <2>1. CASE m = n
    BY <2>1, NetconnConstants, Zenon
  <2>2. CASE m # n
    <3>1. t.conn[m] = s.conn[m]
      BY <2>2, Zenon DEF Changes
    <3>. QED
      BY <3>1, GentleSelf, Zenon
  <2>. QED
    BY <2>1, <2>2, Zenon
<1>. QED
  BY <1>1, Zenon DEF Serves, Changes

-----------------------------------------------------------------------------
(* The callbacks.                                                          *)

\* Fields of a pcb that most callbacks leave alone.
SamePcb(P, Q) ==
  /\ Q.state = P.state /\ Q.arg = P.arg /\ Q.snd = P.snd /\ Q.refused = P.refused /\ Q.unread = P.unread

\* The connection is no longer in the backlog.
LEMMA BacklogEffect ==
  ASSUME NEW s \in StackRecord, NEW p \in Pcbs, NEW t, t = tcp_backlog_accepted(s, p)
  PROVE  /\ t \in StackRecord /\ t.conn = s.conn /\ t.mbox = s.mbox /\ t.pbufs = s.pbufs
         /\ t.pending = s.pending - PendOf(s.pcb, p)
         /\ \A q \in Pcbs : q # p => t.pcb[q] = s.pcb[q]
         /\ ~t.pcb[p].pend /\ SamePcb(s.pcb[p], t.pcb[p])
<1>0. s.pcb \in [Pcbs -> PcbRecord] /\ s.pending \in Int /\ p # 0
  BY StackFields, NetconnConstants, Zenon
<1>1. CASE s.pcb[p].pend
  <2>. DEFINE Q == [s.pcb[p] EXCEPT !.pend = FALSE]
  <2>1. s.pcb[p] \in PcbRecord
    BY <1>0, Zenon
  <2>2. Q \in PcbRecord
    BY <2>1, PcbUpdates, Zenon
  <2>3. ~Q.pend /\ SamePcb(s.pcb[p], Q)
    BY <2>1, Zenon DEF PcbRecord, SamePcb
  <2>4. t = [s EXCEPT !.pcb[p].pend = FALSE, !.pending = @ - 1]
    BY <1>1, Zenon DEF tcp_backlog_accepted
  <2>5. /\ t.pcb = [s.pcb EXCEPT ![p] = Q]
        /\ t.conn = s.conn /\ t.pending = s.pending - 1 /\ t.mbox = s.mbox /\ t.pbufs = s.pbufs
    BY <2>4, Zenon DEF StackRecord
  <2>6. t \in StackRecord
    <3>1. [s.pcb EXCEPT ![p] = Q] \in [Pcbs -> PcbRecord]
      BY <1>0, <2>2, Zenon
    <3>2. [s EXCEPT !.pcb[p].pend = FALSE] \in StackRecord
      BY <3>1, StackUpdates, Zenon
    <3>3. [s EXCEPT !.pcb[p].pend = FALSE].pending - 1 \in Int
      BY <3>2, SMT DEF StackRecord
    <3>. QED
      BY <2>4, <3>2, <3>3, StackUpdates, Zenon
  <2>. HIDE DEF Q
  <2>7. t.pcb[p] = Q /\ \A q \in Pcbs : q # p => t.pcb[q] = s.pcb[q]
    BY <1>0, <2>5, Zenon
  <2>8. PendOf(s.pcb, p) = 1
    BY <1>0, <1>1, Zenon DEF PendOf
  <2>. QED
    BY <2>3, <2>5, <2>6, <2>7, <2>8, Zenon
<1>2. CASE ~s.pcb[p].pend
  <2>1. t = s
    BY <1>2, Zenon DEF tcp_backlog_accepted
  <2>2. PendOf(s.pcb, p) = 0
    BY <1>2, Zenon DEF PendOf
  <2>3. s.pending = s.pending - 0
    BY <1>0, SMT
  <2>. QED
    BY <1>2, <2>1, <2>2, <2>3, Zenon DEF SamePcb
<1>. QED
  BY <1>1, <1>2, Zenon

\* A pcb that is freed gives back what it counts for.
LEMMA FreePcbEffect ==
  ASSUME NEW s \in StackRecord, NEW p \in Pcbs, NEW t, t = FreePcb(s, p)
  PROVE  /\ t \in StackRecord /\ t.conn = s.conn /\ t.mbox = s.mbox
         /\ t.pending = s.pending - PendOf(s.pcb, p) /\ t.pbufs = s.pbufs - RefusedOf(s.pcb, p)
         /\ \A q \in Pcbs : q # p => t.pcb[q] = s.pcb[q]
         /\ t.pcb[p] = NoPcb
<1>. DEFINE u == tcp_backlog_accepted(s, p)
            r == IF s.pcb[p].refused = "none" THEN 0 ELSE 1
<1>1. /\ u \in StackRecord /\ u.conn = s.conn /\ u.mbox = s.mbox /\ u.pbufs = s.pbufs
      /\ u.pending = s.pending - PendOf(s.pcb, p)
      /\ \A q \in Pcbs : q # p => u.pcb[q] = s.pcb[q]
  BY BacklogEffect, Zenon
<1>2. t = [u EXCEPT !.pcb[p] = NoPcb, !.pbufs = @ - r]
  BY Zenon DEF FreePcb
<1>3. r = RefusedOf(s.pcb, p) /\ r \in Int
  <2>1. p # 0
    BY NetconnConstants, Zenon
  <2>. QED
    BY <2>1, SMT DEF RefusedOf, Refused
<1>. HIDE DEF u, r
<1>4. /\ t.pcb = [u.pcb EXCEPT ![p] = NoPcb] /\ t.conn = u.conn /\ t.pending = u.pending /\ t.mbox = u.mbox
      /\ t.pbufs = u.pbufs - r
  BY <1>1, <1>2, Zenon DEF StackRecord
<1>5. u.pcb \in [Pcbs -> PcbRecord] /\ u.pbufs \in Int
  BY <1>1, StackFields, Zenon
<1>6. t \in StackRecord
  <2>1. [u.pcb EXCEPT ![p] = NoPcb] \in [Pcbs -> PcbRecord]
    BY <1>5, NoRecords, Zenon
  <2>2. [u EXCEPT !.pcb[p] = NoPcb] \in StackRecord
    BY <1>1, <2>1, StackUpdates, Zenon
  <2>3. [u EXCEPT !.pcb[p] = NoPcb].pbufs - r \in Int
    <3>1. [u EXCEPT !.pcb[p] = NoPcb].pbufs \in Int
      BY <2>2, StackFields, Zenon
    <3>2. \A x \in Int : x - r \in Int
      BY <1>3, SMT
    <3>. QED
      BY <3>1, <3>2, Zenon
  <2>. QED
    BY <1>2, <2>2, <2>3, StackUpdates, Zenon
<1>7. t.pcb[p] = NoPcb /\ \A q \in Pcbs : q # p => t.pcb[q] = u.pcb[q]
  BY <1>4, <1>5, Zenon
<1>. QED
  BY <1>1, <1>3, <1>4, <1>6, <1>7, Zenon

\* What a step leaves alone when it changes one netconn only.
OnlyConn(s, t, n) ==
  /\ t \in StackRecord /\ t.pcb = s.pcb /\ t.pending = s.pending /\ t.mbox = s.mbox /\ t.pbufs = s.pbufs
  /\ \A m \in Conns : m # n => t.conn[m] = s.conn[m]

LEMMA ConnReplaced ==
  ASSUME NEW s \in StackRecord, NEW n \in Conns, NEW D \in ConnRec, NEW t, t = [s EXCEPT !.conn[n] = D]
  PROVE  OnlyConn(s, t, n) /\ t.conn[n] = D
<1>1. s.conn \in [Conns -> ConnRec]
  BY StackFields, Zenon
<1>2. [s.conn EXCEPT ![n] = D] \in [Conns -> ConnRec]
  BY <1>1, Zenon
<1>3. t \in StackRecord
  BY <1>2, StackUpdates, Zenon
<1>4. /\ t.conn = [s.conn EXCEPT ![n] = D]
      /\ t.pcb = s.pcb /\ t.pending = s.pending /\ t.mbox = s.mbox /\ t.pbufs = s.pbufs
  BY Zenon DEF StackRecord
<1>5. [s.conn EXCEPT ![n] = D][n] = D /\ \A m \in Conns : m # n => [s.conn EXCEPT ![n] = D][m] = s.conn[m]
  BY <1>1, Zenon
<1>6. t.conn[n] = D
  BY <1>4, <1>5, Zenon
<1>7. ASSUME NEW m \in Conns, m # n PROVE t.conn[m] = s.conn[m]
  BY <1>4, <1>5, <1>7, Zenon
<1>. QED
  BY <1>3, <1>4, <1>6, <1>7, Zenon DEF OnlyConn

\* The end of an operation.
Finished(s, t, n, signal) ==
  /\ OnlyConn(s, t, n)
  /\ t.conn[n] \in ConnRec
  /\ t.conn[n].msg = "NULL" /\ t.conn[n].state = "NONE" /\ t.conn[n].left = 0
  /\ t.conn[n].sem = IF signal THEN 1 ELSE s.conn[n].sem
  /\ t.conn[n].pcb = s.conn[n].pcb /\ t.conn[n].recvmbox = s.conn[n].recvmbox
  /\ t.conn[n].alive <=> s.conn[n].alive
  /\ t.conn[n].valid <=> s.conn[n].valid

LEMMA FinishEffect ==
  ASSUME NEW s \in StackRecord, NEW n \in Conns, NEW signal \in BOOLEAN
  PROVE  Finished(s, Finish(s, n, signal), n, signal)
<1>. DEFINE t == Finish(s, n, signal)
            C == s.conn[n]
            x == IF signal THEN 1 ELSE C.sem
            D == [C EXCEPT !.msg = "NULL", !.state = "NONE", !.left = 0, !.sem = IF signal THEN 1 ELSE @]
<1>1. C \in ConnRec
  <2>1. s.conn \in [Conns -> ConnRec]
    BY StackFields, Zenon
  <2>. QED
    BY <2>1, Zenon
<1>2. C.sem \in Int
  BY <1>1, NetconnFields, Zenon
<1>3. x \in Int
  BY <1>2, SMT
<1>. HIDE DEF C
<1>4. /\ D.msg = "NULL" /\ D.state = "NONE" /\ D.left = 0 /\ D.sem = x
      /\ D.pcb = C.pcb /\ D.recvmbox = C.recvmbox
      /\ D.alive <=> C.alive
      /\ D.valid <=> C.valid
  BY <1>1, Zenon DEF ConnRec
<1>5. D \in ConnRec
  <2>1. [C EXCEPT !.msg = "NULL"] \in ConnRec
    BY <1>1, NetconnUpdates, Zenon
  <2>2. [C EXCEPT !.msg = "NULL", !.state = "NONE"] \in ConnRec
    BY <2>1, NetconnUpdates, Zenon
  <2>3. 0 \in Int
    OBVIOUS
  <2>4. [C EXCEPT !.msg = "NULL", !.state = "NONE", !.left = 0] \in ConnRec
    BY <2>2, <2>3, NetconnUpdates, Zenon
  <2>5. [C EXCEPT !.msg = "NULL", !.state = "NONE", !.left = 0].sem = C.sem
    BY <1>1, Zenon DEF ConnRec
  <2>6. [C EXCEPT !.msg = "NULL", !.state = "NONE", !.left = 0, !.sem = x] \in ConnRec
    BY <1>3, <2>4, NetconnUpdates, Zenon
  <2>7. D = [C EXCEPT !.msg = "NULL", !.state = "NONE", !.left = 0, !.sem = x]
    BY <2>5, Zenon
  <2>. QED
    BY <2>6, <2>7, Zenon
<1>. HIDE DEF D
<1>6. t = [s EXCEPT !.conn[n] = D]
  BY Zenon DEF Finish, D, C
<1>. HIDE DEF t
<1>7. OnlyConn(s, t, n) /\ t.conn[n] = D
  <2>2. OnlyConn(s, t, n)
    BY <1>5, <1>6, ConnReplaced, Zenon
  <2>3. s.conn \in [Conns -> ConnRec]
    BY StackFields, Zenon
  <2>4. t.conn[n] = D
    BY <1>6, <2>3, Zenon DEF StackRecord
  <2>. QED
    BY <2>2, <2>4, Zenon
<1>8. Finished(s, t, n, signal)
  BY <1>4, <1>5, <1>7, Zenon DEF C, Finished
<1>. QED
  BY <1>8, Zenon DEF t

\* The length of a mailbox.
LEMMA BoxLength ==
  ASSUME NEW box \in Seq({"data", "NULL"}), NEW item \in {"data", "NULL"}
  PROVE  /\ Len(box) \in Nat /\ Append(box, item) \in Seq({"data", "NULL"}) /\ Len(Append(box, item)) = Len(box) + 1
         /\ Append(box, item) # <<>>
  BY SMT

\* All but the mailbox of a netconn.
SameButBox(C, D) ==
  /\ D.alive <=> C.alive
  /\ D.valid <=> C.valid
  /\ D.pcb = C.pcb /\ D.state = C.state /\ D.msg = C.msg /\ D.left = C.left /\ D.sem = C.sem /\ D.last_err = C.last_err

\* A segment is taken by a mailbox that is there and has room.
Takes(C, item) == item = "data" /\ C.valid /\ Len(C.recvmbox) < DEFAULT_TCP_RECVMBOX_SIZE

\* A mailbox that was deleted is empty, and no mailbox is overfull.
BoxFits(C) ==
  /\ ~C.alive => ~C.valid
  /\ ~C.valid => C.recvmbox = <<>>
  /\ Len(C.recvmbox) <= DEFAULT_TCP_RECVMBOX_SIZE

LEMMA BoxFitsConn ==
  ASSUME NEW C, ConnOK(C)
  PROVE  BoxFits(C) /\ \A D : SameButBox(C, D) /\ BoxFits(D) => ConnOK(D) /\ Gentle(C, D)
<1>1. BoxFits(C)
  BY Zenon DEF ConnOK, BoxFits
<1>2. ASSUME NEW D, SameButBox(C, D), BoxFits(D) PROVE ConnOK(D) /\ Gentle(C, D)
  <2>1. ConnOK(D)
    BY <1>2, Zenon DEF ConnOK, BoxFits, SameButBox
  <2>2. Gentle(C, D)
    BY <1>2, Zenon DEF Gentle, SameButBox, Busy
  <2>. QED
    BY <2>1, <2>2, Zenon
<1>. QED
  BY <1>1, <1>2, Zenon

LEMMA PostEffect ==
  ASSUME NEW s \in StackRecord, NEW n \in Conns, NEW item \in {"data", "NULL"}, BoxFits(s.conn[n]),
         NEW t, t = Post(s, n, item)
  PROVE  /\ OnlyConn(s, t, n) /\ t.conn[n] \in ConnRec /\ SameButBox(s.conn[n], t.conn[n])
         /\ BoxFits(t.conn[n])
         /\ DataIn(t.conn[n].recvmbox) = DataIn(s.conn[n].recvmbox) + (IF Takes(s.conn[n], item) THEN 1 ELSE 0)
<1>. DEFINE C == s.conn[n]
            box == Append(C.recvmbox, item)
            D == [C EXCEPT !.recvmbox = box]
<1>0. s.conn \in [Conns -> ConnRec] /\ s \in StackRecord
  BY StackFields, Zenon
<1>1. C \in ConnRec
  BY <1>0, Zenon
<1>2. C.recvmbox \in Seq({"data", "NULL"})
  BY <1>1, NetconnFields, Zenon
<1>3. BoxFits(C)
  OBVIOUS
<1>4. DataIn(C.recvmbox) \in Nat
  BY <1>2, DataInNat, Zenon
<1>5. CASE C.valid /\ Len(C.recvmbox) < DEFAULT_TCP_RECVMBOX_SIZE
  <2>1. t = [s EXCEPT !.conn[n].recvmbox = Append(@, item)]
    BY <1>5, Zenon DEF Post
  <2>2. Len(C.recvmbox) \in Nat /\ box \in Seq({"data", "NULL"}) /\ Len(box) = Len(C.recvmbox) + 1 /\ box # <<>>
    BY <1>2, BoxLength, Zenon
  <2>3. D \in ConnRec
    BY <1>1, <2>2, NetconnUpdates, Zenon
  <2>4. t.conn = [s.conn EXCEPT ![n] = D] /\ t.pcb = s.pcb /\ t.pending = s.pending /\ t.mbox = s.mbox /\ t.pbufs = s.pbufs
    BY <2>1, Zenon DEF StackRecord
  <2>5. [s.conn EXCEPT ![n] = D] \in [Conns -> ConnRec]
    BY <1>0, <2>3, Zenon
  <2>6. t \in StackRecord
    BY <2>1, <2>5, StackUpdates, Zenon
  <2>. HIDE DEF C
  <2>7. D.recvmbox = box /\ SameButBox(C, D)
    BY <1>1, Zenon DEF ConnRec, SameButBox
  <2>. HIDE DEF box, D
  <2>8. t.conn[n] = D /\ \A m \in Conns : m # n => t.conn[m] = s.conn[m]
    BY <1>0, <2>4, Zenon
  <2>9. DataIn(box) = DataIn(C.recvmbox) + (IF Takes(C, item) THEN 1 ELSE 0)
    <3>1. DataIn(box) = DataIn(C.recvmbox) + (IF item = "data" THEN 1 ELSE 0)
      BY <1>2, DataInAppend, Zenon DEF box
    <3>2. Takes(C, item) <=> item = "data"
      BY <1>5, Zenon DEF Takes
    <3>. QED
      BY <3>1, <3>2, Zenon
  <2>10. Len(box) <= DEFAULT_TCP_RECVMBOX_SIZE
    BY <1>5, <2>2, NetconnConstants, SMT
  <2>11. D.valid /\ D.alive
    BY <1>3, <1>5, <2>7, Zenon DEF SameButBox, BoxFits
  <2>12. BoxFits(D)
    BY <1>3, <2>7, <2>10, <2>11, Zenon DEF SameButBox, BoxFits
  <2>. QED
    BY <2>3, <2>4, <2>6, <2>7, <2>8, <2>9, <2>12, Zenon DEF OnlyConn, C
<1>6. CASE ~(C.valid /\ Len(C.recvmbox) < DEFAULT_TCP_RECVMBOX_SIZE)
  <2>1. t = s
    BY <1>6, Zenon DEF Post
  <2>2. ~Takes(C, item)
    BY <1>6, Zenon DEF Takes
  <2>3. DataIn(C.recvmbox) = DataIn(C.recvmbox) + 0
    BY <1>4, SMT
  <2>. QED
    BY <1>0, <1>1, <1>3, <2>1, <2>2, <2>3, Zenon DEF OnlyConn, SameButBox
<1>. QED
  BY <1>5, <1>6, Zenon

\* An error ends what is going on; the caller is woken.
LEMMA ErrEffect ==
  ASSUME NEW s \in StackRecord, NEW n \in Conns, ConnOK(s.conn[n]), NEW t, t = err_tcp(s, n)
  PROVE  /\ OnlyConn(s, t, n) /\ t.conn[n] \in ConnRec /\ t.conn[n].pcb = 0 /\ ConnOK(t.conn[n])
         /\ Gentle(s.conn[n], t.conn[n])
         /\ DataIn(t.conn[n].recvmbox) = DataIn(s.conn[n].recvmbox)
<1>. DEFINE C == s.conn[n]
            e == IF C.state = "CLOSE" THEN C.last_err ELSE "FATAL"
            D == [C EXCEPT !.pcb = 0, !.state = "NONE", !.last_err = IF C.state = "CLOSE" THEN @ ELSE "FATAL"]
            a == [s EXCEPT !.conn[n] = D]
            b == Post(a, n, "NULL")
<1>0. s.conn \in [Conns -> ConnRec] /\ s \in StackRecord
  BY StackFields, Zenon
<1>1. C \in ConnRec /\ ConnOK(C)
  BY <1>0, Zenon
<1>2. e \in {"OK", "FATAL"}
  <2>1. C.last_err \in {"OK", "FATAL"}
    BY <1>1, NetconnFields, Zenon
  <2>. QED
    BY <2>1, Zenon
<1>t. t = IF C.state \in {"WRITE", "CLOSE"} THEN Finish(b, n, TRUE) ELSE b
  BY Zenon DEF err_tcp
<1>. HIDE DEF C
<1>3. /\ D.pcb = 0 /\ D.state = "NONE" /\ D.msg = C.msg /\ D.left = C.left /\ D.sem = C.sem /\ D.recvmbox = C.recvmbox
      /\ D.alive <=> C.alive
      /\ D.valid <=> C.valid
  BY <1>1, Zenon DEF ConnRec
<1>4. D \in ConnRec
  <2>1. [C EXCEPT !.pcb = 0] \in ConnRec
    BY <1>1, NetconnUpdates, Zenon
  <2>2. [C EXCEPT !.pcb = 0, !.state = "NONE"] \in ConnRec
    BY <2>1, NetconnUpdates, Zenon
  <2>3. [C EXCEPT !.pcb = 0, !.state = "NONE"].last_err = C.last_err
    BY <1>1, Zenon DEF ConnRec
  <2>4. [C EXCEPT !.pcb = 0, !.state = "NONE", !.last_err = e] \in ConnRec
    BY <1>2, <2>2, NetconnUpdates, Zenon
  <2>5. D = [C EXCEPT !.pcb = 0, !.state = "NONE", !.last_err = e]
    BY <2>3, Zenon
  <2>. QED
    BY <2>4, <2>5, Zenon
<1>. HIDE DEF D
<1>5. OnlyConn(s, a, n)
  BY <1>0, <1>4, ConnReplaced, Zenon
<1>6. a.conn[n] = D
  BY <1>0, Zenon DEF StackRecord
<1>. HIDE DEF a
<1>7. BoxFits(D)
  BY <1>1, <1>3, Zenon DEF ConnOK, BoxFits
<1>8. /\ OnlyConn(a, b, n) /\ b.conn[n] \in ConnRec /\ SameButBox(D, b.conn[n]) /\ BoxFits(b.conn[n])
      /\ DataIn(b.conn[n].recvmbox) = DataIn(C.recvmbox)
  <2>1. a \in StackRecord /\ "NULL" \in {"data", "NULL"} /\ BoxFits(a.conn[n])
    BY <1>5, <1>6, <1>7, Zenon DEF OnlyConn
  <2>2. /\ OnlyConn(a, b, n) /\ b.conn[n] \in ConnRec /\ SameButBox(a.conn[n], b.conn[n]) /\ BoxFits(b.conn[n])
        /\ DataIn(b.conn[n].recvmbox) = DataIn(a.conn[n].recvmbox) + (IF Takes(a.conn[n], "NULL") THEN 1 ELSE 0)
    BY <2>1, PostEffect, Zenon
  <2>3. ~Takes(a.conn[n], "NULL")
    BY Zenon DEF Takes
  <2>4. DataIn(C.recvmbox) \in Nat
    BY <1>1, NetconnFields, DataInNat, Zenon
  <2>5. DataIn(C.recvmbox) + 0 = DataIn(C.recvmbox)
    BY <2>4, SMT
  <2>. QED
    BY <1>3, <1>6, <2>2, <2>3, <2>5, Zenon
<1>. HIDE DEF b
<1>9. OnlyConn(s, b, n)
  BY <1>5, <1>8, Zenon DEF OnlyConn
<1>10. CASE C.state \in {"WRITE", "CLOSE"}
  <2>. DEFINE signal == TRUE
  <2>1. t = Finish(b, n, signal)
    BY <1>10, <1>t, Zenon
  <2>2. b \in StackRecord /\ signal \in BOOLEAN
    BY <1>9, Zenon DEF OnlyConn
  <2>. HIDE DEF signal
  <2>3. /\ OnlyConn(b, t, n) /\ t.conn[n] \in ConnRec
        /\ t.conn[n].msg = "NULL" /\ t.conn[n].state = "NONE" /\ t.conn[n].left = 0
        /\ t.conn[n].sem = (IF signal THEN 1 ELSE b.conn[n].sem)
        /\ t.conn[n].pcb = b.conn[n].pcb /\ t.conn[n].recvmbox = b.conn[n].recvmbox
        /\ t.conn[n].alive <=> b.conn[n].alive
        /\ t.conn[n].valid <=> b.conn[n].valid
    <3>1. Finished(b, t, n, signal)
      BY <1>9, <2>1, <2>2, FinishEffect, Zenon
    <3>. QED
      BY <3>1, Zenon DEF Finished
  <2>4. /\ t.conn[n].sem = 1 /\ t.conn[n].pcb = 0
        /\ t.conn[n].alive <=> C.alive
        /\ t.conn[n].valid <=> C.valid
    BY <1>3, <1>8, <2>3, Zenon DEF SameButBox, signal
  <2>5. 0 >= 0 /\ 1 \in 0..1
    OBVIOUS
  <2>6. ConnOK(t.conn[n])
    BY <1>8, <2>3, <2>4, <2>5, Zenon DEF ConnOK, BoxFits
  <2>7. C.msg # "NULL"
    BY <1>1, <1>10, Zenon DEF ConnOK
  <2>8. Gentle(C, t.conn[n])
    BY <2>3, <2>4, <2>7, Zenon DEF Gentle, Busy
  <2>9. OnlyConn(s, t, n)
    BY <1>9, <2>3, Zenon DEF OnlyConn
  <2>. QED
    BY <1>8, <2>3, <2>4, <2>6, <2>8, <2>9, Zenon DEF C
<1>11. CASE C.state \notin {"WRITE", "CLOSE"}
  <2>1. t = b
    BY <1>11, <1>t, Zenon
  <2>2. C.msg = "NULL"
    BY <1>1, <1>11, Zenon DEF ConnOK
  <2>3. D.left >= 0 /\ D.sem \in 0..1
    BY <1>1, <1>3, Zenon DEF ConnOK
  <2>4. ConnOK(b.conn[n])
    BY <1>3, <1>8, <2>2, <2>3, Zenon DEF ConnOK, BoxFits, SameButBox
  <2>5. Gentle(C, b.conn[n])
    BY <1>3, <1>8, <2>2, Zenon DEF Gentle, Busy, SameButBox
  <2>. QED
    BY <1>3, <1>8, <1>9, <2>1, <2>4, <2>5, Zenon DEF SameButBox, C
<1>. QED
  BY <1>10, <1>11, Zenon

\* BoxOf of a netconn.
LEMMA BoxOfConn == ASSUME NEW cs, NEW n \in Conns PROVE BoxOf(cs, n) = DataIn(cs[n].recvmbox)
  BY NetconnConstants, Zenon DEF BoxOf

LEMMA NoPcbOK == PcbOK(NoPcb)
<1>1. 0 \in 0..SndBuf /\ 0 \in 0..RecvWindow
  BY NetconnConstants, SMT
<1>. QED
  BY <1>1, NoRecords, Zenon DEF PcbOK

\* A connection that is reset, given up or aborted.
LEMMA AbortServes ==
  ASSUME NEW s, NEW h, Sane(s, h), NEW p \in Pcbs, NEW t, t = Abort(s, p)
  PROVE  Serves(s, t, h) /\ t.pcb[p] = NoPcb /\ \A q \in Pcbs : q # p => t.pcb[q] = s.pcb[q]
<1>. DEFINE n == s.pcb[p].arg
            f == FreePcb(s, p)
<1>0. s \in StackRecord /\ n \in Conns \cup {0} /\ p # 0 /\ s.pbufs \in Int /\ s.pending \in Int
  BY SanePcb, NetconnConstants, Zenon
<1>1. /\ f \in StackRecord /\ f.conn = s.conn /\ f.mbox = s.mbox
      /\ f.pending = s.pending - PendOf(s.pcb, p) /\ f.pbufs = s.pbufs - RefusedOf(s.pcb, p)
      /\ \A q \in Pcbs : q # p => f.pcb[q] = s.pcb[q]
      /\ f.pcb[p] = NoPcb
  BY <1>0, FreePcbEffect, Zenon
<1>t. t = IF n = 0 THEN f ELSE err_tcp(f, n)
  BY Zenon DEF Abort
<1>2. /\ Changes(s, t, p, n) /\ t.pcb = f.pcb /\ t.pending = f.pending /\ t.pbufs = f.pbufs
      /\ BoxOf(t.conn, n) = BoxOf(s.conn, n)
      /\ n # 0 => t.conn[n].pcb = 0 /\ ConnOK(t.conn[n]) /\ Gentle(s.conn[n], t.conn[n])
  <2>1. CASE n = 0
    <3>1. t = f
      BY <2>1, <1>t, Zenon
    <3>. QED
      BY <1>1, <2>1, <3>1, Zenon DEF Changes, BoxOf
  <2>2. CASE n # 0
    <3>1. t = err_tcp(f, n) /\ n \in Conns
      BY <2>2, <1>0, <1>t, Zenon
    <3>2. ConnOK(f.conn[n])
      BY <1>1, <2>2, SanePcb, Zenon
    <3>3. /\ OnlyConn(f, t, n) /\ t.conn[n].pcb = 0 /\ ConnOK(t.conn[n])
          /\ Gentle(f.conn[n], t.conn[n])
          /\ DataIn(t.conn[n].recvmbox) = DataIn(f.conn[n].recvmbox)
      BY <1>1, <3>1, <3>2, ErrEffect, Zenon
    <3>4. BoxOf(t.conn, n) = BoxOf(s.conn, n)
      BY <1>1, <3>1, <3>3, BoxOfConn, Zenon
    <3>. QED
      BY <1>1, <3>3, <3>4, Zenon DEF Changes, OnlyConn
  <2>. QED
    BY <2>1, <2>2, Zenon
<1>. HIDE DEF f, n
<1>3. t.pcb[p] = NoPcb /\ PcbOK(t.pcb[p]) /\ t.pcb[p].arg = 0 /\ PendOf(t.pcb, p) = 0 /\ RefusedOf(t.pcb, p) = 0
  BY <1>1, <1>2, NoRecords, NoPcbOK, Zenon DEF PendOf, RefusedOf, Refused
<1>4. /\ t.pending = s.pending - PendOf(s.pcb, p) + PendOf(t.pcb, p)
      /\ t.pbufs = s.pbufs - BoxOf(s.conn, n) + BoxOf(t.conn, n) - RefusedOf(s.pcb, p) + RefusedOf(t.pcb, p)
  <2>1. BoxOf(s.conn, n) \in Nat
    BY <1>0, StackFields, BoxOfNat, Zenon
  <2>2. PendOf(s.pcb, p) \in Int /\ RefusedOf(s.pcb, p) \in Int
    BY SMT DEF PendOf, RefusedOf, Refused
  <2>. QED
    BY <1>0, <1>1, <1>2, <1>3, <2>1, <2>2, SMT
<1>5. n = s.pcb[p].arg
  BY DEF n
<1>6. n # 0 => ConnOK(t.conn[n]) /\ (t.conn[n].alive <=> s.conn[n].alive)
  BY <1>2, Zenon DEF Gentle
<1>7. Sane(t, h)
  BY <1>2, <1>3, <1>4, <1>5, <1>6, SaneStep, SMTT(30)
<1>8. Serves(s, t, h)
  BY <1>2, <1>5, <1>7, ServesStep, Zenon
<1>. QED
  BY <1>1, <1>2, <1>3, <1>8, Zenon

\* What a step leaves alone when it changes one pcb, and perhaps the number of pbufs, only.
PcbTo(s, t, p, Q, k) ==
  /\ t \in StackRecord /\ t.conn = s.conn /\ t.pending = s.pending /\ t.mbox = s.mbox /\ t.pbufs = k
  /\ t.pcb[p] = Q
  /\ \A q \in Pcbs : q # p => t.pcb[q] = s.pcb[q]

LEMMA PcbReplaced ==
  ASSUME NEW s \in StackRecord, NEW p \in Pcbs, NEW Q \in PcbRecord, NEW k \in Int
  PROVE  /\ PcbTo(s, [s EXCEPT !.pcb[p] = Q], p, Q, s.pbufs)
         /\ PcbTo(s, [s EXCEPT !.pcb[p] = Q, !.pbufs = k], p, Q, k)
<1>. DEFINE t == [s EXCEPT !.pcb[p] = Q]
            u == [t EXCEPT !.pbufs = k]
<1>1. s.pcb \in [Pcbs -> PcbRecord]
  BY StackFields, Zenon
<1>2. [s.pcb EXCEPT ![p] = Q] \in [Pcbs -> PcbRecord]
  BY <1>1, Zenon
<1>3. t \in StackRecord
  BY <1>2, StackUpdates, Zenon
<1>4. /\ t.pcb = [s.pcb EXCEPT ![p] = Q]
      /\ t.conn = s.conn /\ t.pending = s.pending /\ t.mbox = s.mbox /\ t.pbufs = s.pbufs
  BY Zenon DEF StackRecord
<1>5. [s.pcb EXCEPT ![p] = Q][p] = Q /\ \A q \in Pcbs : q # p => [s.pcb EXCEPT ![p] = Q][q] = s.pcb[q]
  BY <1>1, Zenon
<1>. HIDE DEF t
<1>6. u \in StackRecord
  BY <1>3, StackUpdates, Zenon
<1>7. u.pcb = t.pcb /\ u.conn = t.conn /\ u.pending = t.pending /\ u.mbox = t.mbox /\ u.pbufs = k
  BY <1>3, Zenon DEF StackRecord
<1>. HIDE DEF u
<1>8. t.pcb[p] = Q /\ \A q \in Pcbs : q # p => t.pcb[q] = s.pcb[q]
  BY <1>4, <1>5, Zenon
<1>9. PcbTo(s, t, p, Q, s.pbufs)
  BY <1>3, <1>4, <1>8, Zenon DEF PcbTo
<1>10. PcbTo(s, u, p, Q, k)
  BY <1>4, <1>6, <1>7, <1>8, Zenon DEF PcbTo
<1>. QED
  BY <1>9, <1>10, Zenon DEF t, u

\* A pcb that keeps its netconn and its place in the backlog, and pays for what it refuses.
LEMMA PcbServes ==
  ASSUME NEW s, NEW h, Sane(s, h), NEW p \in Pcbs, NEW n, n = s.pcb[p].arg, NEW t, NEW Q, NEW k, PcbTo(s, t, p, Q, k),
         PcbOK(Q), Q.arg = n, Q.pend <=> s.pcb[p].pend,
         n # 0 => Q.unread >= DataIn(s.conn[n].recvmbox) + Refused(Q) + InHand(h, n),
         k = s.pbufs - Refused(s.pcb[p]) + Refused(Q)
  PROVE  Serves(s, t, h)
<1>0. /\ s \in StackRecord /\ n \in Conns \cup {0} /\ p # 0 /\ s.pbufs \in Int /\ s.pending \in Int
      /\ s.conn \in [Conns -> ConnRec] /\ t.conn = s.conn /\ t.pcb[p] = Q
  <2>1. s \in StackRecord /\ s.pcb[p].arg \in Conns \cup {0}
    BY SanePcb, Zenon
  <2>2. s.pbufs \in Int /\ s.pending \in Int /\ s.conn \in [Conns -> ConnRec]
    BY <2>1, StackFields, Zenon
  <2>3. t.conn = s.conn /\ t.pcb[p] = Q /\ p # 0
    BY NetconnConstants, Zenon DEF PcbTo
  <2>. QED
    BY <2>1, <2>2, <2>3, Zenon
<1>1. Changes(s, t, p, n)
  BY Zenon DEF PcbTo, Changes
<1>2. n # 0 => t.conn[n].pcb = p /\ ConnOK(t.conn[n]) /\ (t.conn[n].alive <=> s.conn[n].alive)
  <2>1. s.pcb[p].arg # 0 => ConnOK(s.conn[s.pcb[p].arg]) /\ s.conn[s.pcb[p].arg].pcb = p
    BY SanePcb, Zenon
  <2>. QED
    BY <1>0, <2>1, Zenon
<1>3. PendOf(t.pcb, p) = PendOf(s.pcb, p) /\ RefusedOf(t.pcb, p) = Refused(Q) /\ RefusedOf(s.pcb, p) = Refused(s.pcb[p])
  BY <1>0, Zenon DEF PendOf, RefusedOf
<1>4. t.pending = s.pending - PendOf(s.pcb, p) + PendOf(t.pcb, p)
  <2>1. PendOf(s.pcb, p) \in Int
    BY SMT DEF PendOf
  <2>2. t.pending = s.pending
    BY Zenon DEF PcbTo
  <2>. QED
    BY <1>0, <1>3, <2>1, <2>2, SMT
<1>5. t.pbufs = s.pbufs - BoxOf(s.conn, n) + BoxOf(t.conn, n) - RefusedOf(s.pcb, p) + RefusedOf(t.pcb, p)
  <2>1. BoxOf(s.conn, n) \in Nat
    BY <1>0, BoxOfNat, Zenon
  <2>2. Refused(Q) \in Int /\ Refused(s.pcb[p]) \in Int
    BY SMT DEF Refused
  <2>3. t.pbufs = k
    BY Zenon DEF PcbTo
  <2>4. BoxOf(t.conn, n) = BoxOf(s.conn, n)
    BY <1>0, Zenon
  <2>. QED
    BY <1>0, <1>3, <2>1, <2>2, <2>3, <2>4, SMT
<1>6. \/ t.pcb[p].arg = 0 /\ (n # 0 => t.conn[n].pcb = 0)
      \/ /\ n # 0 /\ t.pcb[p].arg = n /\ t.conn[n].pcb = p
         /\ t.pcb[p].unread >= DataIn(t.conn[n].recvmbox) + Refused(t.pcb[p]) + InHand(h, n)
  BY <1>0, <1>2, Zenon
<1>7. PcbOK(t.pcb[p])
  BY <1>0, Zenon
<1>8. n # 0 => ConnOK(t.conn[n]) /\ (t.conn[n].alive <=> s.conn[n].alive)
  BY <1>2, Zenon
<1>9. Sane(t, h)
  BY <1>1, <1>4, <1>5, <1>6, <1>7, <1>8, SaneStep, SMTT(30)
<1>10. n # 0 => Gentle(s.conn[n], t.conn[n])
  BY <1>0, GentleSelf, Zenon
<1>. QED
  BY <1>1, <1>9, <1>10, ServesStep, Zenon

\* A netconn whose mailbox gets more: the window allows for it and the pbuf is counted.
LEMMA PostServes ==
  ASSUME NEW s, NEW h, Sane(s, h), NEW p \in Pcbs, NEW n \in Conns, n = s.pcb[p].arg,
         NEW item \in {"data", "NULL"}
  PROVE  item = "NULL" => Serves(s, Post(s, n, item), h)
<1>. DEFINE t == Post(s, n, item)
<1>. SUFFICES ASSUME item = "NULL" PROVE Serves(s, t, h)
  BY Zenon
<1>0. /\ s \in StackRecord /\ p # 0 /\ n # 0 /\ s.pbufs \in Int /\ s.pending \in Int
      /\ s.conn \in [Conns -> ConnRec] /\ ConnOK(s.conn[n]) /\ s.conn[n].pcb = p /\ PcbOK(s.pcb[p])
      /\ s.pcb[p].unread >= DataIn(s.conn[n].recvmbox) + Refused(s.pcb[p]) + InHand(h, n)
  BY SanePcb, NetconnConstants, Zenon
<1>1. BoxFits(s.conn[n])
  BY <1>0, BoxFitsConn, Zenon
<1>2. /\ OnlyConn(s, t, n) /\ t.conn[n] \in ConnRec /\ SameButBox(s.conn[n], t.conn[n])
      /\ BoxFits(t.conn[n])
      /\ DataIn(t.conn[n].recvmbox) = DataIn(s.conn[n].recvmbox) + (IF Takes(s.conn[n], item) THEN 1 ELSE 0)
  BY <1>0, <1>1, PostEffect, Zenon
<1>. HIDE DEF t
<1>3. ConnOK(t.conn[n]) /\ Gentle(s.conn[n], t.conn[n])
  BY <1>0, <1>2, BoxFitsConn, Zenon
<1>4. s.conn[n] \in ConnRec
  BY <1>0, Zenon
<1>5. DataIn(s.conn[n].recvmbox) \in Nat
  BY <1>4, NetconnFields, DataInNat, Zenon
<1>6. DataIn(t.conn[n].recvmbox) = DataIn(s.conn[n].recvmbox)
  <2>1. ~Takes(s.conn[n], item)
    BY Zenon DEF Takes
  <2>2. DataIn(t.conn[n].recvmbox) = DataIn(s.conn[n].recvmbox) + 0
    BY <1>2, <2>1, Zenon
  <2>. QED
    BY <1>5, <2>2, SMT
<1>7. Changes(s, t, p, n) /\ t.pcb = s.pcb /\ t.pending = s.pending /\ t.pbufs = s.pbufs /\ t.conn[n].pcb = p
  BY <1>0, <1>2, Zenon DEF Changes, OnlyConn, SameButBox
<1>8. BoxOf(t.conn, n) = BoxOf(s.conn, n) /\ BoxOf(s.conn, n) \in Nat
  BY <1>5, <1>6, BoxOfConn, Zenon
<1>9. /\ t.pending = s.pending - PendOf(s.pcb, p) + PendOf(t.pcb, p)
      /\ t.pbufs = s.pbufs - BoxOf(s.conn, n) + BoxOf(t.conn, n) - RefusedOf(s.pcb, p) + RefusedOf(t.pcb, p)
  <2>1. PendOf(s.pcb, p) \in Int /\ RefusedOf(s.pcb, p) \in Int
    BY SMT DEF PendOf, RefusedOf, Refused
  <2>. QED
    BY <1>0, <1>7, <1>8, <2>1, SMT
<1>10. /\ n # 0 /\ t.pcb[p].arg = n /\ t.conn[n].pcb = p
       /\ t.pcb[p].unread >= DataIn(t.conn[n].recvmbox) + Refused(t.pcb[p]) + InHand(h, n)
  BY <1>0, <1>6, <1>7, Zenon
<1>11. PcbOK(t.pcb[p]) /\ (n # 0 => ConnOK(t.conn[n]) /\ (t.conn[n].alive <=> s.conn[n].alive))
  BY <1>0, <1>2, <1>3, <1>7, Zenon DEF SameButBox
<1>12. Sane(t, h)
  BY <1>7, <1>9, <1>10, <1>11, SaneStep, SMTT(30)
<1>. QED
  BY <1>3, <1>7, <1>12, ServesStep, Zenon

\* The end of the stream.
LEMMA ClosedServes ==
  ASSUME NEW s, NEW h, Sane(s, h), NEW p \in Pcbs
  PROVE  Serves(s, Closed(s, p), h) /\ Closed(s, p).pcb = s.pcb
<1>. DEFINE n == s.pcb[p].arg
<1>1. CASE n # 0 /\ ~s.pcb[p].rxclosed
  <2>0. n \in Conns /\ s \in StackRecord /\ ConnOK(s.conn[n])
    BY <1>1, SanePcb, Zenon
  <2>1. Closed(s, p) = Post(s, n, "NULL")
    BY <1>1, Zenon DEF Closed
  <2>2. Serves(s, Post(s, n, "NULL"), h)
    BY <2>0, PostServes, Zenon
  <2>3. BoxFits(s.conn[n]) /\ "NULL" \in {"data", "NULL"}
    BY <2>0, BoxFitsConn, Zenon
  <2>4. OnlyConn(s, Post(s, n, "NULL"), n)
    BY <2>0, <2>3, PostEffect, Zenon
  <2>. QED
    BY <2>1, <2>2, <2>4, Zenon DEF OnlyConn
<1>2. CASE ~(n # 0 /\ ~s.pcb[p].rxclosed)
  <2>1. Closed(s, p) = s
    BY <1>2, Zenon DEF Closed
  <2>. QED
    BY <2>1, ServesSelf, Zenon
<1>. QED
  BY <1>1, <1>2, Zenon

\* A segment of the pcb p is on its way up: stack a is stack s with one pbuf more, which the window counts.
Carries(s, a, p, h) ==
  /\ PcbTo(s, a, p, a.pcb[p], s.pbufs + 1 - Refused(s.pcb[p]))
  /\ a.pcb[p] \in PcbRecord /\ PcbOK(a.pcb[p]) /\ a.pcb[p].arg = s.pcb[p].arg /\ (a.pcb[p].pend <=> s.pcb[p].pend)
  /\ a.pcb[p].refused = "none" /\ a.pcb[p].unread >= 1
  /\ s.pcb[p].arg # 0 => a.pcb[p].unread >= 1 + DataIn(s.conn[s.pcb[p].arg].recvmbox) + InHand(h, s.pcb[p].arg)

LEMMA RecvServes ==
  ASSUME NEW s, NEW h, Sane(s, h), NEW p \in Pcbs, NEW a, Carries(s, a, p, h), NEW fin \in BOOLEAN
  PROVE  Serves(s, recv_tcp(a, p, fin), h) /\ recv_tcp(a, p, fin).pcb[p].unread <= a.pcb[p].unread
<1>. DEFINE n == s.pcb[p].arg
            A == a.pcb[p]
            t == recv_tcp(a, p, fin)
            w == IF fin THEN "fin" ELSE "data"
            Q == [A EXCEPT !.unread = @ - 1]
            R == [A EXCEPT !.refused = w]
<1>0. s \in StackRecord /\ n \in Conns \cup {0} /\ s.pbufs \in Int /\ s.conn \in [Conns -> ConnRec] /\ s.pending \in Int
  BY SanePcb, Zenon
<1>1. /\ a \in StackRecord /\ a.conn = s.conn /\ a.pending = s.pending /\ a.mbox = s.mbox
      /\ a.pbufs = s.pbufs + 1 - Refused(s.pcb[p]) /\ \A q \in Pcbs : q # p => a.pcb[q] = s.pcb[q]
  BY Zenon DEF Carries, PcbTo
<1>2. /\ A \in PcbRecord /\ PcbOK(A) /\ A.arg = n /\ (A.pend <=> s.pcb[p].pend) /\ A.refused = "none" /\ A.unread >= 1
      /\ n # 0 => A.unread >= 1 + DataIn(s.conn[n].recvmbox) + InHand(h, n)
  BY Zenon DEF Carries
<1>3. A.unread \in Int /\ Refused(s.pcb[p]) \in Int
  <2>1. A.unread \in Int
    BY <1>2, PcbFields, Zenon
  <2>. QED
    BY <2>1, SMT DEF Refused
<1>4. w \in {"data", "fin"} /\ w \in {"none", "data", "fin"} /\ w # "none"
  BY Zenon
<1>5. n # 0 => DataIn(s.conn[n].recvmbox) \in Nat /\ InHand(h, n) \in Int
  <2>1. InHand(h, n) \in Int
    BY SMT DEF InHand
  <2>2. n # 0 => s.conn[n] \in ConnRec
    BY <1>0, Zenon
  <2>. QED
    BY <2>1, <2>2, NetconnFields, DataInNat, Zenon
<1>6. CASE n = 0 \/ ~s.conn[n].valid
  <2>. DEFINE k == a.pbufs - 1
  <2>1. t = [a EXCEPT !.pcb[p].unread = @ - 1, !.pbufs = @ - 1]
    BY <1>1, <1>2, <1>6, Zenon DEF recv_tcp
  <2>2. [a EXCEPT !.pcb[p].unread = @ - 1].pbufs = a.pbufs
    BY <1>1, Zenon DEF StackRecord
  <2>3. t = [a EXCEPT !.pcb[p] = Q, !.pbufs = k]
    BY <2>1, <2>2, Zenon
  <2>4. A.unread - 1 \in Int /\ k \in Int
    BY <1>0, <1>1, <1>3, SMT
  <2>5. Q \in PcbRecord
    BY <1>2, <2>4, PcbUpdates, Zenon
  <2>. HIDE DEF k
  <2>6. PcbTo(a, t, p, Q, k)
    <3>. HIDE DEF Q, t
    <3>. QED
      BY <1>1, <2>3, <2>4, <2>5, PcbReplaced, Zenon
  <2>. HIDE DEF A
  <2>7. /\ Q.unread = A.unread - 1 /\ Q.arg = A.arg /\ Q.refused = A.refused /\ Q.state = A.state /\ Q.snd = A.snd
        /\ Q.pend <=> A.pend
    BY <1>2, Zenon DEF PcbRecord
  <2>. HIDE DEF Q, t
  <2>8. PcbTo(s, t, p, Q, k)
    BY <1>1, <2>6, Zenon DEF PcbTo
  <2>9. Q.unread \in 0..RecvWindow
    <3>1. A.unread \in 0..RecvWindow
      BY <1>2, Zenon DEF PcbOK
    <3>. QED
      BY <1>2, <1>3, <2>7, <3>1, NetconnConstants, SMT
  <2>10. PcbOK(Q)
    BY <1>2, <2>7, <2>9, Zenon DEF PcbOK
  <2>11. Q.arg = n /\ (Q.pend <=> s.pcb[p].pend) /\ Refused(Q) = 0
    BY <1>2, <2>7, Zenon DEF Refused
  <2>. HIDE DEF n
  <2>12. n # 0 => Q.unread >= DataIn(s.conn[n].recvmbox) + Refused(Q) + InHand(h, n)
    BY <1>2, <1>3, <1>5, <2>7, <2>11, SMT
  <2>13. k = s.pbufs - Refused(s.pcb[p]) + Refused(Q)
    BY <1>0, <1>1, <1>3, <2>11, SMT DEF k
  <2>14. Serves(s, t, h)
    BY <2>8, <2>10, <2>11, <2>12, <2>13, PcbServes, SMTT(30) DEF n
  <2>15. t.pcb[p].unread <= A.unread
    <3>1. t.pcb[p].unread = A.unread - 1
      BY <2>7, <2>8, Zenon DEF PcbTo
    <3>. QED
      BY <1>3, <3>1, SMT
  <2>. QED
    BY <2>14, <2>15, Zenon DEF A, t
<1>7. CASE n # 0 /\ s.conn[n].valid /\ ~CanPost(a, n)
  <2>1. t = [a EXCEPT !.pcb[p].refused = IF fin THEN "fin" ELSE "data"]
    BY <1>1, <1>2, <1>7, Zenon DEF recv_tcp
  <2>3. t = [a EXCEPT !.pcb[p] = R]
    BY <2>1, Zenon
  <2>5. R \in PcbRecord
    BY <1>2, <1>4, PcbUpdates, Zenon
  <2>6. PcbTo(a, t, p, R, a.pbufs)
    <3>1. 0 \in Int
      OBVIOUS
    <3>. HIDE DEF R, t
    <3>. QED
      BY <1>1, <2>3, <2>5, <3>1, PcbReplaced, Zenon
  <2>. HIDE DEF A, w
  <2>7. /\ R.unread = A.unread /\ R.arg = A.arg /\ R.refused = w /\ R.state = A.state /\ R.snd = A.snd
        /\ R.pend <=> A.pend
    BY <1>2, Zenon DEF PcbRecord
  <2>. HIDE DEF R, t
  <2>8. PcbTo(s, t, p, R, a.pbufs)
    BY <1>1, <2>6, Zenon DEF PcbTo
  <2>10. PcbOK(R)
    BY <1>2, <1>7, <2>7, Zenon DEF PcbOK
  <2>11. R.arg = n /\ (R.pend <=> s.pcb[p].pend) /\ Refused(R) = 1
    BY <1>2, <1>4, <2>7, Zenon DEF Refused
  <2>. HIDE DEF n
  <2>12. n # 0 => R.unread >= DataIn(s.conn[n].recvmbox) + Refused(R) + InHand(h, n)
    BY <1>2, <1>3, <1>5, <2>7, <2>11, SMT
  <2>13. a.pbufs = s.pbufs - Refused(s.pcb[p]) + Refused(R)
    BY <1>0, <1>1, <1>3, <2>11, SMT
  <2>14. Serves(s, t, h)
    BY <2>8, <2>10, <2>11, <2>12, <2>13, PcbServes, SMTT(30) DEF n
  <2>15. t.pcb[p].unread <= A.unread
    <3>1. t.pcb[p].unread = A.unread
      BY <2>7, <2>8, Zenon DEF PcbTo
    <3>. QED
      BY <1>3, <3>1, SMT
  <2>. QED
    BY <2>14, <2>15, Zenon DEF A, t
<1>8. CASE n # 0 /\ s.conn[n].valid /\ CanPost(a, n)
  <2>0. n \in Conns /\ ConnOK(a.conn[n]) /\ s.conn[n].pcb = p /\ p # 0
    BY <1>1, <1>8, SanePcb, NetconnConstants, Zenon
  <2>1. t = Post(a, n, "data")
    BY <1>1, <1>2, <1>8, Zenon DEF recv_tcp
  <2>2. BoxFits(a.conn[n]) /\ "data" \in {"data", "NULL"}
    BY <2>0, BoxFitsConn, Zenon
  <2>3. /\ OnlyConn(a, t, n) /\ t.conn[n] \in ConnRec /\ SameButBox(a.conn[n], t.conn[n])
        /\ BoxFits(t.conn[n])
        /\ DataIn(t.conn[n].recvmbox) = DataIn(a.conn[n].recvmbox) + (IF Takes(a.conn[n], "data") THEN 1 ELSE 0)
    BY <1>1, <2>0, <2>1, <2>2, PostEffect, Zenon
  <2>. HIDE DEF t, n
  <2>4. Takes(a.conn[n], "data")
    BY <1>1, <1>8, Zenon DEF Takes, CanPost
  <2>5. DataIn(t.conn[n].recvmbox) = DataIn(s.conn[n].recvmbox) + 1
    BY <1>1, <2>3, <2>4, Zenon
  <2>6. ConnOK(t.conn[n]) /\ Gentle(s.conn[n], t.conn[n])
    BY <1>1, <2>0, <2>3, BoxFitsConn, Zenon
  <2>7. Changes(s, t, p, n) /\ t.pcb = a.pcb /\ t.pending = s.pending /\ t.pbufs = a.pbufs /\ t.conn[n].pcb = p
    BY <1>1, <2>0, <2>3, Zenon DEF Changes, OnlyConn, SameButBox
  <2>8. BoxOf(t.conn, n) = BoxOf(s.conn, n) + 1 /\ BoxOf(s.conn, n) \in Nat
    BY <1>5, <1>8, <2>0, <2>5, BoxOfConn, Zenon
  <2>9. PendOf(t.pcb, p) = PendOf(s.pcb, p) /\ RefusedOf(t.pcb, p) = 0 /\ RefusedOf(s.pcb, p) = Refused(s.pcb[p])
    BY <1>2, <2>0, <2>7, Zenon DEF PendOf, RefusedOf, Refused
  <2>10. /\ t.pending = s.pending - PendOf(s.pcb, p) + PendOf(t.pcb, p)
         /\ t.pbufs = s.pbufs - BoxOf(s.conn, n) + BoxOf(t.conn, n) - RefusedOf(s.pcb, p) + RefusedOf(t.pcb, p)
    <3>1. PendOf(s.pcb, p) \in Int
      BY SMT DEF PendOf
    <3>. QED
      BY <1>0, <1>1, <1>3, <2>7, <2>8, <2>9, <3>1, SMT
  <2>11. Refused(t.pcb[p]) = 0
    BY <1>2, <2>7, Zenon DEF Refused
  <2>12. /\ n # 0 /\ t.pcb[p].arg = n /\ t.conn[n].pcb = p
         /\ t.pcb[p].unread >= DataIn(t.conn[n].recvmbox) + Refused(t.pcb[p]) + InHand(h, n)
    <3>1. t.pcb[p] = A
      BY <2>7, Zenon
    <3>. HIDE DEF A
    <3>2. A.unread >= DataIn(t.conn[n].recvmbox) + Refused(t.pcb[p]) + InHand(h, n)
      BY <1>2, <1>3, <1>5, <1>8, <2>5, <2>11, SMT
    <3>. QED
      BY <1>2, <1>8, <2>7, <3>1, <3>2, Zenon
  <2>13. PcbOK(t.pcb[p]) /\ (n # 0 => ConnOK(t.conn[n]) /\ (t.conn[n].alive <=> s.conn[n].alive))
    BY <1>1, <1>2, <2>3, <2>6, <2>7, Zenon DEF SameButBox
  <2>14. Sane(t, h)
    BY <2>7, <2>10, <2>12, <2>13, SaneStep, SMTT(30) DEF n
  <2>15. n = s.pcb[p].arg
    BY DEF n
  <2>16. Serves(s, t, h)
    BY <2>6, <2>7, <2>14, <2>15, ServesStep, Zenon
  <2>17. t.pcb[p].unread <= A.unread
    <3>1. t.pcb[p].unread = A.unread
      BY <2>7, Zenon
    <3>. QED
      BY <1>3, <3>1, SMT
  <2>. QED
    BY <2>16, <2>17, Zenon DEF t
<1>. QED
  BY <1>6, <1>7, <1>8, Zenon

\* The refused segment is offered again, and after it the end of the stream.
LEMMA RetryServes ==
  ASSUME NEW s, NEW h, Sane(s, h), NEW p \in Pcbs
  PROVE  Serves(s, RetryRefused(s, p), h) /\ RetryRefused(s, p).pcb[p].unread <= s.pcb[p].unread
<1>. DEFINE P == s.pcb[p]
            Q == [P EXCEPT !.refused = "none"]
            fin == P.refused = "fin"
            a == [s EXCEPT !.pcb[p].refused = "none"]
            t == recv_tcp(a, p, fin)
<1>0. /\ s \in StackRecord /\ P \in PcbRecord /\ PcbOK(P) /\ P.arg \in Conns \cup {0} /\ s.pbufs \in Int
      /\ s.conn \in [Conns -> ConnRec]
  BY SanePcb, Zenon
<1>1. P.unread \in Int
  BY <1>0, PcbFields, Zenon
<1>2. CASE P.refused = "none"
  <2>1. RetryRefused(s, p) = s
    BY <1>2, Zenon DEF RetryRefused
  <2>2. Serves(s, s, h)
    BY ServesSelf, Zenon
  <2>3. P.unread <= P.unread
    BY <1>1, SMT
  <2>. QED
    BY <2>1, <2>2, <2>3, Zenon
<1>3. CASE P.refused # "none"
  <2>1. P.arg # 0
    BY <1>0, <1>3, Zenon DEF PcbOK
  <2>2. P.unread >= DataIn(s.conn[P.arg].recvmbox) + Refused(P) + InHand(h, P.arg)
    BY <2>1, SanePcb, Zenon
  <2>3. a = [s EXCEPT !.pcb[p] = Q]
    BY Zenon
  <2>4. Q \in PcbRecord
    BY <1>0, PcbUpdates, Zenon
  <2>5. PcbTo(s, a, p, Q, s.pbufs)
    <3>1. 0 \in Int
      OBVIOUS
    <3>. HIDE DEF Q, a
    <3>. QED
      BY <1>0, <2>3, <2>4, <3>1, PcbReplaced, Zenon
  <2>. HIDE DEF P
  <2>6. /\ Q.unread = P.unread /\ Q.arg = P.arg /\ Q.refused = "none" /\ Q.state = P.state /\ Q.snd = P.snd
        /\ Q.pend <=> P.pend
    BY <1>0, Zenon DEF PcbRecord
  <2>. HIDE DEF Q, a
  <2>7. PcbOK(Q)
    BY <1>0, <2>6, Zenon DEF PcbOK
  <2>8. Refused(P) = 1
    BY <1>3, Zenon DEF Refused
  <2>9. DataIn(s.conn[P.arg].recvmbox) \in Nat /\ InHand(h, P.arg) \in Nat
    <3>1. InHand(h, P.arg) \in Nat
      BY SMT DEF InHand
    <3>2. s.conn[P.arg] \in ConnRec
      BY <1>0, <2>1, Zenon
    <3>. QED
      BY <3>1, <3>2, NetconnFields, DataInNat, Zenon
  <2>10. Q.unread >= 1 /\ Q.unread >= 1 + DataIn(s.conn[P.arg].recvmbox) + InHand(h, P.arg)
    BY <1>1, <2>2, <2>6, <2>8, <2>9, SMT
  <2>11. s.pbufs = s.pbufs + 1 - Refused(P)
    BY <1>0, <2>8, SMT
  <2>12. a.pcb[p] = Q /\ PcbTo(s, a, p, Q, s.pbufs + 1 - Refused(P))
    BY <2>5, <2>11, Zenon DEF PcbTo
  <2>13. Carries(s, a, p, h)
    BY <2>4, <2>6, <2>7, <2>10, <2>12, Zenon DEF Carries, P
  <2>14. fin \in BOOLEAN
    BY Zenon
  <2>15. Serves(s, t, h) /\ t.pcb[p].unread <= P.unread
    <3>. HIDE DEF fin
    <3>1. Serves(s, t, h) /\ t.pcb[p].unread <= a.pcb[p].unread
      BY <2>13, <2>14, RecvServes, Zenon
    <3>. QED
      BY <2>6, <2>12, <3>1, Zenon
  <2>16. Serves(t, Closed(t, p), h) /\ Closed(t, p).pcb = t.pcb
    <3>1. Sane(t, h)
      BY <2>15, Zenon DEF Serves
    <3>. HIDE DEF t
    <3>. QED
      BY <3>1, ClosedServes, Zenon
  <2>17. RetryRefused(s, p) = t \/ RetryRefused(s, p) = Closed(t, p)
    BY <1>3, Zenon DEF RetryRefused, P, a
  <2>. HIDE DEF t
  <2>18. Serves(s, Closed(t, p), h)
    BY <2>15, <2>16, ServesTwice, Zenon
  <2>. QED
    BY <2>15, <2>16, <2>17, <2>18, Zenon DEF P
<1>. QED
  BY <1>2, <1>3, Zenon

\* All that was sent is acknowledged; the peer has closed.
LEMMA PcbFieldServes ==
  ASSUME NEW s, NEW h, Sane(s, h), NEW p \in Pcbs
  PROVE  /\ Serves(s, [s EXCEPT !.pcb[p].snd = 0], h) /\ [s EXCEPT !.pcb[p].snd = 0].conn = s.conn
         /\ Serves(s, [s EXCEPT !.pcb[p].state = "CLOSE_WAIT"], h)
         /\ Serves(s, [s EXCEPT !.pcb[p].rxclosed = TRUE], h) /\ [s EXCEPT !.pcb[p].rxclosed = TRUE].conn = s.conn
<1>. DEFINE P == s.pcb[p]
            Q == [P EXCEPT !.snd = 0]
            R == [P EXCEPT !.state = "CLOSE_WAIT"]
            S == [P EXCEPT !.rxclosed = TRUE]
<1>0. /\ s \in StackRecord /\ P \in PcbRecord /\ PcbOK(P) /\ P.arg \in Conns \cup {0} /\ s.pbufs \in Int
      /\ P.arg # 0 => P.unread >= DataIn(s.conn[P.arg].recvmbox) + Refused(P) + InHand(h, P.arg)
  BY SanePcb, Zenon
<1>1. 0 \in Int /\ 0 \in 0..SndBuf
  BY NetconnConstants, SMT
<1>2. Q \in PcbRecord /\ R \in PcbRecord /\ S \in PcbRecord
  BY <1>0, <1>1, PcbUpdates, Zenon
<1>3. /\ PcbTo(s, [s EXCEPT !.pcb[p] = Q], p, Q, s.pbufs)
      /\ PcbTo(s, [s EXCEPT !.pcb[p] = R], p, R, s.pbufs)
      /\ PcbTo(s, [s EXCEPT !.pcb[p] = S], p, S, s.pbufs)
  <2>. HIDE DEF Q, R, S
  <2>. QED
    BY <1>0, <1>1, <1>2, PcbReplaced, Zenon
<1>. HIDE DEF P
<1>4. /\ Q.snd = 0 /\ Q.unread = P.unread /\ Q.arg = P.arg /\ Q.refused = P.refused /\ Q.state = P.state
      /\ Q.pend <=> P.pend
  BY <1>0, Zenon DEF PcbRecord
<1>5. /\ R.state = "CLOSE_WAIT" /\ R.unread = P.unread /\ R.arg = P.arg /\ R.refused = P.refused /\ R.snd = P.snd
      /\ R.pend <=> P.pend
  BY <1>0, Zenon DEF PcbRecord
<1>6. /\ S.state = P.state /\ S.unread = P.unread /\ S.arg = P.arg /\ S.refused = P.refused /\ S.snd = P.snd
      /\ S.pend <=> P.pend
  BY <1>0, Zenon DEF PcbRecord
<1>. HIDE DEF Q, R, S
<1>7. PcbOK(Q) /\ PcbOK(R) /\ PcbOK(S)
  BY <1>0, <1>1, <1>4, <1>5, <1>6, Zenon DEF PcbOK
<1>8. ASSUME NEW X \in {Q, R, S} PROVE Serves(s, [s EXCEPT !.pcb[p] = X], h) /\ [s EXCEPT !.pcb[p] = X].conn = s.conn
  <2>. DEFINE t == [s EXCEPT !.pcb[p] = X]
              n == P.arg
  <2>1. /\ PcbTo(s, t, p, X, s.pbufs) /\ PcbOK(X) /\ X.arg = n /\ (X.pend <=> P.pend) /\ X.unread = P.unread
        /\ Refused(X) = Refused(P)
    BY <1>3, <1>4, <1>5, <1>6, <1>7, Zenon DEF Refused
  <2>2. n # 0 => X.unread >= DataIn(s.conn[n].recvmbox) + Refused(X) + InHand(h, n)
    BY <1>0, <2>1, Zenon
  <2>3. Refused(P) \in Int
    BY SMT DEF Refused
  <2>4. s.pbufs = s.pbufs - Refused(P) + Refused(X)
    BY <1>0, <2>1, <2>3, SMT
  <2>. HIDE DEF t, n
  <2>5. n = s.pcb[p].arg
    BY Zenon DEF n, P
  <2>6. Serves(s, t, h)
    BY <2>1, <2>2, <2>4, <2>5, PcbServes, SMTT(30) DEF P
  <2>. QED
    BY <2>1, <2>6, Zenon DEF PcbTo, t
<1>9. /\ [s EXCEPT !.pcb[p].snd = 0] = [s EXCEPT !.pcb[p] = Q]
      /\ [s EXCEPT !.pcb[p].state = "CLOSE_WAIT"] = [s EXCEPT !.pcb[p] = R]
      /\ [s EXCEPT !.pcb[p].rxclosed = TRUE] = [s EXCEPT !.pcb[p] = S]
  BY Zenon DEF P, Q, R, S
<1>. QED
  BY <1>8, <1>9, Zenon

\* A segment that is in the window and behind no refused one.
LEMMA ArrivalServes ==
  ASSUME NEW s, NEW h, Sane(s, h), NEW p \in Pcbs, NEW fin \in BOOLEAN,
         s.pcb[p].refused = "none", s.pcb[p].unread < RecvWindow
  PROVE  Serves(s, recv_tcp([s EXCEPT !.pcb[p].unread = @ + 1, !.pbufs = @ + 1,
                                      !.pcb[p].state = IF fin THEN "CLOSE_WAIT" ELSE @], p, fin), h)
<1>. DEFINE a == [s EXCEPT !.pcb[p].unread = @ + 1, !.pbufs = @ + 1,
                           !.pcb[p].state = IF fin THEN "CLOSE_WAIT" ELSE @]
            P == s.pcb[p]
            w == IF fin THEN "CLOSE_WAIT" ELSE P.state
            X == [P EXCEPT !.unread = @ + 1]
            Q == [X EXCEPT !.state = w]
            k == s.pbufs + 1
<1>0. /\ s \in StackRecord /\ P \in PcbRecord /\ PcbOK(P) /\ P.arg \in Conns \cup {0} /\ s.pbufs \in Int
      /\ P.arg # 0 => P.unread >= DataIn(s.conn[P.arg].recvmbox) + Refused(P) + InHand(h, P.arg)
      /\ s.pcb \in [Pcbs -> PcbRecord] /\ s.conn \in [Conns -> ConnRec]
  BY SanePcb, Zenon
<1>1. P.unread + 1 \in Int /\ k \in Int /\ P.unread \in Int
  <2>1. P.unread \in Int
    BY <1>0, PcbFields, Zenon
  <2>. QED
    BY <1>0, <2>1, SMT
<1>2. w \in {"CLOSED", "SYN_RCVD", "ESTABLISHED", "CLOSE_WAIT"}
  <2>1. P.state \in {"CLOSED", "SYN_RCVD", "ESTABLISHED", "CLOSE_WAIT"}
    BY <1>0, PcbFields, Zenon
  <2>. QED
    BY <2>1, Zenon
<1>3. X \in PcbRecord
  BY <1>0, <1>1, PcbUpdates, Zenon
<1>4. Q \in PcbRecord
  BY <1>2, <1>3, PcbUpdates, Zenon
<1>5. a = [s EXCEPT !.pcb[p] = Q, !.pbufs = k]
  OBVIOUS
<1>. HIDE DEF a
<1>6. PcbTo(s, a, p, Q, k)
  <2>. HIDE DEF Q, k
  <2>. QED
    BY <1>0, <1>1, <1>4, <1>5, PcbReplaced, Zenon
<1>. HIDE DEF P, w
<1>7. /\ X.unread = P.unread + 1 /\ X.arg = P.arg /\ X.refused = P.refused /\ X.state = P.state /\ X.snd = P.snd
      /\ X.pend <=> P.pend
  BY <1>0, Zenon DEF PcbRecord
<1>. HIDE DEF X
<1>8. /\ Q.unread = X.unread /\ Q.arg = X.arg /\ Q.refused = X.refused /\ Q.state = w /\ Q.snd = X.snd
      /\ Q.pend <=> X.pend
  BY <1>3, Zenon DEF PcbRecord
<1>. HIDE DEF Q
<1>9. P.refused = "none" /\ Refused(P) = 0
  BY Zenon DEF P, Refused
<1>10. Q.unread \in 0..RecvWindow /\ Q.unread >= 1
  <2>1. P.unread \in 0..RecvWindow /\ P.unread < RecvWindow
    BY <1>0, Zenon DEF PcbOK, P
  <2>. QED
    BY <1>1, <1>7, <1>8, <2>1, NetconnConstants, SMT
<1>11. PcbOK(Q)
  <2>1. Q.state \in {"CLOSED", "SYN_RCVD"} => Q.arg = 0
    BY <1>0, <1>7, <1>8, Zenon DEF PcbOK, w
  <2>2. Q.state = "CLOSED" => ~Q.pend
    BY <1>0, <1>7, <1>8, Zenon DEF PcbOK, w
  <2>. QED
    BY <1>0, <1>7, <1>8, <1>9, <1>10, <2>1, <2>2, Zenon DEF PcbOK
<1>12. P.arg # 0 => Q.unread >= 1 + DataIn(s.conn[P.arg].recvmbox) + InHand(h, P.arg)
  <2>. SUFFICES ASSUME P.arg # 0 PROVE Q.unread >= 1 + DataIn(s.conn[P.arg].recvmbox) + InHand(h, P.arg)
    BY Zenon
  <2>1. s.conn[P.arg] \in ConnRec
    BY <1>0, Zenon
  <2>2. DataIn(s.conn[P.arg].recvmbox) \in Nat
    BY <2>1, NetconnFields, DataInNat, Zenon
  <2>3. InHand(h, P.arg) \in Nat
    BY SMT DEF InHand
  <2>. QED
    BY <1>0, <1>1, <1>7, <1>8, <1>9, <2>2, <2>3, SMT
<1>13. a.pcb[p] = Q /\ k = s.pbufs + 1 - Refused(P)
  <2>1. a.pcb[p] = Q
    BY <1>6, Zenon DEF PcbTo
  <2>2. k = s.pbufs + 1 - Refused(P)
    BY <1>0, <1>9, SMT
  <2>. QED
    BY <2>1, <2>2, Zenon
<1>14. PcbTo(s, a, p, a.pcb[p], s.pbufs + 1 - Refused(P))
  BY <1>6, <1>13, Zenon
<1>15. Carries(s, a, p, h)
  <2>1. /\ Q \in PcbRecord /\ PcbOK(Q) /\ Q.arg = P.arg /\ (Q.pend <=> P.pend)
        /\ Q.refused = "none" /\ Q.unread >= 1
        /\ P.arg # 0 => Q.unread >= 1 + DataIn(s.conn[P.arg].recvmbox) + InHand(h, P.arg)
    BY <1>4, <1>7, <1>8, <1>9, <1>10, <1>11, <1>12, Zenon
  <2>2. /\ a.pcb[p] \in PcbRecord /\ PcbOK(a.pcb[p]) /\ a.pcb[p].arg = P.arg /\ (a.pcb[p].pend <=> P.pend)
        /\ a.pcb[p].refused = "none" /\ a.pcb[p].unread >= 1
        /\ P.arg # 0 => a.pcb[p].unread >= 1 + DataIn(s.conn[P.arg].recvmbox) + InHand(h, P.arg)
    BY <1>13, <2>1, Zenon
  <2>. QED
    BY <1>14, <2>2, Zenon DEF Carries, P
<1>16. Serves(s, recv_tcp(a, p, fin), h)
  BY <1>15, RecvServes, Zenon
<1>. QED
  BY <1>16, Zenon DEF a

-----------------------------------------------------------------------------
(* Operations that go on.                                                  *)

\* One netconn changes, neither its pcb nor its mailbox.
LEMMA ConnSane ==
  ASSUME NEW s, NEW h, Sane(s, h), NEW n \in Conns, NEW t, OnlyConn(s, t, n), ConnOK(t.conn[n]),
         t.conn[n].alive <=> s.conn[n].alive, t.conn[n].pcb = s.conn[n].pcb, t.conn[n].recvmbox = s.conn[n].recvmbox
  PROVE  Sane(t, h)
<1>. DEFINE p == s.conn[n].pcb
<1>1. /\ s \in StackRecord /\ t \in StackRecord /\ Tidy(s.pcb, s.conn, s.pending, s.pbufs, h)
      /\ h \in Conns \cup {0} /\ p \in Pcbs \cup {0} /\ n # 0 /\ n \in Conns \cup {0}
      /\ t.pcb = s.pcb /\ t.pending = s.pending /\ t.pbufs = s.pbufs
      /\ \A m \in Conns : m # n => t.conn[m] = s.conn[m]
  BY SaneConn, NetconnConstants, Zenon DEF Sane, OnlyConn, Tidy
<1>2. /\ s.pending \in Int /\ s.pbufs \in Int /\ s.pcb \in [Pcbs -> PcbRecord] /\ s.conn \in [Conns -> ConnRec]
      /\ t.conn \in [Conns -> ConnRec]
  BY <1>1, StackFields, Zenon
<1>3. p # 0 => p \in Pcbs /\ s.pcb[p].arg = n
  BY SaneConn, Zenon
<1>4. Apart(s.pcb, s.conn, p, n)
  BY <1>1, <1>3, Zenon DEF Apart
<1>5. Apart(s.pcb, t.conn, p, n)
  BY <1>1, <1>3, Zenon DEF Apart
<1>. HIDE DEF p
<1>6. p # 0 => PcbOK(s.pcb[p]) /\ s.pcb[p].unread >= DataIn(t.conn[n].recvmbox) + Refused(s.pcb[p]) + InHand(h, n)
  <2>. SUFFICES ASSUME p # 0
                PROVE  PcbOK(s.pcb[p]) /\ s.pcb[p].unread >= DataIn(t.conn[n].recvmbox) + Refused(s.pcb[p]) + InHand(h, n)
    BY Zenon
  <2>1. p \in Pcbs /\ s.pcb[p].arg = n
    BY <1>3, Zenon
  <2>2. /\ PcbOK(s.pcb[p])
        /\ s.pcb[p].arg # 0 =>
             s.pcb[p].unread >= DataIn(s.conn[s.pcb[p].arg].recvmbox) + Refused(s.pcb[p]) + InHand(h, s.pcb[p].arg)
    BY <2>1, SanePcb, Zenon
  <2>. QED
    BY <1>1, <2>1, <2>2, Zenon
<1>7. BoxOf(t.conn, n) = BoxOf(s.conn, n) /\ BoxOf(s.conn, n) \in Nat
  BY <1>1, <1>2, BoxOfConn, BoxOfNat, Zenon
<1>8. /\ s.pending = s.pending - PendOf(s.pcb, p) + PendOf(s.pcb, p)
      /\ s.pbufs = s.pbufs - BoxOf(s.conn, n) + BoxOf(t.conn, n) - RefusedOf(s.pcb, p) + RefusedOf(s.pcb, p)
                   - HeldOf(h) + HeldOf(h)
  <2>1. PendOf(s.pcb, p) \in Int /\ RefusedOf(s.pcb, p) \in Int /\ HeldOf(h) \in Int
    BY SMT DEF PendOf, RefusedOf, Refused, HeldOf
  <2>. QED
    BY <1>2, <1>7, <2>1, SMT
<1>9. n # 0 /\ h = n => t.conn[n].alive
  BY <1>1, Zenon DEF Tidy
<1>10. /\ p # 0 => PcbOK(s.pcb[p])
       /\ n # 0 => ConnOK(t.conn[n])
       /\ p # 0 /\ n # 0 /\ s.pcb[p].arg = n => s.pcb[p].unread >= DataIn(t.conn[n].recvmbox) + Refused(s.pcb[p]) + InHand(h, n)
       /\ \A m \in Conns : m # n => (h = m <=> h = m)
       /\ \A q \in Pcbs : q # p => s.pcb[q] = s.pcb[q]
  BY <1>6, Zenon
<1>11. Tidy(s.pcb, t.conn, s.pending, s.pbufs, h)
  BY <1>1, <1>2, <1>4, <1>5, <1>8, <1>9, <1>10, TidyStep, SMTT(30)
<1>. QED
  BY <1>1, <1>11, Zenon DEF Sane

\* How an operation on a netconn goes on, or ends: delayed, with a signal, or at once.
Proceeds(C, D, delayed) ==
  /\ D.alive <=> C.alive
  /\ D.valid <=> C.valid
  /\ D.pcb \in {0, C.pcb} /\ D.recvmbox = C.recvmbox
  /\ \/ D.msg = C.msg /\ D.sem = C.sem
     \/ /\ D.msg = "NULL" /\ D.sem = IF delayed THEN 1 ELSE C.sem
        /\ C.msg \in {"close", "delete"} => D.pcb = 0

LEMMA ProceedsGently ==
  ASSUME NEW C, NEW D, C.msg # "NULL", NEW delayed \in BOOLEAN, delayed, Proceeds(C, D, delayed)
  PROVE  Gentle(C, D)
<1>1. Busy(C)
  BY Zenon DEF Busy
<1>2. Busy(D)
  BY Zenon DEF Busy, Proceeds
<1>3. /\ D.alive <=> C.alive
      /\ D.valid <=> C.valid
  BY Zenon DEF Proceeds
<1>4. D.msg = C.msg \/ (D.msg = "NULL" /\ (C.msg \in {"close", "delete"} => D.pcb = 0))
  BY Zenon DEF Proceeds
<1>5. C.pcb = 0 => D.pcb = 0
  BY Zenon DEF Proceeds
<1>. QED
  BY <1>1, <1>2, <1>3, <1>4, <1>5, Zenon DEF Gentle

\* What an operation may do to the stack.
Operates(s, t, n, delayed, h) ==
  /\ Sane(t, h) /\ t.mbox = s.mbox
  /\ \A m \in Conns : m # n => t.conn[m] = s.conn[m]
  /\ Proceeds(s.conn[n], t.conn[n], delayed)

LEMMA OperatesServes ==
  ASSUME NEW s, NEW t, NEW n \in Conns, NEW h, s.conn[n].msg # "NULL", NEW delayed \in BOOLEAN, delayed,
         Operates(s, t, n, delayed, h)
  PROVE  Serves(s, t, h)
<1>1. ASSUME NEW m \in Conns PROVE Gentle(s.conn[m], t.conn[m])
  <2>1. CASE m = n
    <3>1. Proceeds(s.conn[n], t.conn[n], delayed)
      BY Zenon DEF Operates
    <3>2. Gentle(s.conn[n], t.conn[n])
      BY <3>1, ProceedsGently, Zenon
    <3>. QED
      BY <2>1, <3>2, Zenon
  <2>2. CASE m # n
    <3>1. t.conn[m] = s.conn[m]
      BY <2>2, Zenon DEF Operates
    <3>. QED
      BY <3>1, GentleSelf, Zenon
  <2>. QED
    BY <2>1, <2>2, Zenon
<1>. QED
  BY <1>1, Zenon DEF Serves, Operates

\* The end of an operation, when the netconn still has its pcb.
LEMMA FinishSane ==
  ASSUME NEW s, NEW h, Sane(s, h), NEW n \in Conns, NEW delayed \in BOOLEAN
  PROVE  Sane(Finish(s, n, delayed), h) /\ Finished(s, Finish(s, n, delayed), n, delayed)
<1>. DEFINE t == Finish(s, n, delayed)
<1>0. s \in StackRecord /\ ConnOK(s.conn[n])
  BY SaneConn, Zenon
<1>1. Finished(s, t, n, delayed)
  BY <1>0, FinishEffect, Zenon
<1>. HIDE DEF t
<1>2. t.conn[n].sem \in 0..1
  <2>1. CASE delayed
    <3>1. t.conn[n].sem = 1
      BY <1>1, <2>1, Zenon DEF Finished
    <3>. QED
      BY <3>1, SMT
  <2>2. CASE ~delayed
    <3>1. t.conn[n].sem = s.conn[n].sem
      BY <1>1, <2>2, Zenon DEF Finished
    <3>. QED
      BY <1>0, <3>1, Zenon DEF ConnOK
  <2>. QED
    BY <2>1, <2>2, Zenon
<1>3. 0 >= 0
  OBVIOUS
<1>4. ConnOK(t.conn[n])
  BY <1>0, <1>1, <1>2, <1>3, Zenon DEF ConnOK, Finished
<1>5. /\ OnlyConn(s, t, n) /\ t.conn[n].pcb = s.conn[n].pcb /\ t.conn[n].recvmbox = s.conn[n].recvmbox
      /\ t.conn[n].alive <=> s.conn[n].alive
  BY <1>1, Zenon DEF Finished
<1>6. Sane(t, h)
  BY <1>4, <1>5, ConnSane, Zenon
<1>. QED
  BY <1>1, <1>6, Zenon DEF t

LEMMA LeastOfTwo ==
  ASSUME NEW a \in Int, NEW b \in Int
  PROVE  Least({a, b}) \in {a, b} /\ Least({a, b}) <= a /\ Least({a, b}) <= b
<1>1. \E k \in {a, b} : \A j \in {a, b} : k <= j
  <2>1. CASE a <= b
    BY <2>1, SMT
  <2>2. CASE ~(a <= b)
    BY <2>2, SMT
  <2>. QED
    BY <2>1, <2>2, Zenon
<1>2. Least({a, b}) \in {a, b} /\ \A j \in {a, b} : Least({a, b}) <= j
  BY <1>1, Zenon DEF Least
<1>. QED
  BY <1>2, Zenon

\* The bytes left to write, or the polls left, are k.
LeftIs(s, t, n, k, h) ==
  /\ Sane(t, h) /\ t.mbox = s.mbox /\ t.pcb = s.pcb
  /\ \A m \in Conns : m # n => t.conn[m] = s.conn[m]
  /\ t.conn[n].recvmbox = s.conn[n].recvmbox /\ t.conn[n].left = k /\ t.conn[n].state = s.conn[n].state
  /\ t.conn[n].msg = s.conn[n].msg /\ t.conn[n].sem = s.conn[n].sem /\ t.conn[n].pcb = s.conn[n].pcb
  /\ t.conn[n].alive <=> s.conn[n].alive
  /\ t.conn[n].valid <=> s.conn[n].valid

LEMMA LeftEffect ==
  ASSUME NEW s, NEW h, Sane(s, h), NEW n \in Conns, NEW k \in Int, k >= 0
  PROVE  LeftIs(s, [s EXCEPT !.conn[n].left = k], n, k, h)
<1>. DEFINE t == [s EXCEPT !.conn[n].left = k]
            C == s.conn[n]
            D == [C EXCEPT !.left = k]
<1>0. s \in StackRecord /\ C \in ConnRec /\ ConnOK(C)
  BY SaneConn, Zenon
<1>1. D \in ConnRec
  BY <1>0, NetconnUpdates, Zenon
<1>2. t = [s EXCEPT !.conn[n] = D]
  BY Zenon
<1>3. s.conn \in [Conns -> ConnRec]
  BY <1>0, StackFields, Zenon
<1>. HIDE DEF t, D
<1>4. OnlyConn(s, t, n)
  BY <1>0, <1>1, <1>2, ConnReplaced, Zenon
<1>5. t.conn[n] = D
  BY <1>0, <1>2, <1>3, Zenon DEF StackRecord
<1>. HIDE DEF C
<1>6. /\ D.left = k /\ D.msg = C.msg /\ D.state = C.state /\ D.sem = C.sem /\ D.pcb = C.pcb /\ D.recvmbox = C.recvmbox
      /\ D.alive <=> C.alive
      /\ D.valid <=> C.valid
  BY <1>0, Zenon DEF ConnRec, D
<1>7. ConnOK(D)
  BY <1>0, <1>6, Zenon DEF ConnOK
<1>8. Sane(t, h)
  <2>1. /\ ConnOK(t.conn[n]) /\ t.conn[n].pcb = s.conn[n].pcb /\ t.conn[n].recvmbox = s.conn[n].recvmbox
        /\ t.conn[n].alive <=> s.conn[n].alive
    BY <1>5, <1>6, <1>7, Zenon DEF C
  <2>. QED
    BY <1>4, <2>1, ConnSane, Zenon
<1>9. LeftIs(s, t, n, k, h)
  BY <1>4, <1>5, <1>6, <1>8, Zenon DEF LeftIs, OnlyConn, C
<1>. QED
  BY <1>9, Zenon DEF t

\* lwip_netconn_do_writemore.
LEMMA WriteOperates ==
  ASSUME NEW s, NEW h, Sane(s, h), NEW n \in Conns, s.conn[n].msg = "write", NEW o, NEW delayed \in BOOLEAN
  PROVE  Operates(s, lwip_netconn_do_writemore(s, n, o, delayed), n, delayed, h)
<1>. DEFINE C == s.conn[n]
            p == C.pcb
            P == s.pcb[p]
            len == IF o = "mem" THEN 0 ELSE Least({C.left, SndBuf - P.snd})
            Q == [P EXCEPT !.snd = @ + len]
            a == [s EXCEPT !.pcb[p] = Q]
            b == [a EXCEPT !.conn[n].left = C.left - len]
            t == lwip_netconn_do_writemore(s, n, o, delayed)
            c == [s EXCEPT !.pcb[p].snd = @ + len, !.conn[n].left = @ - len]
<1>. SUFFICES Operates(s, t, n, delayed, h)
  OBVIOUS
<1>t. t = (IF c.conn[n].left = 0 \/ o = "rte" THEN Finish(c, n, delayed) ELSE c)
  BY Zenon DEF lwip_netconn_do_writemore
<1>. HIDE DEF t
<1>0. s \in StackRecord /\ C \in ConnRec /\ ConnOK(C) /\ p \in Pcbs /\ P.arg = n /\ n # 0
  <2>1. p # 0
    BY SaneConn, Zenon DEF ConnOK
  <2>. QED
    BY <2>1, SaneConn, NetconnConstants, Zenon
<1>1. /\ P \in PcbRecord /\ PcbOK(P)
      /\ P.arg # 0 => P.unread >= DataIn(s.conn[P.arg].recvmbox) + Refused(P) + InHand(h, P.arg)
      /\ s.pbufs \in Int
  BY <1>0, SanePcb, Zenon
<1>2. C.left \in Int /\ C.left >= 0 /\ P.snd \in Int /\ P.snd \in 0..SndBuf /\ SndBuf \in Nat
  BY <1>0, <1>1, NetconnFields, PcbFields, NetconnConstants, Zenon DEF ConnOK, PcbOK
<1>. HIDE DEF C, P
<1>3. len \in Int /\ len >= 0 /\ len <= C.left /\ len <= SndBuf - P.snd
  <2>1. SndBuf - P.snd \in Int /\ SndBuf - P.snd >= 0
    BY <1>2, SMT
  <2>2. CASE o = "mem"
    BY <1>2, <2>1, <2>2, SMT
  <2>3. CASE o # "mem"
    <3>1. len = Least({C.left, SndBuf - P.snd})
      BY <2>3, Zenon
    <3>. HIDE DEF len
    <3>2. len \in {C.left, SndBuf - P.snd} /\ len <= C.left /\ len <= SndBuf - P.snd
      BY <1>2, <2>1, <3>1, LeastOfTwo, Zenon
    <3>. QED
      BY <1>2, <2>1, <3>2, SMT
  <2>. QED
    BY <2>2, <2>3, Zenon
<1>. HIDE DEF len
<1>4. P.snd + len \in Int /\ P.snd + len \in 0..SndBuf /\ C.left - len \in Int /\ C.left - len >= 0
  BY <1>2, <1>3, SMT
<1>5. Q \in PcbRecord
  BY <1>1, <1>4, PcbUpdates, Zenon
<1>6. /\ Q.snd = P.snd + len /\ Q.unread = P.unread /\ Q.arg = P.arg /\ Q.refused = P.refused /\ Q.state = P.state
      /\ Q.pend <=> P.pend
  BY <1>1, Zenon DEF PcbRecord
<1>. HIDE DEF Q
<1>7. PcbOK(Q) /\ Refused(Q) = Refused(P) /\ Q.arg = n
  BY <1>0, <1>1, <1>4, <1>6, Zenon DEF PcbOK, Refused
<1>8. PcbTo(s, a, p, Q, s.pbufs)
  <2>1. 0 \in Int
    OBVIOUS
  <2>. QED
    BY <1>0, <1>5, <2>1, PcbReplaced, Zenon
<1>. HIDE DEF a
<1>9. Serves(s, a, h)
  <2>1. n # 0 => Q.unread >= DataIn(s.conn[n].recvmbox) + Refused(Q) + InHand(h, n)
    BY <1>0, <1>1, <1>6, <1>7, Zenon
  <2>2. s.pbufs = s.pbufs - Refused(s.pcb[p]) + Refused(Q)
    <3>1. Refused(P) \in Int
      BY SMT DEF Refused
    <3>2. s.pbufs = s.pbufs - Refused(P) + Refused(Q)
      BY <1>1, <1>7, <3>1, SMT
    <3>. QED
      BY <3>2, Zenon DEF P
  <2>3. n = s.pcb[p].arg /\ (Q.pend <=> s.pcb[p].pend)
    BY <1>0, <1>6, Zenon DEF P
  <2>. QED
    BY <1>0, <1>7, <1>8, <2>1, <2>2, <2>3, PcbServes, SMTT(30)
<1>10. Sane(a, h) /\ a.conn = s.conn /\ a.mbox = s.mbox
  BY <1>8, <1>9, Zenon DEF Serves, PcbTo
<1>11. LeftIs(a, b, n, C.left - len, h)
  BY <1>4, <1>10, LeftEffect, Zenon
<1>12. t = (IF b.conn[n].left = 0 \/ o = "rte" THEN Finish(b, n, delayed) ELSE b)
  <2>1. a.conn[n].left = C.left
    BY <1>10, Zenon DEF C
  <2>2. b = c
    BY <2>1, Zenon DEF a, b, Q, P
  <2>. HIDE DEF b, c
  <2>. QED
    BY <2>2, <1>t, Zenon
<1>. HIDE DEF b
<1>13. /\ Sane(b, h) /\ b.mbox = s.mbox /\ (\A m \in Conns : m # n => b.conn[m] = s.conn[m])
       /\ b.conn[n].recvmbox = C.recvmbox /\ b.conn[n].msg = C.msg /\ b.conn[n].sem = C.sem /\ b.conn[n].pcb = C.pcb
       /\ b.conn[n].alive <=> C.alive
       /\ b.conn[n].valid <=> C.valid
  BY <1>10, <1>11, Zenon DEF LeftIs, C
<1>14. Proceeds(C, b.conn[n], delayed)
  BY <1>13, Zenon DEF Proceeds
<1>15. CASE t = b
  BY <1>13, <1>14, <1>15, Zenon DEF Operates, C
<1>16. CASE t = Finish(b, n, delayed)
  <2>1. Sane(t, h) /\ Finished(b, t, n, delayed)
    BY <1>13, <1>16, FinishSane, Zenon
  <2>2. t.mbox = s.mbox /\ \A m \in Conns : m # n => t.conn[m] = s.conn[m]
    BY <1>13, <2>1, Zenon DEF Finished, OnlyConn
  <2>3. C.msg \notin {"close", "delete"}
    BY Zenon DEF C
  <2>4. Proceeds(C, t.conn[n], delayed)
    BY <1>13, <2>1, <2>3, Zenon DEF Proceeds, Finished
  <2>. QED
    BY <2>1, <2>2, <2>4, Zenon DEF Operates, C
<1>. QED
  BY <1>12, <1>15, <1>16, Zenon

\* lwip_netconn_do_close_internal.
LEMMA CloseOperates ==
  ASSUME NEW s, NEW h, Sane(s, h), NEW n \in Conns, s.conn[n].state = "CLOSE", NEW o, NEW delayed \in BOOLEAN
  PROVE  Operates(s, lwip_netconn_do_close_internal(s, n, o, delayed), n, delayed, h)
<1>. DEFINE C == s.conn[n]
            p == C.pcb
            P == s.pcb[p]
            r == IF P.refused = "none" THEN 0 ELSE 1
            f == FreePcb(s, p)
            gone == [f EXCEPT !.conn[n].pcb = 0]
            shut == [s EXCEPT !.pcb[p].rxclosed = TRUE, !.pcb[p].refused = "none", !.pbufs = @ - r]
            waits == [s EXCEPT !.pcb[p].rxclosed = TRUE]
            t == lwip_netconn_do_close_internal(s, n, o, delayed)
<1>. SUFFICES Operates(s, t, n, delayed, h)
  OBVIOUS
<1>t. \/ C.msg = "shutrd" /\ t = Finish(shut, n, delayed)
      \/ t = Finish(gone, n, delayed)
      \/ t = waits
  BY Zenon DEF lwip_netconn_do_close_internal
<1>. HIDE DEF t
<1>0. s \in StackRecord /\ C \in ConnRec /\ ConnOK(C) /\ C.msg # "NULL" /\ p \in Pcbs /\ P.arg = n /\ n # 0 /\ p # 0
  <2>1. C.msg # "NULL" /\ p # 0
    BY SaneConn, Zenon DEF ConnOK
  <2>. QED
    BY <2>1, SaneConn, NetconnConstants, Zenon
<1>1. /\ P \in PcbRecord /\ PcbOK(P)
      /\ P.arg # 0 => P.unread >= DataIn(s.conn[P.arg].recvmbox) + Refused(P) + InHand(h, P.arg)
      /\ s.pbufs \in Int /\ s.pending \in Int /\ s.conn \in [Conns -> ConnRec] /\ P.unread \in Int
  BY <1>0, SanePcb, PcbFields, Zenon
<1>2. DataIn(C.recvmbox) \in Nat /\ InHand(h, n) \in Nat /\ r \in Int /\ Refused(P) = r
  <2>1. InHand(h, n) \in Nat /\ r \in Int
    BY SMT DEF InHand
  <2>2. Refused(P) = r
    BY Zenon DEF Refused
  <2>. QED
    BY <1>0, <2>1, <2>2, NetconnFields, DataInNat, Zenon
<1>3. CASE t = waits
  <2>1. Serves(s, waits, h) /\ waits.conn = s.conn
    BY <1>0, PcbFieldServes, Zenon
  <2>. HIDE DEF waits
  <2>2. Proceeds(s.conn[n], waits.conn[n], delayed)
    BY <2>1, Zenon DEF Proceeds
  <2>. QED
    BY <1>3, <2>1, <2>2, Zenon DEF Operates, Serves
<1>4. CASE C.msg = "shutrd" /\ t = Finish(shut, n, delayed)
  <2>. DEFINE X == [P EXCEPT !.rxclosed = TRUE]
              Q == [X EXCEPT !.refused = "none"]
              k == s.pbufs - r
  <2>1. X \in PcbRecord
    BY <1>1, PcbUpdates, Zenon
  <2>2. Q \in PcbRecord
    BY <2>1, PcbUpdates, Zenon
  <2>3. k \in Int
    BY <1>1, <1>2, SMT
  <2>4. shut = [s EXCEPT !.pcb[p] = Q, !.pbufs = k]
    <3>. HIDE DEF r
    <3>1. shut = [[s EXCEPT !.pcb[p].rxclosed = TRUE, !.pcb[p].refused = "none"] EXCEPT !.pbufs = k]
      <4>1. [s EXCEPT !.pcb[p].rxclosed = TRUE, !.pcb[p].refused = "none"].pbufs = s.pbufs
        BY <1>0, Zenon DEF StackRecord
      <4>. QED
        BY <4>1, Zenon
    <3>2. [s EXCEPT !.pcb[p].rxclosed = TRUE, !.pcb[p].refused = "none"] = [s EXCEPT !.pcb[p] = Q]
      OBVIOUS
    <3>. QED
      BY <3>1, <3>2, Zenon
  <2>. HIDE DEF shut
  <2>5. PcbTo(s, shut, p, Q, k)
    <3>. HIDE DEF Q, k
    <3>. QED
      BY <1>0, <2>2, <2>3, <2>4, PcbReplaced, Zenon
  <2>. HIDE DEF P
  <2>6. /\ X.unread = P.unread /\ X.arg = P.arg /\ X.state = P.state /\ X.snd = P.snd
        /\ X.pend <=> P.pend
    BY <1>1, Zenon DEF PcbRecord
  <2>. HIDE DEF X
  <2>7. /\ Q.unread = X.unread /\ Q.arg = X.arg /\ Q.refused = "none" /\ Q.state = X.state /\ Q.snd = X.snd
        /\ Q.pend <=> X.pend
    BY <2>1, Zenon DEF PcbRecord
  <2>. HIDE DEF Q
  <2>8. PcbOK(Q) /\ Refused(Q) = 0
    BY <1>1, <2>6, <2>7, Zenon DEF PcbOK, Refused
  <2>. HIDE DEF r
  <2>9. n # 0 => Q.unread >= DataIn(s.conn[n].recvmbox) + Refused(Q) + InHand(h, n)
    <3>1. P.unread >= DataIn(C.recvmbox) + r + InHand(h, n) /\ r >= 0
      <4>1. P.unread >= DataIn(C.recvmbox) + r + InHand(h, n)
        BY <1>0, <1>1, <1>2, Zenon
      <4>2. r >= 0
        BY SMT DEF r
      <4>. QED
        BY <4>1, <4>2, Zenon
    <3>. HIDE DEF C
    <3>2. Q.unread >= DataIn(C.recvmbox) + Refused(Q) + InHand(h, n)
      BY <1>1, <1>2, <2>6, <2>7, <2>8, <3>1, SMT
    <3>. QED
      BY <3>2, Zenon DEF C
  <2>10. k = s.pbufs - Refused(s.pcb[p]) + Refused(Q)
    <3>1. k = s.pbufs - Refused(P) + Refused(Q)
      BY <1>1, <1>2, <2>8, SMT
    <3>. QED
      BY <3>1, Zenon DEF P
  <2>11. n = s.pcb[p].arg /\ (Q.pend <=> s.pcb[p].pend) /\ Q.arg = n
    BY <1>0, <2>6, <2>7, Zenon DEF P
  <2>. HIDE DEF k
  <2>12. Serves(s, shut, h)
    BY <1>0, <2>5, <2>8, <2>9, <2>10, <2>11, PcbServes, SMTT(30)
  <2>13. Sane(shut, h) /\ shut.conn = s.conn /\ shut.mbox = s.mbox
    BY <2>5, <2>12, Zenon DEF Serves, PcbTo
  <2>14. Sane(t, h) /\ Finished(shut, t, n, delayed)
    BY <1>4, <2>13, FinishSane, Zenon
  <2>15. t.mbox = s.mbox /\ \A m \in Conns : m # n => t.conn[m] = s.conn[m]
    BY <2>13, <2>14, Zenon DEF Finished, OnlyConn
  <2>. HIDE DEF C
  <2>16. C.msg \notin {"close", "delete"}
    BY <1>4, Zenon
  <2>17. Proceeds(C, t.conn[n], delayed)
    BY <2>13, <2>14, <2>16, Zenon DEF Proceeds, Finished, C
  <2>. QED
    BY <2>14, <2>15, <2>17, Zenon DEF Operates, C
<1>5. CASE t = Finish(gone, n, delayed)
  <2>. DEFINE D == [C EXCEPT !.pcb = 0]
  <2>1. /\ f \in StackRecord /\ f.conn = s.conn /\ f.mbox = s.mbox
        /\ f.pending = s.pending - PendOf(s.pcb, p) /\ f.pbufs = s.pbufs - RefusedOf(s.pcb, p)
        /\ \A q \in Pcbs : q # p => f.pcb[q] = s.pcb[q]
        /\ f.pcb[p] = NoPcb
    <3>. HIDE DEF p
    <3>. QED
      BY <1>0, FreePcbEffect, Zenon
  <2>. HIDE DEF f
  <2>2. D \in ConnRec
    BY <1>0, NetconnUpdates, Zenon
  <2>3. gone = [f EXCEPT !.conn[n] = D]
    BY <2>1, Zenon
  <2>. HIDE DEF gone
  <2>4. OnlyConn(f, gone, n)
    <3>. HIDE DEF D
    <3>. QED
      BY <2>1, <2>2, <2>3, ConnReplaced, Zenon
  <2>5. gone.conn[n] = D
    <3>. HIDE DEF D
    <3>. QED
      BY <1>1, <2>1, <2>3, Zenon DEF StackRecord
  <2>. HIDE DEF C
  <2>6. /\ D.pcb = 0 /\ D.recvmbox = C.recvmbox /\ D.sem = C.sem
        /\ D.alive <=> C.alive
        /\ D.valid <=> C.valid
    BY <1>0, Zenon DEF ConnRec
  <2>. HIDE DEF D
  <2>7. Finished(gone, t, n, delayed)
    <3>1. gone \in StackRecord
      BY <2>4, Zenon DEF OnlyConn
    <3>. QED
      BY <1>5, <3>1, FinishEffect, Zenon
  <2>8. /\ t.conn[n].pcb = 0 /\ t.conn[n].recvmbox = C.recvmbox /\ t.conn[n].msg = "NULL" /\ t.conn[n].state = "NONE"
        /\ t.conn[n].left = 0 /\ t.conn[n].sem = IF delayed THEN 1 ELSE C.sem
        /\ t.conn[n].alive <=> C.alive
        /\ t.conn[n].valid <=> C.valid
    BY <2>5, <2>6, <2>7, Zenon DEF Finished
  <2>9. t.conn[n].sem \in 0..1
    <3>1. 1 \in 0..1 /\ C.sem \in 0..1
      BY <1>0, SMT DEF ConnOK
    <3>. QED
      BY <2>8, <3>1, Zenon
  <2>10. ConnOK(t.conn[n])
    <3>1. 0 >= 0
      OBVIOUS
    <3>. QED
      BY <1>0, <2>8, <2>9, <3>1, Zenon DEF ConnOK
  <2>11. Proceeds(C, t.conn[n], delayed)
    BY <2>8, Zenon DEF Proceeds
  <2>12. Changes(s, t, p, n) /\ t.pcb = f.pcb /\ t.pending = f.pending /\ t.pbufs = f.pbufs
    <3>1. /\ OnlyConn(f, gone, n) /\ OnlyConn(gone, t, n)
      BY <2>4, <2>7, Zenon DEF Finished
    <3>2. t \in StackRecord /\ t.pcb = f.pcb /\ t.pending = f.pending /\ t.pbufs = f.pbufs /\ t.mbox = f.mbox
      BY <3>1, Zenon DEF OnlyConn
    <3>3. \A m \in Conns : m # n => t.conn[m] = f.conn[m]
      BY <3>1, Zenon DEF OnlyConn
    <3>. HIDE DEF p
    <3>4. Changes(s, t, p, n)
      BY <2>1, <3>2, <3>3, Zenon DEF Changes
    <3>. QED
      BY <3>2, <3>4, Zenon
  <2>13. BoxOf(t.conn, n) = BoxOf(s.conn, n) /\ BoxOf(s.conn, n) \in Nat
    BY <1>2, <2>8, BoxOfConn, Zenon DEF C
  <2>14. t.pcb[p] = NoPcb /\ PcbOK(t.pcb[p]) /\ t.pcb[p].arg = 0 /\ PendOf(t.pcb, p) = 0 /\ RefusedOf(t.pcb, p) = 0
    BY <2>1, <2>12, NoRecords, NoPcbOK, Zenon DEF PendOf, RefusedOf, Refused
  <2>15. /\ t.pending = s.pending - PendOf(s.pcb, p) + PendOf(t.pcb, p)
         /\ t.pbufs = s.pbufs - BoxOf(s.conn, n) + BoxOf(t.conn, n) - RefusedOf(s.pcb, p) + RefusedOf(t.pcb, p)
    <3>1. PendOf(s.pcb, p) \in Int /\ RefusedOf(s.pcb, p) \in Int
      BY SMT DEF PendOf, RefusedOf, Refused
    <3>. QED
      BY <1>1, <2>1, <2>12, <2>13, <2>14, <3>1, SMT
  <2>16. n = s.pcb[p].arg /\ (n # 0 => t.conn[n].pcb = 0)
    BY <1>0, <2>8, Zenon DEF P
  <2>17. n # 0 => ConnOK(t.conn[n]) /\ (t.conn[n].alive <=> s.conn[n].alive)
    BY <2>8, <2>10, Zenon DEF C
  <2>18. Sane(t, h)
    BY <1>0, <2>12, <2>14, <2>15, <2>16, <2>17, SaneStep, SMTT(30)
  <2>. QED
    BY <2>11, <2>12, <2>18, Zenon DEF Operates, Changes, C
<1>. QED
  BY <1>t, <1>3, <1>4, <1>5, Zenon

\* A poll counts, and the operation goes on.
LEMMA PollServes ==
  ASSUME NEW s, NEW h, Sane(s, h), NEW n \in Conns \cup {0}
  PROVE  Serves(s, PollsLeft(s, n), h)
<1>1. CASE n # 0 /\ s.conn[n].state = "CLOSE" /\ s.conn[n].left > 0
  <2>. DEFINE k == s.conn[n].left - 1
              t == [s EXCEPT !.conn[n].left = k]
  <2>1. n \in Conns
    BY <1>1, Zenon
  <2>2. s.conn[n] \in ConnRec
    BY <2>1, SaneConn, Zenon
  <2>3. s.conn[n].left \in Int
    BY <2>2, NetconnFields, Zenon
  <2>4. k \in Int /\ k >= 0
    BY <1>1, <2>3, SMT
  <2>5. PollsLeft(s, n) = t
    BY <1>1, Zenon DEF PollsLeft
  <2>. HIDE DEF k
  <2>6. LeftIs(s, t, n, k, h)
    BY <2>1, <2>4, LeftEffect, Zenon
  <2>. HIDE DEF t
  <2>7. Gentle(s.conn[n], t.conn[n])
    BY <2>6, Zenon DEF LeftIs, Gentle, Busy
  <2>8. ASSUME NEW m \in Conns PROVE Gentle(s.conn[m], t.conn[m])
    <3>1. CASE m = n
      BY <2>7, <3>1, Zenon
    <3>2. CASE m # n
      <4>1. t.conn[m] = s.conn[m]
        BY <2>6, <3>2, Zenon DEF LeftIs
      <4>. QED
        BY <4>1, GentleSelf, Zenon
    <3>. QED
      BY <3>1, <3>2, Zenon
  <2>. QED
    BY <2>5, <2>6, <2>8, Zenon DEF Serves, LeftIs
<1>2. CASE ~(n # 0 /\ s.conn[n].state = "CLOSE" /\ s.conn[n].left > 0)
  <2>1. PollsLeft(s, n) = s
    BY <1>2, Zenon DEF PollsLeft
  <2>. QED
    BY <2>1, ServesSelf, Zenon
<1>. QED
  BY <1>1, <1>2, Zenon

LEMMA GoOnServes ==
  ASSUME NEW s, NEW h, Sane(s, h), NEW n \in Conns \cup {0}, NEW o
  PROVE  Serves(s, GoOn(s, n, o), h)
<1>. DEFINE delayed == TRUE
<1>1. CASE n # 0 /\ s.conn[n].state = "WRITE"
  <2>1. n \in Conns /\ delayed \in BOOLEAN /\ delayed
    BY <1>1, Zenon
  <2>2. s.conn[n].msg = "write"
    BY <1>1, <2>1, SaneConn, Zenon DEF ConnOK
  <2>3. GoOn(s, n, o) = lwip_netconn_do_writemore(s, n, o, delayed)
    BY <1>1, Zenon DEF GoOn
  <2>. HIDE DEF delayed
  <2>4. Operates(s, GoOn(s, n, o), n, delayed, h)
    BY <2>1, <2>2, <2>3, WriteOperates, Zenon
  <2>. QED
    BY <2>1, <2>2, <2>4, OperatesServes, Zenon
<1>2. CASE n # 0 /\ s.conn[n].state = "CLOSE"
  <2>1. n \in Conns /\ delayed \in BOOLEAN /\ delayed
    BY <1>2, Zenon
  <2>2. s.conn[n].msg # "NULL"
    BY <1>2, <2>1, SaneConn, Zenon DEF ConnOK
  <2>3. GoOn(s, n, o) = lwip_netconn_do_close_internal(s, n, o, delayed)
    BY <1>2, Zenon DEF GoOn
  <2>. HIDE DEF delayed
  <2>4. Operates(s, GoOn(s, n, o), n, delayed, h)
    BY <1>2, <2>1, <2>3, CloseOperates, Zenon
  <2>. QED
    BY <2>1, <2>2, <2>4, OperatesServes, Zenon
<1>3. CASE ~(n # 0 /\ s.conn[n].state = "WRITE") /\ ~(n # 0 /\ s.conn[n].state = "CLOSE")
  <2>1. GoOn(s, n, o) = s
    BY <1>3, Zenon DEF GoOn
  <2>. QED
    BY <2>1, ServesSelf, Zenon
<1>. QED
  BY <1>1, <1>2, <1>3, Zenon

-----------------------------------------------------------------------------
(* The inductive invariant.                                                *)

\* What a callback leaves true of the mailbox of the listener and of the thread.
LEMMA GentleKeeps ==
  ASSUME NEW cs, NEW ds, NEW mbox, NEW n \in Conns \cup {0}, NEW pc,
         BoxOK(cs, mbox, n), WaitOK(cs, n, pc), ThreadOK(cs, n, pc), \A m \in Conns : Gentle(cs[m], ds[m])
  PROVE  BoxOK(ds, mbox, n) /\ WaitOK(ds, n, pc) /\ ThreadOK(ds, n, pc)
<1>1. BoxOK(ds, mbox, n)
  <2>1. ASSUME NEW k \in 1..Len(mbox), mbox[k] # ABORTED PROVE ds[mbox[k]].alive /\ mbox[k] # n
    <3>1. cs[mbox[k]].alive /\ mbox[k] # n
      BY <2>1, Zenon DEF BoxOK
    <3>2. mbox \in Seq(Conns \cup {ABORTED})
      BY Zenon DEF BoxOK
    <3>3. mbox[k] \in Conns \cup {ABORTED}
      BY <3>2, ElementOfSeq, Zenon
    <3>. QED
      BY <2>1, <3>1, <3>3, Zenon DEF Gentle
  <2>. QED
    BY <2>1, Zenon DEF BoxOK
<1>2. WaitOK(ds, n, pc)
  BY Zenon DEF WaitOK, Gentle
<1>3. n # 0 => n \in Conns
  BY Zenon
<1>4. pc \in {"wait free", "free"} => n # 0
  BY Zenon DEF ThreadOK
<1>5. /\ pc = "accept" <=> n = 0
      /\ n # 0 => ds[n].alive
      /\ pc \in {"wait free", "free"} => ~ds[n].valid
      /\ pc = "free" => ds[n].pcb = 0
  BY <1>3, <1>4, Zenon DEF ThreadOK, Gentle
<1>6. pc = "wait free" => ds[n].msg = "delete" \/ (ds[n].msg = "NULL" /\ ds[n].pcb = 0)
  <2>. SUFFICES ASSUME pc = "wait free" PROVE ds[n].msg = "delete" \/ (ds[n].msg = "NULL" /\ ds[n].pcb = 0)
    BY Zenon
  <2>1. n \in Conns /\ (cs[n].msg = "delete" \/ (cs[n].msg = "NULL" /\ cs[n].pcb = 0))
    BY <1>3, <1>4, Zenon DEF ThreadOK
  <2>2. Gentle(cs[n], ds[n])
    BY <2>1, Zenon
  <2>. QED
    BY <2>1, <2>2, Zenon DEF Gentle
<1>. QED
  BY <1>1, <1>2, <1>5, <1>6, Zenon DEF ThreadOK

\* The counters are integers.
LEMMA CountsInt ==
  ASSUME NEW ps, NEW cs, NEW pending, NEW pbufs, NEW h, Tidy(ps, cs, pending, pbufs, h)
  PROVE  pending \in Nat /\ pbufs \in Nat
<1>1. ps \in [Pcbs -> PcbRecord] /\ cs \in [Conns -> ConnRec] /\ Counts(ps, cs, pending, pbufs, h)
  BY Zenon DEF Tidy
<1>2. \A m \in Conns : Len(cs[m].recvmbox) <= DEFAULT_TCP_RECVMBOX_SIZE
  BY Zenon DEF Tidy, ConnOK
<1>3. Cardinality(Pending(ps)) \in Nat /\ Cardinality(Refusing(ps)) \in Nat
  <2>1. 0 \in Pcbs \cup {0} /\ \A q \in Pcbs : q # 0 => ps[q] = ps[q]
    BY Zenon
  <2>. QED
    BY <1>1, <2>1, PcbCounts, Zenon
<1>4. Cardinality(Boxed(cs)) \in Nat
  <2>1. 0 \in Conns \cup {0} /\ \A m \in Conns : m # 0 => cs[m] = cs[m]
    BY Zenon
  <2>. QED
    BY <1>1, <1>2, <2>1, BoxedChange, Zenon
<1>5. pending = Cardinality(Pending(ps)) /\ pbufs = Cardinality(Boxed(cs)) + Cardinality(Refusing(ps)) + HeldOf(h)
  BY <1>1, Zenon DEF Counts, HeldOf
<1>6. HeldOf(h) \in Nat
  BY SMT DEF HeldOf
<1>. QED
  BY <1>3, <1>4, <1>5, <1>6, SMT

LEMMA StackIs ==
  /\ Stack.pcb = tpcb /\ Stack.conn = conn /\ Stack.pending = accepts_pending /\ Stack.mbox = acceptmbox
  /\ Stack.pbufs = apiPbufs
  BY Zenon DEF Stack

LEMMA StackSane ==
  ASSUME NetconnInv
  PROVE  Sane(Stack, Hand(app)) /\ app \in AppRecord /\ app.n \in Conns \cup {0} /\ app.pc \in AppPcs
<1>1. Tidy(tpcb, conn, accepts_pending, apiPbufs, Hand(app)) /\ acceptmbox \in Seq(Conns \cup {ABORTED}) /\ app \in AppRecord
  BY Zenon DEF NetconnInv, BoxOK
<1>2. tpcb \in [Pcbs -> PcbRecord] /\ conn \in [Conns -> ConnRec]
  BY <1>1, Zenon DEF Tidy
<1>3. accepts_pending \in Nat /\ apiPbufs \in Nat
  BY <1>1, CountsInt, Zenon
<1>4. accepts_pending \in Int /\ apiPbufs \in Int
  BY <1>3, SMT
<1>5. Stack \in StackRecord
  BY <1>1, <1>2, <1>4, SMT DEF Stack, StackRecord
<1>. QED
  BY <1>1, <1>5, StackIs, AppFields, Zenon DEF Sane

\* A step of the stack that is gentle keeps the invariant.
LEMMA GentleStep ==
  ASSUME NetconnInv, NEW t, Sane(t, Hand(app)), \A m \in Conns : Gentle(conn[m], t.conn[m]),
         BoxOK(conn, t.mbox, app.n), Becomes(t), app' = app
  PROVE  NetconnInv'
<1>1. tpcb' = t.pcb /\ conn' = t.conn /\ accepts_pending' = t.pending /\ acceptmbox' = t.mbox /\ apiPbufs' = t.pbufs
  BY Zenon DEF Becomes
<1>2. Tidy(t.pcb, t.conn, t.pending, t.pbufs, Hand(app))
  BY Zenon DEF Sane
<1>3. BoxOK(t.conn, t.mbox, app.n) /\ WaitOK(t.conn, app.n, app.pc) /\ ThreadOK(t.conn, app.n, app.pc)
  <2>1. app.n \in Conns \cup {0}
    BY StackSane, Zenon
  <2>2. WaitOK(conn, app.n, app.pc) /\ ThreadOK(conn, app.n, app.pc)
    BY Zenon DEF NetconnInv
  <2>. QED
    BY <1>2, <2>1, <2>2, GentleKeeps, Zenon
<1>4. Tidy(tpcb', conn', accepts_pending', apiPbufs', Hand(app'))
  BY <1>1, <1>2, Zenon
<1>5. BoxOK(conn', acceptmbox', app'.n) /\ WaitOK(conn', app'.n, app'.pc) /\ ThreadOK(conn', app'.n, app'.pc)
  BY <1>1, <1>2, <1>3, Zenon
<1>6. app' \in AppRecord /\ (app'.got = "data" => app'.pc = "recved")
  BY Zenon DEF NetconnInv
<1>. QED
  BY <1>4, <1>5, <1>6, Zenon DEF NetconnInv

LEMMA ServesKeeps ==
  ASSUME NetconnInv, NEW t, Serves(Stack, t, Hand(app)), Becomes(t), app' = app
  PROVE  NetconnInv'
<1>1. Sane(t, Hand(app)) /\ t.mbox = acceptmbox /\ \A m \in Conns : Gentle(conn[m], t.conn[m])
  BY StackIs, Zenon DEF Serves
<1>2. BoxOK(conn, t.mbox, app.n)
  BY <1>1, Zenon DEF NetconnInv
<1>. QED
  BY <1>1, <1>2, GentleStep, Zenon

LEMMA NetconnInvReset ==
  ASSUME NetconnInv, NEW p \in Pcbs, Reset(p)
  PROVE  NetconnInv'
<1>1. Becomes(Abort(Stack, p)) /\ app' = app
  BY Zenon DEF Reset
<1>2. Serves(Stack, Abort(Stack, p), Hand(app))
  BY StackSane, AbortServes, Zenon
<1>. QED
  BY <1>1, <1>2, ServesKeeps, Zenon

LEMMA NetconnInvFastTmr ==
  ASSUME NetconnInv, NEW p \in Pcbs, FastTmr(p)
  PROVE  NetconnInv'
<1>1. Becomes(RetryRefused(Stack, p)) /\ app' = app
  BY Zenon DEF FastTmr
<1>2. Serves(Stack, RetryRefused(Stack, p), Hand(app))
  BY StackSane, RetryServes, Zenon
<1>. QED
  BY <1>1, <1>2, ServesKeeps, Zenon

LEMMA NetconnInvFin ==
  ASSUME NetconnInv, NEW p \in Pcbs, Fin(p)
  PROVE  NetconnInv'
<1>. DEFINE s == RetryRefused(Stack, p)
            a == [s EXCEPT !.pcb[p].state = "CLOSE_WAIT"]
            h == Hand(app)
<1>1. Becomes(IF s.pcb[p].refused # "none" THEN s ELSE Closed(a, p)) /\ app' = app
  BY Zenon DEF Fin
<1>2. Serves(Stack, s, h)
  BY StackSane, RetryServes, Zenon
<1>. HIDE DEF s, h
<1>3. Serves(s, a, h)
  BY <1>2, PcbFieldServes, Zenon DEF Serves
<1>. HIDE DEF a
<1>4. Serves(a, Closed(a, p), h)
  BY <1>3, ClosedServes, Zenon DEF Serves
<1>5. Serves(Stack, Closed(a, p), h)
  <2>1. Serves(Stack, a, h)
    BY <1>2, <1>3, ServesTwice, Zenon
  <2>. QED
    BY <1>4, <2>1, ServesTwice, Zenon
<1>6. \E t : Becomes(t) /\ Serves(Stack, t, h)
  BY <1>1, <1>2, <1>5, Zenon
<1>. QED
  BY <1>1, <1>6, ServesKeeps, Zenon DEF h

LEMMA NetconnInvData ==
  ASSUME NetconnInv, NEW p \in Pcbs, NEW fin \in BOOLEAN, Data(p, fin)
  PROVE  NetconnInv'
<1>. DEFINE s == RetryRefused(Stack, p)
            a == [s EXCEPT !.pcb[p].unread = @ + 1, !.pbufs = @ + 1,
                           !.pcb[p].state = IF fin THEN "CLOSE_WAIT" ELSE @]
            t == recv_tcp(a, p, fin)
            h == Hand(app)
<1>1. /\ Becomes(IF s.pcb[p].refused # "none" THEN s
                 ELSE IF s.pcb[p].rxclosed THEN Abort(s, p)
                 ELSE IF fin /\ t.pcb[p].refused = "none" THEN Closed(t, p) ELSE t)
      /\ app' = app /\ tpcb[p].unread < RecvWindow
  BY Zenon DEF Data
<1>2. Serves(Stack, s, h) /\ s.pcb[p].unread <= tpcb[p].unread
  BY StackSane, StackIs, RetryServes, Zenon
<1>3. s.pcb[p].unread < RecvWindow
  <2>1. tpcb[p] \in PcbRecord
    BY StackSane, StackIs, SanePcb, Zenon
  <2>2. tpcb[p].unread \in Int
    BY <2>1, PcbFields, Zenon
  <2>. HIDE DEF s
  <2>3. s.pcb[p] \in PcbRecord
    BY <1>2, SanePcb, Zenon DEF Serves
  <2>4. s.pcb[p].unread \in Int
    BY <2>3, PcbFields, Zenon
  <2>. QED
    BY <1>1, <1>2, <2>2, <2>4, NetconnConstants, SMT
<1>. HIDE DEF s, h
<1>4. Sane(s, h)
  BY <1>2, Zenon DEF Serves
<1>5. Serves(Stack, Abort(s, p), h)
  <2>1. Serves(s, Abort(s, p), h)
    BY <1>4, AbortServes, Zenon
  <2>. QED
    BY <1>2, <2>1, ServesTwice, Zenon
<1>6. ASSUME s.pcb[p].refused = "none" PROVE Serves(Stack, t, h) /\ Serves(Stack, Closed(t, p), h)
  <2>1. Serves(s, t, h)
    BY <1>3, <1>4, <1>6, ArrivalServes, Zenon
  <2>. HIDE DEF t
  <2>2. Serves(Stack, t, h)
    BY <1>2, <2>1, ServesTwice, Zenon
  <2>3. Serves(t, Closed(t, p), h)
    BY <2>1, ClosedServes, Zenon DEF Serves
  <2>. QED
    BY <2>2, <2>3, ServesTwice, Zenon
<1>. HIDE DEF t
<1>7. \E u : Becomes(u) /\ Serves(Stack, u, h)
  BY <1>1, <1>2, <1>5, <1>6, Zenon
<1>. QED
  BY <1>1, <1>7, ServesKeeps, Zenon DEF h

LEMMA NetconnInvAcked ==
  ASSUME NetconnInv, NEW p \in Pcbs, Acked(p)
  PROVE  NetconnInv'
<1>. DEFINE a == [Stack EXCEPT !.pcb[p].snd = 0]
            n == tpcb[p].arg
            h == Hand(app)
<1>1. PICK o \in {"ok", "mem", "rte"} : Becomes(GoOn(a, n, o))
  BY Zenon DEF Acked
<1>2. app' = app
  BY Zenon DEF Acked
<1>3. n \in Conns \cup {0}
  BY StackSane, StackIs, SanePcb, Zenon
<1>4. Serves(Stack, a, h)
  BY StackSane, PcbFieldServes, Zenon
<1>. HIDE DEF a, n, h
<1>5. Serves(a, GoOn(a, n, o), h)
  BY <1>3, <1>4, GoOnServes, Zenon DEF Serves
<1>6. Serves(Stack, GoOn(a, n, o), h)
  BY <1>4, <1>5, ServesTwice, Zenon
<1>. QED
  BY <1>1, <1>2, <1>6, ServesKeeps, Zenon DEF h

LEMMA NetconnInvPoll ==
  ASSUME NetconnInv, NEW p \in Pcbs, poll_tcp(p)
  PROVE  NetconnInv'
<1>. DEFINE n == tpcb[p].arg
            a == PollsLeft(Stack, n)
            h == Hand(app)
<1>1. PICK o \in {"ok", "mem", "rte"} : Becomes(GoOn(a, n, o))
  BY Zenon DEF poll_tcp
<1>2. app' = app
  BY Zenon DEF poll_tcp
<1>3. n \in Conns \cup {0}
  BY StackSane, StackIs, SanePcb, Zenon
<1>. HIDE DEF n
<1>4. Serves(Stack, a, h)
  BY <1>3, StackSane, PollServes, Zenon
<1>. HIDE DEF a, h
<1>5. Serves(a, GoOn(a, n, o), h)
  BY <1>3, <1>4, GoOnServes, Zenon DEF Serves
<1>6. Serves(Stack, GoOn(a, n, o), h)
  BY <1>4, <1>5, ServesTwice, Zenon
<1>. QED
  BY <1>1, <1>2, <1>6, ServesKeeps, Zenon DEF h

\* The smallest of some natural numbers.
LEMMA LeastIn ==
  ASSUME NEW S \in SUBSET Nat, S # {}
  PROVE  Least(S) \in S
<1>1. PICK x \in S : \A y \in S : ~(<<y, x>> \in OpToRel(<, Nat))
  BY NatLessThanWellFounded, WFMin
<1>2. \A y \in S : <<y, x>> \in OpToRel(<, Nat) <=> y < x
  BY DEF OpToRel
<1>3. \A y \in S : ~(y < x)
  BY <1>1, <1>2, Zenon
<1>4. \A y \in S : y \in Nat /\ x \in Nat
  OBVIOUS
<1>5. \A y \in S : x <= y
  BY <1>3, <1>4
<1>. QED
  BY <1>5, Zenon DEF Least

\* The mailbox of the listener takes a netconn that nobody has.
LEMMA BoxTakes ==
  ASSUME NEW cs, NEW mbox, NEW n, BoxOK(cs, mbox, n), Len(mbox) < DEFAULT_ACCEPTMBOX_SIZE,
         NEW x \in Conns \cup {ABORTED},
         x # ABORTED => cs[x].alive /\ x # n /\ \A k \in 1..Len(mbox) : mbox[k] # x
  PROVE  BoxOK(cs, Append(mbox, x), n)
<1>. DEFINE box == Append(mbox, x)
<1>1. mbox \in Seq(Conns \cup {ABORTED})
  BY Zenon DEF BoxOK
<1>2. /\ box \in Seq(Conns \cup {ABORTED}) /\ Len(box) = Len(mbox) + 1 /\ Len(mbox) \in Nat /\ box[Len(mbox) + 1] = x
      /\ \A k \in 1..Len(mbox) : box[k] = mbox[k]
  <2>1. box \in Seq(Conns \cup {ABORTED}) /\ Len(box) = Len(mbox) + 1 /\ Len(mbox) \in Nat /\ box[Len(mbox) + 1] = x
    BY <1>1, AppendProperties, LenProperties
  <2>2. \A k \in 1..Len(mbox) : box[k] = mbox[k]
    BY <1>1, AppendProperties
  <2>. QED
    BY <2>1, <2>2, Zenon
<1>. HIDE DEF box
<1>3. Len(box) <= DEFAULT_ACCEPTMBOX_SIZE
  BY <1>2, NetconnConstants, SMT
<1>4. \A k \in 1..Len(box) : k \in 1..Len(mbox) \/ k = Len(mbox) + 1
  BY <1>2, SMT
<1>5. ASSUME NEW k \in 1..Len(box), box[k] # ABORTED PROVE cs[box[k]].alive /\ box[k] # n
  <2>1. CASE k \in 1..Len(mbox)
    BY <1>2, <1>5, <2>1, Zenon DEF BoxOK
  <2>2. CASE k = Len(mbox) + 1
    BY <1>2, <1>5, <2>2, Zenon
  <2>. QED
    BY <1>4, <2>1, <2>2, Zenon
<1>6. ASSUME NEW k \in 1..Len(box), NEW j \in 1..Len(box), box[k] = box[j], box[k] # ABORTED PROVE k = j
  <2>1. CASE k \in 1..Len(mbox) /\ j \in 1..Len(mbox)
    <3>1. mbox[k] = mbox[j] /\ mbox[k] # ABORTED
      BY <1>2, <1>6, <2>1, Zenon
    <3>. QED
      BY <2>1, <3>1, Zenon DEF BoxOK
  <2>2. CASE k \in 1..Len(mbox) /\ j = Len(mbox) + 1
    BY <1>2, <1>6, <2>2, Zenon
  <2>3. CASE k = Len(mbox) + 1 /\ j \in 1..Len(mbox)
    BY <1>2, <1>6, <2>3, Zenon
  <2>. QED
    BY <1>4, <2>1, <2>2, <2>3, Zenon
<1>7. BoxOK(cs, box, n)
  BY <1>2, <1>3, <1>5, <1>6, Zenon DEF BoxOK
<1>. QED
  BY <1>7, Zenon DEF box

\* The mailbox matters to nothing else.
LEMMA MboxSane ==
  ASSUME NEW s, NEW h, Sane(s, h), NEW box \in Seq(Conns \cup {ABORTED})
  PROVE  LET t == [s EXCEPT !.mbox = box]
         IN Sane(t, h) /\ t.mbox = box /\ t.conn = s.conn /\ t.pcb = s.pcb /\ t.pending = s.pending /\ t.pbufs = s.pbufs
<1>. DEFINE t == [s EXCEPT !.mbox = box]
<1>1. s \in StackRecord
  BY Zenon DEF Sane
<1>2. t \in StackRecord
  BY <1>1, StackUpdates, Zenon
<1>3. t.mbox = box /\ t.conn = s.conn /\ t.pcb = s.pcb /\ t.pending = s.pending /\ t.pbufs = s.pbufs
  BY <1>1, Zenon DEF StackRecord
<1>. HIDE DEF t
<1>4. Sane(t, h)
  BY <1>2, <1>3, Zenon DEF Sane
<1>. QED
  BY <1>3, <1>4, Zenon DEF t

\* A pcb without a netconn gets a new record that has none either.
LEMMA LonePcb ==
  ASSUME NEW s, NEW h, Sane(s, h), NEW p \in Pcbs, s.pcb[p].arg = 0, NEW t, t \in StackRecord,
         t.conn = s.conn, t.pbufs = s.pbufs, t.mbox = s.mbox, \A q \in Pcbs : q # p => t.pcb[q] = s.pcb[q],
         PcbOK(t.pcb[p]), t.pcb[p].arg = 0, t.pcb[p].refused = "none",
         t.pending = s.pending - PendOf(s.pcb, p) + PendOf(t.pcb, p)
  PROVE  Serves(s, t, h)
<1>1. s \in StackRecord /\ p # 0 /\ s.pbufs \in Int /\ s.conn \in [Conns -> ConnRec] /\ PcbOK(s.pcb[p])
  BY SanePcb, NetconnConstants, Zenon
<1>2. RefusedOf(s.pcb, p) = 0 /\ RefusedOf(t.pcb, p) = 0
  BY <1>1, Zenon DEF RefusedOf, Refused, PcbOK
<1>3. BoxOf(s.conn, 0) = 0
  BY Zenon DEF BoxOf
<1>. DEFINE n == s.pcb[p].arg
<1>4. n = s.pcb[p].arg /\ n = 0
  OBVIOUS
<1>5. BoxOf(s.conn, n) = 0 /\ BoxOf(t.conn, n) = 0
  BY <1>3, Zenon
<1>. HIDE DEF n
<1>6. t.pbufs = s.pbufs - BoxOf(s.conn, n) + BoxOf(t.conn, n) - RefusedOf(s.pcb, p) + RefusedOf(t.pcb, p)
  BY <1>1, <1>2, <1>5, SMT
<1>7. Changes(s, t, p, n)
  BY Zenon DEF Changes
<1>8. /\ n # 0 => ConnOK(t.conn[n]) /\ (t.conn[n].alive <=> s.conn[n].alive)
      /\ t.pcb[p].arg = 0 /\ (n # 0 => t.conn[n].pcb = 0)
  BY <1>4, Zenon
<1>9. Sane(t, h)
  BY <1>4, <1>6, <1>7, <1>8, SaneStep, SMTT(30)
<1>10. n # 0 => Gentle(s.conn[n], t.conn[n])
  BY <1>4, Zenon
<1>. QED
  BY <1>4, <1>7, <1>9, <1>10, ServesStep, Zenon

LEMMA NetconnInvSyn ==
  ASSUME NetconnInv, Syn
  PROVE  NetconnInv'
<1>. DEFINE s == Stack
            h == Hand(app)
            free == {p \in Pcbs : tpcb[p].state = "CLOSED"}
            p == Least(free)
            Q == [NoPcb EXCEPT !.state = "SYN_RCVD", !.pend = TRUE]
            t == [s EXCEPT !.pcb[p] = Q, !.pending = @ + 1]
<1>1. /\ Becomes(IF free # {} THEN t
                 ELSE IF Len(s.mbox) < DEFAULT_ACCEPTMBOX_SIZE THEN [s EXCEPT !.mbox = Append(@, ABORTED)]
                 ELSE s)
      /\ app' = app
  BY Zenon DEF Syn
<1>2. Sane(s, h) /\ s \in StackRecord /\ s.pcb = tpcb /\ s.conn = conn /\ s.mbox = acceptmbox
  BY StackSane, StackIs, Zenon DEF Sane
<1>3. CASE free # {}
  <2>1. p \in free
    <3>1. free \in SUBSET Nat
      BY NetconnConstants, Zenon
    <3>. HIDE DEF free
    <3>. QED
      BY <1>3, <3>1, LeastIn, Zenon
  <2>2. p \in Pcbs /\ s.pcb[p].state = "CLOSED"
    BY <1>2, <2>1, Zenon
  <2>. DEFINE X == [NoPcb EXCEPT !.state = "SYN_RCVD"]
  <2>3. X \in PcbRecord
    BY NoRecords, PcbUpdates, Zenon
  <2>4. Q \in PcbRecord
    BY <2>3, PcbUpdates, Zenon
  <2>5. Q.state = "SYN_RCVD" /\ Q.pend /\ Q.arg = 0 /\ Q.refused = "none" /\ Q.snd = 0 /\ Q.unread = 0
    BY NoRecords, Zenon DEF PcbRecord
  <2>. HIDE DEF Q, p, s
  <2>. DEFINE a == [s EXCEPT !.pcb[p] = Q]
  <2>6. PcbTo(s, a, p, Q, s.pbufs)
    <3>1. 0 \in Int
      OBVIOUS
    <3>. QED
      BY <1>2, <2>2, <2>4, <3>1, PcbReplaced, Zenon
  <2>7. t = [a EXCEPT !.pending = @ + 1]
    BY Zenon
  <2>. HIDE DEF a, t
  <2>8. a \in StackRecord /\ a.pending = s.pending /\ s.pending \in Int
    BY <1>2, <2>6, StackFields, Zenon DEF PcbTo
  <2>9. a.pending + 1 \in Int
    BY <2>8, SMT
  <2>10. t \in StackRecord
    BY <2>7, <2>8, <2>9, StackUpdates, Zenon
  <2>11. t.pcb = a.pcb /\ t.conn = a.conn /\ t.mbox = a.mbox /\ t.pbufs = a.pbufs /\ t.pending = a.pending + 1
    BY <2>7, <2>8, Zenon DEF StackRecord
  <2>12. /\ t.conn = s.conn /\ t.mbox = s.mbox /\ t.pbufs = s.pbufs /\ t.pcb[p] = Q /\ t.pending = s.pending + 1
         /\ \A q \in Pcbs : q # p => t.pcb[q] = s.pcb[q]
    BY <2>6, <2>8, <2>11, Zenon DEF PcbTo
  <2>13. PcbOK(s.pcb[p]) /\ p # 0
    BY <1>2, <2>2, SanePcb, NetconnConstants, Zenon
  <2>14. s.pcb[p].arg = 0 /\ ~s.pcb[p].pend
    BY <2>2, <2>13, Zenon DEF PcbOK
  <2>15. PendOf(s.pcb, p) = 0 /\ PendOf(t.pcb, p) = 1
    BY <2>5, <2>12, <2>13, <2>14, Zenon DEF PendOf
  <2>16. t.pending = s.pending - PendOf(s.pcb, p) + PendOf(t.pcb, p)
    BY <2>8, <2>12, <2>15, SMT
  <2>17. PcbOK(Q)
    <3>1. 0 \in 0..SndBuf /\ 0 \in 0..RecvWindow
      BY NetconnConstants, SMT
    <3>. QED
      BY <2>5, <3>1, Zenon DEF PcbOK
  <2>. HIDE DEF h
  <2>18. PcbOK(t.pcb[p]) /\ t.pcb[p].arg = 0 /\ t.pcb[p].refused = "none"
    BY <2>5, <2>12, <2>17, Zenon
  <2>19. Serves(s, t, h)
    BY <1>2, <2>2, <2>10, <2>12, <2>14, <2>16, <2>18, LonePcb, SMTT(30)
  <2>. QED
    BY <1>1, <1>3, <2>19, ServesKeeps, Zenon DEF s, h
<1>4. CASE free = {} /\ Len(s.mbox) < DEFAULT_ACCEPTMBOX_SIZE
  <2>. DEFINE box == Append(acceptmbox, ABORTED)
              u == [s EXCEPT !.mbox = box]
  <2>1. Becomes(u)
    <3>1. u = [s EXCEPT !.mbox = Append(@, ABORTED)]
      BY <1>2, Zenon
    <3>. HIDE DEF s, u, t
    <3>. QED
      BY <1>1, <1>4, <3>1, Zenon
  <2>2. BoxOK(conn, acceptmbox, app.n)
    BY Zenon DEF NetconnInv
  <2>. HIDE DEF s, h
  <2>3. BoxOK(conn, box, app.n)
    BY <1>2, <1>4, <2>2, BoxTakes, Zenon
  <2>4. box \in Seq(Conns \cup {ABORTED})
    BY <2>3, Zenon DEF BoxOK
  <2>. HIDE DEF box
  <2>5. Sane(u, h) /\ u.mbox = box /\ u.conn = conn
    BY <1>2, <2>4, MboxSane, Zenon
  <2>. HIDE DEF u
  <2>6. \A m \in Conns : Gentle(conn[m], u.conn[m])
    BY <2>5, GentleSelf, Zenon
  <2>. QED
    BY <1>1, <2>1, <2>3, <2>5, <2>6, GentleStep, Zenon DEF h
<1>5. CASE free = {} /\ ~(Len(s.mbox) < DEFAULT_ACCEPTMBOX_SIZE)
  <2>1. Becomes(s)
    <3>. HIDE DEF s, t
    <3>. QED
      BY <1>1, <1>5, Zenon
  <2>2. Serves(s, s, h)
    <3>. HIDE DEF s, h
    <3>. QED
      BY <1>2, ServesSelf, Zenon
  <2>. QED
    BY <1>1, <2>1, <2>2, ServesKeeps, Zenon
<1>. QED
  BY <1>3, <1>4, <1>5, Zenon

NewConn(p) == [NoConn EXCEPT !.alive = TRUE, !.pcb = p, !.valid = TRUE]

LEMMA NewConnIs ==
  ASSUME NEW p \in Pcbs
  PROVE  LET D == NewConn(p)
         IN /\ D \in ConnRec /\ D.alive /\ D.valid /\ D.pcb = p /\ D.recvmbox = <<>> /\ D.msg = "NULL" /\ D.sem = 0
            /\ ConnOK(D)
<1>. DEFINE X == [NoConn EXCEPT !.alive = TRUE]
            Y == [X EXCEPT !.pcb = p]
            D == [Y EXCEPT !.valid = TRUE]
<1>1. D = NewConn(p)
  BY Zenon DEF NewConn
<1>2. X \in ConnRec
  BY NoRecords, NetconnUpdates, Zenon
<1>3. Y \in ConnRec
  BY <1>2, NetconnUpdates, Zenon
<1>4. D \in ConnRec
  BY <1>3, NetconnUpdates, Zenon
<1>5. /\ D.alive /\ D.valid /\ D.pcb = p /\ D.recvmbox = <<>> /\ D.msg = "NULL" /\ D.sem = 0 /\ D.state = "NONE"
      /\ D.left = 0
  BY NoRecords, Zenon DEF ConnRec
<1>. HIDE DEF D
<1>6. Len(<<>>) <= DEFAULT_TCP_RECVMBOX_SIZE /\ 0 >= 0 /\ 0 \in 0..1
  BY NetconnConstants, SMT
<1>7. ConnOK(D)
  BY <1>5, <1>6, Zenon DEF ConnOK
<1>. QED
  BY <1>1, <1>4, <1>5, <1>7, Zenon

Accepted(s, p, n, box) ==
  [s EXCEPT !.mbox = box, !.pending = @ + 1, !.pcb[p].arg = n, !.pcb[p].pend = TRUE, !.conn[n] = NewConn(p)]

AcceptsAs(s, t, p, n, box, h) ==
  /\ Sane(t, h) /\ t.mbox = box /\ t.conn[n] = NewConn(p)
  /\ \A m \in Conns : m # n => t.conn[m] = s.conn[m]

\* accept_function makes a netconn for the connection.
LEMMA AcceptNew ==
  ASSUME NEW s, NEW h, Sane(s, h), NEW p \in Pcbs, s.pcb[p].arg = 0, ~s.pcb[p].pend, s.pcb[p].state = "ESTABLISHED",
         NEW n \in Conns, ~s.conn[n].alive, NEW box \in Seq(Conns \cup {ABORTED})
  PROVE  AcceptsAs(s, Accepted(s, p, n, box), p, n, box, h)
<1>. DEFINE t == Accepted(s, p, n, box)
            P == s.pcb[p]
            X == [P EXCEPT !.arg = n]
            Q == [X EXCEPT !.pend = TRUE]
            D == NewConn(p)
            ps == [s.pcb EXCEPT ![p] = Q]
            cs == [s.conn EXCEPT ![n] = D]
            k == s.pending + 1
<1>1. /\ s \in StackRecord /\ P \in PcbRecord /\ PcbOK(P) /\ s.pcb \in [Pcbs -> PcbRecord] /\ s.conn \in [Conns -> ConnRec]
      /\ s.pending \in Int /\ s.pbufs \in Int /\ p # 0 /\ n # 0
  BY SanePcb, NetconnConstants, Zenon
<1>2. X \in PcbRecord
  BY <1>1, PcbUpdates, Zenon
<1>3. Q \in PcbRecord
  BY <1>2, PcbUpdates, Zenon
<1>4. D \in ConnRec /\ D.alive /\ D.valid /\ D.pcb = p /\ D.recvmbox = <<>> /\ D.msg = "NULL" /\ D.sem = 0 /\ ConnOK(D)
  BY NewConnIs, Zenon
<1>5. k \in Int
  BY <1>1, SMT
<1>. DEFINE a == [s EXCEPT !.mbox = box]
            b == [a EXCEPT !.pending = k]
            c == [b EXCEPT !.pcb[p] = Q]
<1>6. Sane(a, h) /\ a.mbox = box /\ a.conn = s.conn /\ a.pcb = s.pcb /\ a.pending = s.pending /\ a.pbufs = s.pbufs
  BY MboxSane, Zenon
<1>7. a \in StackRecord
  BY <1>6, Zenon DEF Sane
<1>8. t = [c EXCEPT !.conn[n] = D]
  <2>1. t = [a EXCEPT !.pending = @ + 1, !.pcb[p].arg = n, !.pcb[p].pend = TRUE, !.conn[n] = D]
    BY DEF Accepted
  <2>. HIDE DEF t
  <2>2. [a EXCEPT !.pending = @ + 1] = b
    BY <1>6, Zenon
  <2>3. t = [b EXCEPT !.pcb[p].arg = n, !.pcb[p].pend = TRUE, !.conn[n] = D]
    <3>. HIDE DEF a, D
    <3>. QED
      BY <2>1, <2>2, Zenon
  <2>4. b.pcb = s.pcb
    <3>. HIDE DEF a
    <3>. QED
      BY <1>6, <1>7, Zenon DEF StackRecord
  <2>. HIDE DEF a, b, D
  <2>5. [b EXCEPT !.pcb[p].arg = n, !.pcb[p].pend = TRUE] = [b EXCEPT !.pcb[p] = [[b.pcb[p] EXCEPT !.arg = n] EXCEPT !.pend = TRUE]]
    OBVIOUS
  <2>6. [b EXCEPT !.pcb[p].arg = n, !.pcb[p].pend = TRUE] = c
    BY <2>4, <2>5, Zenon
  <2>. HIDE DEF c
  <2>. QED
    BY <2>3, <2>6, Zenon
<1>. HIDE DEF D, a, t
<1>9. b \in StackRecord
  BY <1>5, <1>7, StackUpdates, Zenon
<1>10. b.mbox = box /\ b.conn = s.conn /\ b.pcb = s.pcb /\ b.pending = k /\ b.pbufs = s.pbufs
  <2>1. b.mbox = a.mbox /\ b.conn = a.conn /\ b.pcb = a.pcb /\ b.pending = k /\ b.pbufs = a.pbufs
    BY <1>7, Zenon DEF StackRecord
  <2>. QED
    BY <1>6, <2>1, Zenon
<1>. HIDE DEF P
<1>11. /\ X.arg = n /\ X.unread = P.unread /\ X.refused = P.refused /\ X.state = P.state /\ X.snd = P.snd
  BY <1>1, Zenon DEF PcbRecord
<1>. HIDE DEF X
<1>12. /\ Q.arg = n /\ Q.pend /\ Q.unread = P.unread /\ Q.refused = P.refused /\ Q.state = P.state /\ Q.snd = P.snd
  BY <1>2, <1>11, Zenon DEF PcbRecord
<1>. HIDE DEF Q, b
<1>13. PcbTo(b, c, p, Q, b.pbufs)
  <2>1. 0 \in Int
    OBVIOUS
  <2>. QED
    BY <1>3, <1>9, <2>1, PcbReplaced, Zenon
<1>. HIDE DEF c
<1>14. OnlyConn(c, t, n)
  BY <1>4, <1>8, <1>13, ConnReplaced, Zenon DEF PcbTo
<1>15. c \in StackRecord /\ c.conn \in [Conns -> ConnRec]
  BY <1>13, StackFields, Zenon DEF PcbTo
<1>16. t.conn[n] = D
  BY <1>8, <1>15, Zenon DEF StackRecord
<1>17. /\ t \in StackRecord /\ t.mbox = box /\ t.pending = k /\ t.pbufs = s.pbufs /\ t.pcb[p] = Q
       /\ (\A m \in Conns : m # n => t.conn[m] = s.conn[m])
       /\ \A q \in Pcbs : q # p => t.pcb[q] = s.pcb[q]
  <2>1. t \in StackRecord /\ t.pcb = c.pcb /\ t.mbox = c.mbox /\ t.pending = c.pending /\ t.pbufs = c.pbufs
    BY <1>14, Zenon DEF OnlyConn
  <2>2. c.mbox = b.mbox /\ c.pending = b.pending /\ c.pbufs = b.pbufs /\ c.conn = b.conn /\ c.pcb[p] = Q
    BY <1>13, Zenon DEF PcbTo
  <2>3. \A m \in Conns : m # n => t.conn[m] = s.conn[m]
    BY <1>10, <1>14, <2>2, Zenon DEF OnlyConn
  <2>4. \A q \in Pcbs : q # p => t.pcb[q] = s.pcb[q]
    BY <1>10, <1>13, <2>1, Zenon DEF PcbTo
  <2>. QED
    BY <1>10, <2>1, <2>2, <2>3, <2>4, Zenon
<1>18. /\ t.pcb \in [Pcbs -> PcbRecord] /\ t.conn \in [Conns -> ConnRec] /\ Tidy(s.pcb, s.conn, s.pending, s.pbufs, h)
       /\ h \in Conns \cup {0} /\ ConnOK(s.conn[n]) /\ (h # 0 => s.conn[h].alive)
  BY <1>17, StackFields, Zenon DEF Sane, Tidy
<1>19. h # n /\ s.conn[n].pcb = 0 /\ s.conn[n].recvmbox = <<>>
  BY <1>1, <1>18, Zenon DEF ConnOK
<1>20. P.arg = 0 /\ ~P.pend /\ P.state = "ESTABLISHED" /\ P.refused = "none"
  BY <1>1, Zenon DEF PcbOK, P
<1>21. PcbOK(Q)
  BY <1>1, <1>12, <1>20, Zenon DEF PcbOK
<1>22. Apart(s.pcb, s.conn, p, n)
  BY <1>1, <1>19, Zenon DEF Apart
<1>23. Apart(t.pcb, t.conn, p, n)
  BY <1>1, <1>4, <1>12, <1>16, <1>17, Zenon DEF Apart
<1>24. Refused(Q) = 0 /\ InHand(h, n) = 0 /\ DataIn(D.recvmbox) = 0 /\ DataIn(s.conn[n].recvmbox) = 0
  BY <1>4, <1>12, <1>19, <1>20, DataInEmpty, Zenon DEF Refused, InHand
<1>25. Q.unread >= DataIn(D.recvmbox) + Refused(Q) + InHand(h, n)
  <2>1. P.unread \in 0..RecvWindow
    BY <1>1, Zenon DEF PcbOK
  <2>2. P.unread >= 0 + 0 + 0
    BY <2>1, NetconnConstants, SMT
  <2>. QED
    BY <1>12, <1>24, <2>2, Zenon
<1>26. PendOf(s.pcb, p) = 0 /\ PendOf(t.pcb, p) = 1 /\ RefusedOf(s.pcb, p) = 0 /\ RefusedOf(t.pcb, p) = 0
  BY <1>1, <1>12, <1>17, <1>20, <1>24, Zenon DEF PendOf, RefusedOf, Refused, P
<1>27. BoxOf(s.conn, n) = 0 /\ BoxOf(t.conn, n) = 0
  BY <1>16, <1>24, BoxOfConn, Zenon
<1>28. HeldOf(h) \in Int
  BY SMT DEF HeldOf
<1>29. /\ t.pending = s.pending - PendOf(s.pcb, p) + PendOf(t.pcb, p) /\ t.pending \in Int /\ t.pbufs \in Int
       /\ t.pbufs = s.pbufs - BoxOf(s.conn, n) + BoxOf(t.conn, n) - RefusedOf(s.pcb, p) + RefusedOf(t.pcb, p)
                    - HeldOf(h) + HeldOf(h)
  <2>1. t.pending = s.pending + 1
    BY <1>17, Zenon
  <2>. HIDE DEF k
  <2>. QED
    BY <1>1, <1>17, <1>26, <1>27, <1>28, <2>1, SMT
<1>30. /\ p \in Pcbs \cup {0} /\ n \in Conns \cup {0}
       /\ p # 0 => PcbOK(t.pcb[p])
       /\ n # 0 => ConnOK(t.conn[n])
       /\ p # 0 /\ n # 0 /\ t.pcb[p].arg = n => t.pcb[p].unread >= DataIn(t.conn[n].recvmbox) + Refused(t.pcb[p]) + InHand(h, n)
       /\ \A m \in Conns : m # n => (h = m <=> h = m)
       /\ n # 0 /\ h = n => t.conn[n].alive
  BY <1>4, <1>16, <1>17, <1>19, <1>21, <1>25, Zenon
<1>31. Tidy(t.pcb, t.conn, t.pending, t.pbufs, h)
  BY <1>1, <1>17, <1>18, <1>22, <1>23, <1>29, <1>30, TidyStep, SMTT(30)
<1>32. Sane(t, h)
  BY <1>17, <1>31, Zenon DEF Sane
<1>33. AcceptsAs(s, t, p, n, box, h)
  BY <1>16, <1>17, <1>32, Zenon DEF AcceptsAs, D
<1>. QED
  BY <1>33, Zenon DEF t

LEMMA NetconnInvEstablished ==
  ASSUME NetconnInv, NEW p \in Pcbs, Established(p)
  PROVE  NetconnInv'
<1>. DEFINE h == Hand(app)
            b == tcp_backlog_accepted(Stack, p)
            s == [b EXCEPT !.pcb[p].state = "ESTABLISHED"]
            free == {n \in Conns : ~s.conn[n].alive}
            n == Least(free)
            room == Len(s.mbox) < DEFAULT_ACCEPTMBOX_SIZE
            post == IF room THEN [s EXCEPT !.mbox = Append(@, ABORTED)] ELSE s
            new == [s EXCEPT !.mbox = Append(@, n), !.pending = @ + 1, !.pcb[p].arg = n, !.pcb[p].pend = TRUE,
                             !.conn[n] = [NoConn EXCEPT !.alive = TRUE, !.pcb = p, !.valid = TRUE]]
<1>1. /\ Becomes(IF free = {} THEN Abort(post, p) ELSE IF ~room THEN Abort(s, p) ELSE new)
      /\ app' = app /\ tpcb[p].state = "SYN_RCVD"
  BY Zenon DEF Established, accept_function
<1>2. /\ Sane(Stack, h) /\ Stack \in StackRecord /\ Stack.conn = conn /\ Stack.mbox = acceptmbox /\ Stack.pcb = tpcb
      /\ app.n \in Conns \cup {0} /\ BoxOK(conn, acceptmbox, app.n)
  BY StackSane, StackIs, Zenon DEF Sane, NetconnInv
<1>3. /\ b \in StackRecord /\ b.conn = Stack.conn /\ b.mbox = Stack.mbox /\ b.pbufs = Stack.pbufs
      /\ b.pending = Stack.pending - PendOf(Stack.pcb, p)
      /\ \A q \in Pcbs : q # p => b.pcb[q] = Stack.pcb[q]
      /\ ~b.pcb[p].pend /\ SamePcb(Stack.pcb[p], b.pcb[p])
  BY <1>2, BacklogEffect, Zenon
<1>. HIDE DEF b
<1>4. PcbOK(Stack.pcb[p]) /\ Stack.pcb[p].arg = 0 /\ Stack.pcb[p].refused = "none" /\ Stack.pending \in Int /\ p # 0
  <2>1. PcbOK(Stack.pcb[p]) /\ Stack.pending \in Int
    BY <1>2, SanePcb, Zenon
  <2>. QED
    BY <1>1, <1>2, <2>1, NetconnConstants, Zenon DEF PcbOK
<1>5. b.pcb[p] \in PcbRecord
  BY <1>3, StackFields, Zenon
<1>. DEFINE Q == [b.pcb[p] EXCEPT !.state = "ESTABLISHED"]
<1>6. Q \in PcbRecord
  BY <1>5, PcbUpdates, Zenon
<1>7. /\ Q.state = "ESTABLISHED" /\ ~Q.pend /\ Q.arg = 0 /\ Q.refused = "none"
      /\ Q.snd = Stack.pcb[p].snd /\ Q.unread = Stack.pcb[p].unread
  <2>1. /\ Q.state = "ESTABLISHED" /\ Q.arg = b.pcb[p].arg /\ Q.refused = b.pcb[p].refused /\ Q.snd = b.pcb[p].snd
        /\ Q.unread = b.pcb[p].unread
        /\ Q.pend <=> b.pcb[p].pend
    BY <1>5, Zenon DEF PcbRecord
  <2>. HIDE DEF Q
  <2>. QED
    BY <1>3, <1>4, <2>1, Zenon DEF SamePcb
<1>8. s = [b EXCEPT !.pcb[p] = Q]
  BY Zenon
<1>. HIDE DEF Q, s, h
<1>9. PcbTo(b, s, p, Q, b.pbufs)
  <2>1. 0 \in Int
    OBVIOUS
  <2>. QED
    BY <1>3, <1>6, <1>8, <2>1, PcbReplaced, Zenon
<1>10. /\ s \in StackRecord /\ s.conn = Stack.conn /\ s.mbox = Stack.mbox /\ s.pbufs = Stack.pbufs
       /\ s.pending = Stack.pending - PendOf(Stack.pcb, p) /\ s.pcb[p] = Q
       /\ \A q \in Pcbs : q # p => s.pcb[q] = Stack.pcb[q]
  BY <1>3, <1>9, Zenon DEF PcbTo
<1>11. Serves(Stack, s, h)
  <2>1. PcbOK(Q)
    BY <1>4, <1>7, Zenon DEF PcbOK
  <2>2. PendOf(s.pcb, p) = 0 /\ PendOf(Stack.pcb, p) \in Int
    <3>1. PendOf(s.pcb, p) = 0
      BY <1>7, <1>10, Zenon DEF PendOf
    <3>2. PendOf(Stack.pcb, p) \in Int
      BY SMT DEF PendOf
    <3>. QED
      BY <3>1, <3>2, Zenon
  <2>3. s.pending = Stack.pending - PendOf(Stack.pcb, p) + PendOf(s.pcb, p)
    BY <1>4, <1>10, <2>2, SMT
  <2>4. PcbOK(s.pcb[p]) /\ s.pcb[p].arg = 0 /\ s.pcb[p].refused = "none"
    BY <1>7, <1>10, <2>1, Zenon
  <2>. QED
    BY <1>2, <1>4, <1>10, <2>3, <2>4, LonePcb, SMTT(30)
<1>12. Sane(s, h) /\ s.conn = conn /\ s.mbox = acceptmbox /\ s.pcb[p].arg = 0 /\ ~s.pcb[p].pend /\ s.pcb[p].state = "ESTABLISHED"
  BY <1>2, <1>7, <1>10, <1>11, Zenon DEF Serves
<1>13. ASSUME NEW u, Sane(u, h), u.conn = conn, BoxOK(conn, u.mbox, app.n), Becomes(Abort(u, p)) PROVE NetconnInv'
  <2>1. Serves(u, Abort(u, p), h)
    BY <1>13, AbortServes, Zenon
  <2>2. Sane(Abort(u, p), h) /\ Abort(u, p).mbox = u.mbox /\ \A m \in Conns : Gentle(conn[m], Abort(u, p).conn[m])
    BY <1>13, <2>1, Zenon DEF Serves
  <2>3. BoxOK(conn, Abort(u, p).mbox, app.n)
    BY <1>13, <2>2, Zenon
  <2>. QED
    BY <1>1, <1>13, <2>2, <2>3, GentleStep, Zenon DEF h
<1>14. CASE free = {}
  <2>1. Becomes(Abort(post, p))
    BY <1>1, <1>14, Zenon
  <2>2. CASE room
    <3>. DEFINE box == Append(acceptmbox, ABORTED)
                u == [s EXCEPT !.mbox = box]
    <3>1. post = u
      BY <1>12, <2>2, Zenon
    <3>2. BoxOK(conn, box, app.n)
      BY <1>2, <1>12, <2>2, BoxTakes, Zenon
    <3>3. box \in Seq(Conns \cup {ABORTED})
      BY <3>2, Zenon DEF BoxOK
    <3>. HIDE DEF box
    <3>4. Sane(u, h) /\ u.mbox = box /\ u.conn = conn
      BY <1>12, <3>3, MboxSane, Zenon
    <3>. HIDE DEF u, post
    <3>. QED
      BY <1>13, <2>1, <3>1, <3>2, <3>4, Zenon
  <2>3. CASE ~room
    <3>1. post = s
      BY <2>3, Zenon
    <3>. HIDE DEF post
    <3>. QED
      BY <1>2, <1>12, <1>13, <2>1, <3>1, Zenon
  <2>. QED
    BY <2>2, <2>3, Zenon
<1>15. CASE free # {} /\ ~room
  <2>1. Becomes(Abort(s, p))
    BY <1>1, <1>15, Zenon
  <2>. QED
    BY <1>2, <1>12, <1>13, <2>1, Zenon
<1>16. CASE free # {} /\ room
  <2>. DEFINE box == Append(acceptmbox, n)
              t == Accepted(s, p, n, box)
  <2>1. n \in free
    <3>1. free \in SUBSET Nat
      BY NetconnConstants, Zenon
    <3>. HIDE DEF free
    <3>. QED
      BY <1>16, <3>1, LeastIn, Zenon
  <2>2. n \in Conns /\ ~conn[n].alive
    BY <1>12, <2>1, Zenon
  <2>3. new = t
    BY <1>12, Zenon DEF Accepted, NewConn
  <2>4. Becomes(t)
    <3>1. Becomes(new)
      BY <1>1, <1>16, Zenon
    <3>. HIDE DEF new, t
    <3>. QED
      BY <2>3, <3>1, Zenon
  <2>. HIDE DEF n
  <2>5. acceptmbox \in Seq(Conns \cup {ABORTED}) /\ n \in Conns \cup {ABORTED}
    BY <1>2, <2>2, Zenon DEF BoxOK
  <2>6. box \in Seq(Conns \cup {ABORTED})
    BY <2>5, AppendProperties
  <2>. HIDE DEF box
  <2>7. /\ Sane(t, h) /\ t.mbox = box /\ t.conn[n] = NewConn(p)
        /\ \A m \in Conns : m # n => t.conn[m] = s.conn[m]
    <3>1. ~s.conn[n].alive
      BY <1>12, <2>2, Zenon
    <3>2. AcceptsAs(s, t, p, n, box, h)
      BY <1>12, <2>2, <2>6, <3>1, AcceptNew, Zenon
    <3>. QED
      BY <3>2, Zenon DEF AcceptsAs
  <2>. HIDE DEF t
  <2>8. /\ t.conn[n].alive /\ t.conn[n].msg = "NULL" /\ t.conn[n].sem = 0
        /\ \A m \in Conns : m # n => t.conn[m] = conn[m]
    BY <1>12, <2>7, NewConnIs, Zenon
  <2>9. WaitOK(conn, app.n, app.pc) /\ ThreadOK(conn, app.n, app.pc) /\ app \in AppRecord /\ (app.got = "data" => app.pc = "recved")
    BY Zenon DEF NetconnInv
  <2>10. app.n # n
    BY <2>2, <2>9, NetconnConstants, Zenon DEF ThreadOK
  <2>11. \A k \in 1..Len(acceptmbox) : acceptmbox[k] # n
    <3>1. n # ABORTED
      BY <2>2, NetconnConstants, Zenon
    <3>. QED
      BY <1>2, <2>2, <3>1, Zenon DEF BoxOK
  <2>12. BoxOK(t.conn, acceptmbox, app.n)
    <3>1. ASSUME NEW k \in 1..Len(acceptmbox), acceptmbox[k] # ABORTED PROVE t.conn[acceptmbox[k]].alive /\ acceptmbox[k] # app.n
      <4>1. conn[acceptmbox[k]].alive /\ acceptmbox[k] # app.n
        BY <1>2, <3>1, Zenon DEF BoxOK
      <4>2. acceptmbox[k] \in Conns
        <5>1. acceptmbox[k] \in Conns \cup {ABORTED}
          BY <2>5, ElementOfSeq, Zenon
        <5>. QED
          BY <3>1, <5>1, Zenon
      <4>3. t.conn[acceptmbox[k]] = conn[acceptmbox[k]]
        BY <2>8, <2>11, <4>2, Zenon
      <4>. QED
        BY <4>1, <4>3, Zenon
    <3>. QED
      BY <1>2, <3>1, Zenon DEF BoxOK
  <2>13. BoxOK(t.conn, box, app.n)
    <3>1. Len(acceptmbox) < DEFAULT_ACCEPTMBOX_SIZE
      BY <1>12, <1>16, Zenon
    <3>. QED
      BY <2>5, <2>8, <2>10, <2>11, <2>12, <3>1, BoxTakes, Zenon DEF box
  <2>14. WaitOK(t.conn, app.n, app.pc)
    <3>1. ~Busy(t.conn[n])
      <4>1. 0 # 1
        OBVIOUS
      <4>. QED
        BY <2>8, <4>1, Zenon DEF Busy
    <3>. QED
      BY <2>8, <2>9, <2>10, <3>1, Zenon DEF WaitOK
  <2>15. ThreadOK(t.conn, app.n, app.pc)
    <3>1. app.n # 0 => t.conn[app.n] = conn[app.n]
      BY <1>2, <2>8, <2>10, Zenon
    <3>. QED
      BY <2>9, <3>1, Zenon DEF ThreadOK
  <2>16. tpcb' = t.pcb /\ conn' = t.conn /\ accepts_pending' = t.pending /\ acceptmbox' = box /\ apiPbufs' = t.pbufs
    BY <2>4, <2>7, Zenon DEF Becomes
  <2>17. Tidy(tpcb', conn', accepts_pending', apiPbufs', Hand(app'))
    BY <1>1, <2>7, <2>16, Zenon DEF Sane, h
  <2>18. BoxOK(conn', acceptmbox', app'.n) /\ WaitOK(conn', app'.n, app'.pc) /\ ThreadOK(conn', app'.n, app'.pc)
    BY <1>1, <2>13, <2>14, <2>15, <2>16, Zenon
  <2>. QED
    BY <1>1, <2>9, <2>17, <2>18, Zenon DEF NetconnInv
<1>. QED
  BY <1>14, <1>15, <1>16, Zenon

\* The thread moves on within its netconn.
LEMMA AppGoes ==
  ASSUME NEW r \in AppRecord, NEW x \in AppPcs
  PROVE  LET q == [r EXCEPT !.pc = x] IN q \in AppRecord /\ q.pc = x /\ q.n = r.n /\ q.got = r.got
<1>1. [r EXCEPT !.pc = x] \in AppRecord
  BY AppUpdates, Zenon
<1>2. [r EXCEPT !.pc = x].pc = x /\ [r EXCEPT !.pc = x].n = r.n /\ [r EXCEPT !.pc = x].got = r.got
  BY Zenon DEF AppRecord
<1>. QED
  BY <1>1, <1>2, Zenon

\* A step of the thread on its netconn n, after which it is at pc.
AtPc(D, pc) ==
  /\ pc # "accept"
  /\ Busy(D) <=> pc \in WaitPcs
  /\ pc \in {"wait free", "free"} => ~D.valid
  /\ pc = "free" => D.pcb = 0
  /\ pc = "wait free" => D.msg = "delete" \/ (D.msg = "NULL" /\ D.pcb = 0)

LEMMA ThreadStep ==
  ASSUME NEW cs, NEW ds, NEW mbox, NEW n \in Conns, NEW old, NEW pc,
         BoxOK(cs, mbox, n), WaitOK(cs, n, old), ThreadOK(cs, n, old),
         \A m \in Conns : m # n => ds[m] = cs[m], ds[n].alive <=> cs[n].alive, AtPc(ds[n], pc)
  PROVE  BoxOK(ds, mbox, n) /\ WaitOK(ds, n, pc) /\ ThreadOK(ds, n, pc)
<1>0. n # 0
  BY NetconnConstants, Zenon
<1>1. BoxOK(ds, mbox, n)
  <2>1. ASSUME NEW k \in 1..Len(mbox), mbox[k] # ABORTED PROVE ds[mbox[k]].alive /\ mbox[k] # n
    <3>1. cs[mbox[k]].alive /\ mbox[k] # n
      BY <2>1, Zenon DEF BoxOK
    <3>2. mbox \in Seq(Conns \cup {ABORTED})
      BY Zenon DEF BoxOK
    <3>3. mbox[k] \in Conns \cup {ABORTED}
      BY <3>2, ElementOfSeq, Zenon
    <3>. QED
      BY <2>1, <3>1, <3>3, Zenon
  <2>. QED
    BY <2>1, Zenon DEF BoxOK
<1>2. WaitOK(ds, n, pc)
  BY Zenon DEF WaitOK, AtPc
<1>3. ThreadOK(ds, n, pc)
  BY <1>0, Zenon DEF ThreadOK, AtPc
<1>. QED
  BY <1>1, <1>2, <1>3, Zenon

\* The invariant after a step of the thread.
LEMMA AppStep ==
  ASSUME NetconnInv, app.n # 0, NEW t, Sane(t, Hand(app')), t.mbox = acceptmbox, Becomes(t),
         app' \in AppRecord, app'.n = app.n, app'.got = "data" => app'.pc = "recved",
         \A m \in Conns : m # app.n => t.conn[m] = conn[m],
         t.conn[app.n].alive <=> conn[app.n].alive, AtPc(t.conn[app.n], app'.pc)
  PROVE  NetconnInv'
<1>1. app.n \in Conns
  BY StackSane, Zenon
<1>2. BoxOK(conn, acceptmbox, app.n) /\ WaitOK(conn, app.n, app.pc) /\ ThreadOK(conn, app.n, app.pc)
  BY Zenon DEF NetconnInv
<1>3. BoxOK(t.conn, acceptmbox, app.n) /\ WaitOK(t.conn, app.n, app'.pc) /\ ThreadOK(t.conn, app.n, app'.pc)
  <2>. DEFINE n == app.n
              pc == app'.pc
  <2>1. /\ n \in Conns /\ (\A m \in Conns : m # n => t.conn[m] = conn[m]) /\ (t.conn[n].alive <=> conn[n].alive)
        /\ AtPc(t.conn[n], pc) /\ BoxOK(conn, acceptmbox, n) /\ WaitOK(conn, n, app.pc) /\ ThreadOK(conn, n, app.pc)
    BY <1>1, <1>2, Zenon
  <2>. HIDE DEF n, pc
  <2>2. BoxOK(t.conn, acceptmbox, n) /\ WaitOK(t.conn, n, pc) /\ ThreadOK(t.conn, n, pc)
    BY <2>1, ThreadStep, Zenon
  <2>. QED
    BY <2>2, Zenon DEF n, pc
<1>4. tpcb' = t.pcb /\ conn' = t.conn /\ accepts_pending' = t.pending /\ acceptmbox' = acceptmbox /\ apiPbufs' = t.pbufs
  BY Zenon DEF Becomes
<1>5. Tidy(tpcb', conn', accepts_pending', apiPbufs', Hand(app'))
  BY <1>4, Zenon DEF Sane
<1>6. BoxOK(conn', acceptmbox', app'.n) /\ WaitOK(conn', app'.n, app'.pc) /\ ThreadOK(conn', app'.n, app'.pc)
  BY <1>3, <1>4, Zenon
<1>. QED
  BY <1>5, <1>6, Zenon DEF NetconnInv

\* What the invariant says of the thread and its netconn.
LEMMA ThreadHas ==
  ASSUME NetconnInv, app.pc # "accept"
  PROVE  /\ app.n \in Conns /\ app.n # 0 /\ conn[app.n].alive /\ conn[app.n] \in ConnRec /\ ConnOK(conn[app.n])
         /\ app \in AppRecord /\ Sane(Stack, Hand(app)) /\ Stack.conn = conn /\ Stack.mbox = acceptmbox
         /\ Busy(conn[app.n]) <=> app.pc \in WaitPcs
         /\ app.pc # "recved" => Hand(app) = 0 /\ app.got # "data"
<1>1. app.n # 0 /\ conn[app.n].alive
  BY Zenon DEF NetconnInv, ThreadOK
<1>2. app.n \in Conns /\ app \in AppRecord /\ Sane(Stack, Hand(app)) /\ Stack.conn = conn /\ Stack.mbox = acceptmbox
  BY <1>1, StackSane, StackIs, Zenon
<1>3. conn[app.n] \in ConnRec /\ ConnOK(conn[app.n])
  BY <1>2, SaneConn, Zenon
<1>4. Busy(conn[app.n]) <=> app.pc \in WaitPcs
  BY <1>2, Zenon DEF NetconnInv, WaitOK
<1>5. app.pc # "recved" => Hand(app) = 0 /\ app.got # "data"
  BY Zenon DEF NetconnInv, Hand
<1>. QED
  BY <1>1, <1>2, <1>3, <1>4, <1>5, Zenon

LEMMA IdlePcs ==
  ASSUME NEW D, ~Busy(D), NEW pc \in {"run", "recv", "recved", "close", "shutrd", "delete"}
  PROVE  AtPc(D, pc) /\ pc \in AppPcs
  BY Zenon DEF AtPc, WaitPcs, AppPcs

LEMMA NetconnInvAcceptDone ==
  ASSUME NetconnInv, AcceptDone
  PROVE  NetconnInv'
<1>. DEFINE n == app.n
            p == conn[n].pcb
            s == Stack
            h == Hand(app)
<1>1. Becomes(IF p = 0 THEN s ELSE tcp_backlog_accepted(s, p)) /\ app.pc = "accepted" /\ app' = [app EXCEPT !.pc = "run"]
  BY Zenon DEF AcceptDone, Goes
<1>2. /\ n \in Conns /\ n # 0 /\ app \in AppRecord /\ Sane(s, h) /\ s.conn = conn /\ s.mbox = acceptmbox
      /\ ~Busy(conn[n]) /\ app.got # "data" /\ h = 0
  BY <1>1, ThreadHas, Zenon DEF WaitPcs
<1>3. "run" \in AppPcs /\ AtPc(conn[n], "run")
  BY <1>2, IdlePcs, Zenon
<1>4. app' \in AppRecord /\ app'.pc = "run" /\ app'.n = n /\ app'.got = app.got
  BY <1>1, <1>2, <1>3, AppGoes, Zenon
<1>5. Hand(app') = h
  BY <1>2, <1>4, Zenon DEF Hand
<1>6. ASSUME NEW t, Sane(t, h), t.mbox = acceptmbox, t.conn = conn, Becomes(t) PROVE NetconnInv'
  <2>1. Sane(t, Hand(app')) /\ (app'.got = "data" => app'.pc = "recved") /\ AtPc(t.conn[app.n], app'.pc)
    BY <1>2, <1>3, <1>4, <1>5, <1>6, Zenon
  <2>. QED
    BY <1>2, <1>4, <1>6, <2>1, AppStep, Zenon
<1>. HIDE DEF s, h
<1>7. CASE p = 0
  BY <1>1, <1>2, <1>6, <1>7, Zenon
<1>8. CASE p # 0
  <2>. DEFINE t == tcp_backlog_accepted(s, p)
  <2>1. p \in Pcbs /\ s.pcb[p].arg = n /\ s \in StackRecord
    BY <1>2, <1>8, SaneConn, Zenon
  <2>2. /\ PcbOK(s.pcb[p]) /\ p # 0 /\ s.pending \in Int /\ s.pbufs \in Int /\ s.conn \in [Conns -> ConnRec]
        /\ s.conn[n].pcb = p /\ ConnOK(s.conn[n])
        /\ s.pcb[p].unread >= DataIn(s.conn[n].recvmbox) + Refused(s.pcb[p]) + InHand(h, n)
    BY <1>2, <1>8, <2>1, SanePcb, Zenon
  <2>3. /\ t \in StackRecord /\ t.conn = s.conn /\ t.mbox = s.mbox /\ t.pbufs = s.pbufs
        /\ t.pending = s.pending - PendOf(s.pcb, p)
        /\ \A q \in Pcbs : q # p => t.pcb[q] = s.pcb[q]
        /\ ~t.pcb[p].pend /\ SamePcb(s.pcb[p], t.pcb[p])
    <3>. HIDE DEF p
    <3>. QED
      BY <2>1, BacklogEffect, Zenon
  <2>. HIDE DEF t, p, n
  <2>4. PcbOK(t.pcb[p]) /\ Refused(t.pcb[p]) = Refused(s.pcb[p]) /\ t.pcb[p].unread = s.pcb[p].unread /\ t.pcb[p].arg = n
    BY <2>1, <2>2, <2>3, Zenon DEF PcbOK, SamePcb, Refused
  <2>5. /\ n # 0 /\ t.pcb[p].arg = n /\ t.conn[n].pcb = p
        /\ t.pcb[p].unread >= DataIn(t.conn[n].recvmbox) + Refused(t.pcb[p]) + InHand(h, n)
    BY <1>2, <2>2, <2>3, <2>4, Zenon
  <2>6. PendOf(t.pcb, p) = 0 /\ RefusedOf(t.pcb, p) = RefusedOf(s.pcb, p) /\ BoxOf(t.conn, n) = BoxOf(s.conn, n)
    BY <2>2, <2>3, <2>4, Zenon DEF PendOf, RefusedOf
  <2>7. /\ t.pending = s.pending - PendOf(s.pcb, p) + PendOf(t.pcb, p)
        /\ t.pbufs = s.pbufs - BoxOf(s.conn, n) + BoxOf(t.conn, n) - RefusedOf(s.pcb, p) + RefusedOf(t.pcb, p)
    <3>1. PendOf(s.pcb, p) \in Int /\ RefusedOf(s.pcb, p) \in Int
      BY SMT DEF PendOf, RefusedOf, Refused
    <3>2. n \in Conns \cup {0}
      BY <1>2, Zenon
    <3>3. BoxOf(s.conn, n) \in Nat
      BY <2>2, <3>2, BoxOfNat, Zenon
    <3>. QED
      BY <2>2, <2>3, <2>6, <3>1, <3>3, SMT
  <2>8. Changes(s, t, p, n) /\ (n # 0 => ConnOK(t.conn[n]) /\ (t.conn[n].alive <=> s.conn[n].alive))
    BY <2>2, <2>3, Zenon DEF Changes
  <2>9. Sane(t, h)
    BY <1>2, <2>1, <2>4, <2>5, <2>7, <2>8, SaneStep, SMTT(30)
  <2>10. Becomes(t)
    BY <1>1, <1>8, Zenon DEF t, p, n
  <2>. QED
    BY <1>2, <1>6, <2>3, <2>9, <2>10, Zenon
<1>. QED
  BY <1>7, <1>8, Zenon

LEMMA NetconnInvRecv ==
  ASSUME NetconnInv, netconn_recv
  PROVE  NetconnInv'
<1>. DEFINE n == app.n
            x == IF ~conn[n].valid \/ conn[n].last_err = "FATAL" THEN "close" ELSE "recv"
<1>1. app.pc = "run" /\ app' = [app EXCEPT !.pc = x] /\ Becomes(Stack)
  BY StackIs, Zenon DEF netconn_recv, Goes, Becomes
<1>2. /\ n \in Conns /\ n # 0 /\ app \in AppRecord /\ Sane(Stack, Hand(app)) /\ Stack.conn = conn /\ Stack.mbox = acceptmbox
      /\ ~Busy(conn[n]) /\ app.got # "data" /\ Hand(app) = 0
  BY <1>1, ThreadHas, Zenon DEF WaitPcs
<1>3. x \in {"run", "recv", "recved", "close", "shutrd", "delete"}
  BY Zenon
<1>. HIDE DEF x
<1>4. x \in AppPcs /\ AtPc(conn[n], x)
  BY <1>2, <1>3, IdlePcs, Zenon
<1>5. app' \in AppRecord /\ app'.pc = x /\ app'.n = n /\ app'.got = app.got
  BY <1>1, <1>2, <1>4, AppGoes, Zenon
<1>6. Hand(app') = Hand(app)
  BY <1>2, <1>5, Zenon DEF Hand
<1>7. Sane(Stack, Hand(app')) /\ (app'.got = "data" => app'.pc = "recved") /\ AtPc(Stack.conn[app.n], app'.pc)
  BY <1>2, <1>4, <1>5, <1>6, Zenon
<1>. QED
  BY <1>1, <1>2, <1>5, <1>7, AppStep, Zenon

LEMMA SmallNumbers == 0 \in Int /\ 1 \in Int /\ 0 \in 0..1 /\ 0 # 1 /\ 1 # 0
  BY SMT

LEMMA WaitOverIs ==
  ASSUME WaitOver
  PROVE  /\ app.pc \in WaitPcs
         /\ \E x \in {"run", "close", "delete", "free"} : (x = "free" => app.pc = "wait free") /\ app' = [app EXCEPT !.pc = x]
<1>1. ASSUME NEW a, NEW b, NEW w, w = <<a, b>> PROVE w[1] = a /\ w[2] = b
  BY <1>1
<1>2. PICK w \in {<<"wait write", "run">>, <<"wait close", "close">>, <<"wait delete", "delete">>, <<"wait free", "free">>} :
        app.pc = w[1] /\ app' = [app EXCEPT !.pc = w[2]]
  BY Zenon DEF WaitOver, Goes
<1>3. CASE w = <<"wait write", "run">>
  <2>1. w[1] = "wait write" /\ w[2] = "run"
    BY <1>1, <1>3, Zenon
  <2>. QED
    BY <1>2, <2>1, Zenon DEF WaitPcs
<1>4. CASE w = <<"wait close", "close">>
  <2>1. w[1] = "wait close" /\ w[2] = "close"
    BY <1>1, <1>4, Zenon
  <2>. QED
    BY <1>2, <2>1, Zenon DEF WaitPcs
<1>5. CASE w = <<"wait delete", "delete">>
  <2>1. w[1] = "wait delete" /\ w[2] = "delete"
    BY <1>1, <1>5, Zenon
  <2>. QED
    BY <1>2, <2>1, Zenon DEF WaitPcs
<1>6. CASE w = <<"wait free", "free">>
  <2>1. w[1] = "wait free" /\ w[2] = "free"
    BY <1>1, <1>6, Zenon
  <2>. QED
    BY <1>2, <2>1, Zenon DEF WaitPcs
<1>. QED
  BY <1>2, <1>3, <1>4, <1>5, <1>6, Zenon

LEMMA NetconnInvWaitOver ==
  ASSUME NetconnInv, WaitOver
  PROVE  NetconnInv'
<1>. DEFINE n == app.n
            C == conn[n]
            D == [C EXCEPT !.sem = 0]
            t == [Stack EXCEPT !.conn[n] = D]
<1>1. PICK x \in {"run", "close", "delete", "free"} :
        (x = "free" => app.pc = "wait free") /\ app' = [app EXCEPT !.pc = x]
  BY WaitOverIs, Zenon
<1>2. /\ C.sem = 1 /\ conn' = [conn EXCEPT ![n].sem = 0]
      /\ tpcb' = tpcb /\ accepts_pending' = accepts_pending /\ acceptmbox' = acceptmbox /\ apiPbufs' = apiPbufs
  BY Zenon DEF WaitOver
<1>3. app.pc \in WaitPcs /\ app.pc # "accept" /\ app.pc # "recved"
  BY WaitOverIs, Zenon DEF WaitPcs
<1>4. /\ n \in Conns /\ n # 0 /\ C.alive /\ C \in ConnRec /\ ConnOK(C) /\ app \in AppRecord /\ Sane(Stack, Hand(app))
      /\ Stack.conn = conn /\ Stack.mbox = acceptmbox /\ app.got # "data" /\ Hand(app) = 0
  BY <1>3, ThreadHas, Zenon
<1>5. x \in AppPcs
  BY <1>3, Zenon DEF AppPcs
<1>6. app' \in AppRecord /\ app'.pc = x /\ app'.n = n /\ app'.got = app.got
  BY <1>1, <1>4, <1>5, AppGoes, Zenon
<1>7. Hand(app') = Hand(app)
  BY <1>4, <1>6, Zenon DEF Hand
<1>8. C.msg = "NULL" /\ (app.pc = "wait free" => ~C.valid /\ C.pcb = 0)
  <2>1. C.msg = "NULL"
    <3>1. 1 # 0
      BY SmallNumbers, Zenon
    <3>. QED
      BY <1>2, <1>4, <3>1, Zenon DEF ConnOK
  <2>2. ThreadOK(conn, app.n, app.pc)
    BY Zenon DEF NetconnInv
  <2>. QED
    BY <2>1, <2>2, Zenon DEF ThreadOK
<1>9. D \in ConnRec
  <2>1. 0 \in Int
    BY SmallNumbers, Zenon
  <2>. QED
    BY <1>4, <2>1, NetconnUpdates, Zenon
<1>10. Stack \in StackRecord
  BY <1>4, Zenon DEF Sane
<1>11. OnlyConn(Stack, t, n)
  <2>. HIDE DEF D, n
  <2>. QED
    BY <1>4, <1>9, <1>10, ConnReplaced, Zenon
<1>12. t.conn = [conn EXCEPT ![n] = D]
  <2>. HIDE DEF D, n
  <2>. QED
    BY <1>4, <1>10, Zenon DEF StackRecord
<1>13. t.conn[n] = D
  <2>1. conn \in [Conns -> ConnRec]
    BY <1>4, <1>10, StackFields, Zenon
  <2>. HIDE DEF D, n
  <2>. QED
    BY <1>4, <1>12, <2>1, Zenon
<1>14. Becomes(t)
  <2>1. conn' = t.conn
    BY <1>2, <1>12, Zenon
  <2>. HIDE DEF t
  <2>. QED
    BY <1>2, <1>11, <2>1, StackIs, Zenon DEF OnlyConn, Becomes
<1>. HIDE DEF t, C
<1>15. /\ D.sem = 0 /\ D.msg = C.msg /\ D.state = C.state /\ D.pcb = C.pcb /\ D.recvmbox = C.recvmbox /\ D.left = C.left
       /\ D.alive <=> C.alive
       /\ D.valid <=> C.valid
  BY <1>4, Zenon DEF ConnRec
<1>. HIDE DEF D
<1>16. ConnOK(D)
  <2>1. 0 \in 0..1
    BY SmallNumbers, Zenon
  <2>. QED
    BY <1>4, <1>8, <1>15, <2>1, Zenon DEF ConnOK
<1>17. Sane(t, Hand(app))
  <2>1. /\ ConnOK(t.conn[n]) /\ t.conn[n].pcb = Stack.conn[n].pcb /\ t.conn[n].recvmbox = Stack.conn[n].recvmbox
        /\ t.conn[n].alive <=> Stack.conn[n].alive
    BY <1>4, <1>13, <1>15, <1>16, Zenon DEF C
  <2>. HIDE DEF n
  <2>. QED
    BY <1>4, <1>11, <2>1, ConnSane, Zenon
<1>18. ~Busy(D)
  <2>1. 0 # 1
    BY SmallNumbers, Zenon
  <2>. QED
    BY <1>8, <1>15, <2>1, Zenon DEF Busy
<1>19. AtPc(D, x)
  BY <1>1, <1>8, <1>15, <1>18, Zenon DEF AtPc, WaitPcs
<1>20. /\ Sane(t, Hand(app')) /\ (app'.got = "data" => app'.pc = "recved") /\ AtPc(t.conn[app.n], app'.pc)
       /\ t.conn[app.n].alive <=> conn[app.n].alive
  BY <1>4, <1>6, <1>7, <1>13, <1>15, <1>17, <1>19, Zenon DEF C
<1>21. t.mbox = acceptmbox /\ \A m \in Conns : m # app.n => t.conn[m] = conn[m]
  BY <1>4, <1>11, Zenon DEF OnlyConn
<1>. QED
  BY <1>4, <1>6, <1>14, <1>20, <1>21, AppStep, Zenon


\* An operation of the thread begins: the netconn is busy with it from now on.
Begun(s, t, n, st, op, h) ==
  /\ Sane(t, h) /\ t.mbox = s.mbox
  /\ \A m \in Conns : m # n => t.conn[m] = s.conn[m]
  /\ t.conn[n].state = st /\ t.conn[n].msg = op /\ t.conn[n].sem = 0 /\ t.conn[n].pcb = s.conn[n].pcb
  /\ t.conn[n].recvmbox = s.conn[n].recvmbox
  /\ t.conn[n].alive <=> s.conn[n].alive
  /\ t.conn[n].valid <=> s.conn[n].valid

ConnTo(s, t, n, D) == OnlyConn(s, t, n) /\ t.conn[n] = D

LEMMA ConnReplacedBy ==
  ASSUME NEW s \in StackRecord, NEW n \in Conns, NEW D \in ConnRec
  PROVE  ConnTo(s, [s EXCEPT !.conn[n] = D], n, D)
<1>. DEFINE t == [s EXCEPT !.conn[n] = D]
<1>1. OnlyConn(s, t, n)
  BY ConnReplaced, Zenon
<1>2. t.conn[n] = D
  <2>1. s.conn \in [Conns -> ConnRec]
    BY StackFields, Zenon
  <2>. QED
    BY <2>1, Zenon DEF StackRecord
<1>. HIDE DEF t
<1>3. ConnTo(s, t, n, D)
  BY <1>1, <1>2, Zenon DEF ConnTo
<1>. QED
  BY <1>3, Zenon DEF t

Beginning(s, n, st, op, k) == [s EXCEPT !.conn[n].state = st, !.conn[n].msg = op, !.conn[n].left = k]

Fitting(st, op) ==
  \/ op = "write" /\ st = "WRITE"
  \/ op \in {"shutrd", "close", "delete"} /\ st = "CLOSE"

LEMMA OperationBegins ==
  ASSUME NEW s, NEW h, Sane(s, h), NEW n \in Conns, s.conn[n].pcb # 0, s.conn[n].sem = 0,
         NEW st, NEW op, Fitting(st, op), NEW k \in Int, k >= 0
  PROVE  Begun(s, Beginning(s, n, st, op, k), n, st, op, h)
<1>. DEFINE C == s.conn[n]
            X == [C EXCEPT !.state = st]
            Y == [X EXCEPT !.msg = op]
            D == [Y EXCEPT !.left = k]
            t == [s EXCEPT !.conn[n] = D]
<1>1. s \in StackRecord /\ C \in ConnRec /\ ConnOK(C)
  BY SaneConn, Zenon
<1>2. [s EXCEPT !.conn[n].state = st, !.conn[n].msg = op, !.conn[n].left = k] = t
  <2>1. s \in StackRecord /\ s.conn \in [Conns -> ConnRec]
    BY <1>1, StackFields, Zenon
  <2>. QED
    BY <1>1, <2>1
<1>. HIDE DEF C
<1>3. X \in ConnRec
  <2>1. st \in {"NONE", "WRITE", "CLOSE"}
    BY Zenon DEF Fitting
  <2>. QED
    BY <1>1, <2>1, NetconnUpdates, Zenon
<1>4. Y \in ConnRec
  <2>1. op \in {"NULL", "write", "shutrd", "close", "delete"}
    BY Zenon DEF Fitting
  <2>. HIDE DEF X
  <2>. QED
    BY <1>3, <2>1, NetconnUpdates, Zenon
<1>5. D \in ConnRec
  <2>. HIDE DEF Y
  <2>. QED
    BY <1>4, NetconnUpdates, Zenon
<1>6. /\ D.state = st /\ D.msg = op /\ D.left = k /\ D.sem = C.sem /\ D.pcb = C.pcb /\ D.recvmbox = C.recvmbox
      /\ D.alive <=> C.alive
      /\ D.valid <=> C.valid
  BY <1>1, Zenon DEF ConnRec
<1>. HIDE DEF D
<1>7. OnlyConn(s, t, n) /\ t.conn[n] = D
  <2>1. ConnTo(s, t, n, D)
    BY <1>1, <1>5, ConnReplacedBy, Zenon
  <2>. HIDE DEF t
  <2>. QED
    BY <2>1, Zenon DEF ConnTo
<1>8. ConnOK(D) /\ D.sem = 0
  <2>1. C.pcb # 0 /\ C.sem = 0
    BY Zenon DEF C
  <2>. QED
    BY <1>1, <1>6, <2>1, Zenon DEF ConnOK, Fitting
<1>. HIDE DEF t
<1>9. Sane(t, h)
  <2>1. ConnOK(t.conn[n]) /\ t.conn[n].pcb = s.conn[n].pcb /\ t.conn[n].recvmbox = s.conn[n].recvmbox
    BY <1>6, <1>7, <1>8, Zenon DEF C
  <2>2. t.conn[n].alive <=> s.conn[n].alive
    BY <1>6, <1>7, Zenon DEF C
  <2>. QED
    BY <1>7, <2>1, <2>2, ConnSane, Zenon
<1>10. Begun(s, t, n, st, op, h)
  BY <1>6, <1>7, <1>8, <1>9, Zenon DEF Begun, OnlyConn, C
<1>. QED
  BY <1>2, <1>10, Zenon DEF Beginning

LEMMA AppGoesTo ==
  ASSUME app \in AppRecord, NEW x \in AppPcs, app' = [app EXCEPT !.pc = x]
  PROVE  app' \in AppRecord /\ app'.pc = x /\ app'.n = app.n /\ app'.got = app.got
  BY AppGoes, Zenon

\* The thread after the first attempt of an operation: it goes on to x, or waits at y.
Attempts(u, s, t, now, st, op, x, y) ==
  /\ op \in {"write", "shutrd", "close", "delete"} /\ now \in BOOLEAN /\ ~now
  /\ Sane(u, 0) /\ u.mbox = acceptmbox /\ u.conn[app.n].alive
  /\ \A m \in Conns : m # app.n => u.conn[m] = conn[m]
  /\ Begun(u, s, app.n, st, op, 0) /\ Operates(s, t, app.n, now, 0)
  /\ x \in AppPcs /\ y \in AppPcs /\ x \notin WaitPcs /\ x # "accept" /\ y \in WaitPcs
  /\ x = "free" \/ y = "wait free" => op = "delete" /\ ~u.conn[app.n].valid

LEMMA OperationStep ==
  ASSUME NetconnInv, app.pc # "accept", app.pc # "recved",
         NEW u, NEW s, NEW t, NEW now, NEW st, NEW op, NEW x, NEW y, Attempts(u, s, t, now, st, op, x, y),
         Becomes(t), app' = [app EXCEPT !.pc = IF t.conn[app.n].msg = "NULL" THEN x ELSE y]
  PROVE  NetconnInv'
<1>0. /\ op \in {"write", "shutrd", "close", "delete"} /\ now \in BOOLEAN /\ ~now
      /\ Sane(u, 0) /\ u.mbox = acceptmbox /\ u.conn[app.n].alive
      /\ \A m \in Conns : m # app.n => u.conn[m] = conn[m]
      /\ Begun(u, s, app.n, st, op, 0) /\ Operates(s, t, app.n, now, 0)
      /\ x \in AppPcs /\ y \in AppPcs /\ x \notin WaitPcs /\ x # "accept" /\ y \in WaitPcs
      /\ x = "free" \/ y = "wait free" => op = "delete" /\ ~u.conn[app.n].valid
  BY Zenon DEF Attempts
<1>. DEFINE n == app.n
            D == t.conn[n]
            pc == IF D.msg = "NULL" THEN x ELSE y
<1>1. /\ n \in Conns /\ n # 0 /\ app \in AppRecord /\ app.got # "data" /\ Hand(app) = 0 /\ conn[n].alive
  BY ThreadHas, Zenon
<1>2. pc \in AppPcs /\ pc # "accept"
  BY <1>0, Zenon DEF WaitPcs
<1>3. app' \in AppRecord /\ app'.pc = pc /\ app'.n = n /\ app'.got = app.got
  <2>1. app' = [app EXCEPT !.pc = pc]
    BY <1>0, Zenon
  <2>. HIDE DEF pc, n
  <2>2. pc \in AppPcs /\ app \in AppRecord
    BY <1>1, <1>2, Zenon
  <2>3. app' \in AppRecord /\ app'.pc = pc /\ app'.n = app.n /\ app'.got = app.got
    BY <1>0, <2>1, <2>2, AppGoesTo, Zenon
  <2>. QED
    BY <1>0, <2>3, Zenon DEF n
<1>4. Hand(app') = 0
  BY <1>0, <1>1, <1>3, Zenon DEF Hand
<1>5. D.sem = 0 /\ (D.msg = op \/ (D.msg = "NULL" /\ (op \in {"close", "delete"} => D.pcb = 0)))
  BY <1>0, Zenon DEF Operates, Proceeds, Begun
<1>6. (D.valid <=> u.conn[n].valid) /\ D.alive
  BY <1>0, Zenon DEF Operates, Proceeds, Begun
<1>7. AtPc(D, pc)
  <2>1. ~(D.sem = 1)
    BY <1>0, <1>5, SmallNumbers, Zenon
  <2>. HIDE DEF D, n
  <2>2. CASE D.msg = "NULL"
    <3>1. pc = x
      BY <1>0, <2>2, Zenon
    <3>2. x = "free" => ~D.valid /\ D.pcb = 0
      BY <1>0, <1>5, <1>6, <2>2, Zenon DEF n
    <3>3. ~Busy(D)
      BY <1>0, <2>1, <2>2, Zenon DEF Busy
    <3>4. x # "wait free" /\ x # "accept"
      BY <1>0, Zenon DEF WaitPcs
    <3>. HIDE DEF pc
    <3>. QED
      BY <1>0, <3>1, <3>2, <3>3, <3>4, Zenon DEF AtPc
  <2>3. CASE D.msg # "NULL"
    <3>1. pc = y
      BY <1>0, <2>3, Zenon
    <3>2. y = "wait free" => ~D.valid /\ D.msg = "delete"
      BY <1>0, <1>5, <1>6, <2>3, Zenon DEF n
    <3>3. Busy(D)
      BY <1>0, <2>3, Zenon DEF Busy
    <3>4. y # "free" /\ y # "accept"
      BY <1>0, Zenon DEF WaitPcs
    <3>. HIDE DEF pc
    <3>. QED
      BY <1>0, <3>1, <3>2, <3>3, <3>4, Zenon DEF AtPc
  <2>. QED
    BY <1>0, <2>2, <2>3, Zenon
<1>8. Sane(t, 0) /\ t.mbox = acceptmbox /\ \A m \in Conns : m # n => t.conn[m] = conn[m]
  BY <1>0, Zenon DEF Operates, Begun
<1>. HIDE DEF pc
<1>9. /\ Sane(t, Hand(app')) /\ (app'.got = "data" => app'.pc = "recved") /\ AtPc(t.conn[app.n], app'.pc)
      /\ t.conn[app.n].alive <=> conn[app.n].alive
  BY <1>0, <1>1, <1>3, <1>4, <1>6, <1>7, <1>8, Zenon
<1>. QED
  BY <1>0, <1>1, <1>3, <1>8, <1>9, AppStep, Zenon

LEMMA ConnIdle ==
  ASSUME NEW C, ConnOK(C), ~Busy(C)
  PROVE  C.sem = 0 /\ C.msg = "NULL"
<1>1. C.sem \in 0..1 /\ C.sem # 1 /\ C.msg = "NULL"
  BY Zenon DEF ConnOK, Busy
<1>. QED
  BY <1>1, SMT

LEMMA NetconnInvWrite ==
  ASSUME NetconnInv, netconn_write
  PROVE  NetconnInv'
<1>. DEFINE n == app.n
            C == conn[n]
            now == FALSE
<1>1. app.pc = "run"
  BY Zenon DEF netconn_write
<1>2. /\ n \in Conns /\ n # 0 /\ C.alive /\ C \in ConnRec /\ ConnOK(C) /\ app \in AppRecord /\ Sane(Stack, Hand(app))
      /\ Stack.conn = conn /\ Stack.mbox = acceptmbox /\ app.got # "data" /\ Hand(app) = 0 /\ ~Busy(C)
  BY <1>1, ThreadHas, Zenon DEF WaitPcs
<1>3. CASE C.last_err = "FATAL" \/ C.pcb = 0
  <2>1. /\ app' = app /\ tpcb' = tpcb /\ conn' = conn /\ accepts_pending' = accepts_pending /\ acceptmbox' = acceptmbox
        /\ apiPbufs' = apiPbufs
    BY <1>3, Zenon DEF netconn_write, apiVars
  <2>. QED
    BY <2>1, Zenon DEF NetconnInv
<1>4. CASE ~(C.last_err = "FATAL" \/ C.pcb = 0)
  <2>. DEFINE S == Stack
              s == [S EXCEPT !.conn[n].state = "WRITE", !.conn[n].msg = "write", !.conn[n].left = WriteLen]
  <2>1. PICK o \in {"ok", "mem", "rte"} :
          LET t == lwip_netconn_do_writemore(s, n, o, now)
          IN Becomes(t) /\ app' = [app EXCEPT !.pc = IF t.conn[n].msg = "NULL" THEN "run" ELSE "wait write"]
    BY <1>4, Zenon DEF netconn_write, Goes
  <2>. DEFINE t == lwip_netconn_do_writemore(s, n, o, now)
  <2>2. Becomes(t) /\ app' = [app EXCEPT !.pc = IF t.conn[n].msg = "NULL" THEN "run" ELSE "wait write"]
    BY <2>1, Zenon
  <2>3. S.conn[n].pcb # 0 /\ S.conn[n].sem = 0 /\ Sane(S, 0)
    BY <1>2, <1>4, ConnIdle, Zenon
  <2>4. Fitting("WRITE", "write") /\ WriteLen \in Int /\ WriteLen >= 0
    <3>1. WriteLen \in Int /\ WriteLen >= 0
      BY NetconnConstants, SMT
    <3>. QED
      BY <3>1, Zenon DEF Fitting
  <2>5. Begun(S, s, n, "WRITE", "write", 0)
    <3>. HIDE DEF S, n
    <3>1. Begun(S, Beginning(S, n, "WRITE", "write", WriteLen), n, "WRITE", "write", 0)
      BY <1>2, <2>3, <2>4, OperationBegins, Zenon
    <3>. QED
      BY <3>1, Zenon DEF Beginning
  <2>6. now \in BOOLEAN /\ ~now
    BY Zenon
  <2>. HIDE DEF s, now
  <2>7. Operates(s, t, n, now, 0)
    <3>1. Sane(s, 0) /\ s.conn[n].msg = "write"
      BY <2>5, Zenon DEF Begun
    <3>. HIDE DEF n
    <3>. QED
      BY <1>2, <2>6, <3>1, WriteOperates, Zenon
  <2>. HIDE DEF t
  <2>. DEFINE x == "run"
              y == "wait write"
              op == "write"
              st == "WRITE"
  <2>8. /\ x \in AppPcs /\ y \in AppPcs /\ x \notin WaitPcs /\ x # "accept" /\ y \in WaitPcs
        /\ x # "free" /\ y # "wait free"
        /\ app.pc # "accept" /\ app.pc # "recved" /\ op \in {"write", "shutrd", "close", "delete"}
    BY <1>1, Zenon DEF AppPcs, WaitPcs
  <2>9. S.mbox = acceptmbox /\ (\A m \in Conns : m # app.n => S.conn[m] = conn[m]) /\ S.conn[app.n].alive
    BY <1>2, Zenon
  <2>10. Begun(S, s, app.n, st, op, 0) /\ Operates(s, t, app.n, now, 0)
    BY <2>5, <2>7, Zenon
  <2>11. app' = [app EXCEPT !.pc = IF t.conn[app.n].msg = "NULL" THEN x ELSE y]
    BY <2>2, Zenon
  <2>. HIDE DEF S, x, y, op, st, n, C
  <2>12. Attempts(S, s, t, now, st, op, x, y)
    BY <2>3, <2>6, <2>8, <2>9, <2>10, Zenon DEF Attempts
  <2>. QED
    BY <2>2, <2>8, <2>11, <2>12, OperationStep, Zenon
<1>. QED
  BY <1>3, <1>4, Zenon

\* The thread works on its netconn n and on what the pcb p of it counts: its mailbox, its hand from h to g.
Owns(s, t, n, p, h, g) ==
  /\ Changes(s, t, p, n) /\ p = s.conn[n].pcb /\ t.conn[n].pcb = p /\ h \in {0, n} /\ g \in {0, n}
  /\ ConnOK(t.conn[n]) /\ (g = n => t.conn[n].alive)
  /\ p # 0 =>
       /\ PcbOK(t.pcb[p]) /\ t.pcb[p].arg = n /\ t.pcb[p].refused = s.pcb[p].refused
       /\ t.pcb[p].pend <=> s.pcb[p].pend
       /\ t.pcb[p].unread >= DataIn(t.conn[n].recvmbox) + Refused(t.pcb[p]) + InHand(g, n)
  /\ t.pending = s.pending
  /\ t.pbufs = s.pbufs - DataIn(s.conn[n].recvmbox) + DataIn(t.conn[n].recvmbox) - HeldOf(h) + HeldOf(g)

LEMMA OwnerStep ==
  ASSUME NEW s, NEW h, Sane(s, h), NEW n \in Conns, NEW t, NEW p, NEW g, Owns(s, t, n, p, h, g)
  PROVE  Sane(t, g)
<1>1. /\ s \in StackRecord /\ t \in StackRecord /\ Tidy(s.pcb, s.conn, s.pending, s.pbufs, h)
      /\ g \in Conns \cup {0} /\ p \in Pcbs \cup {0} /\ n # 0 /\ n \in Conns \cup {0}
      /\ \A q \in Pcbs : q # p => t.pcb[q] = s.pcb[q]
      /\ \A m \in Conns : m # n => t.conn[m] = s.conn[m]
  <2>1. s \in StackRecord /\ Tidy(s.pcb, s.conn, s.pending, s.pbufs, h) /\ n # 0 /\ n \in Conns \cup {0}
    BY NetconnConstants, Zenon DEF Sane
  <2>2. Changes(s, t, p, n) /\ g \in {0, n} /\ p = s.conn[n].pcb
    BY Zenon DEF Owns
  <2>3. p \in Pcbs \cup {0}
    BY <2>2, SaneConn, Zenon
  <2>. QED
    BY <2>1, <2>2, <2>3, Zenon DEF Changes
<1>2. /\ s.pending \in Int /\ s.pbufs \in Int /\ s.pcb \in [Pcbs -> PcbRecord] /\ s.conn \in [Conns -> ConnRec]
      /\ t.pcb \in [Pcbs -> PcbRecord] /\ t.conn \in [Conns -> ConnRec] /\ t.pending \in Int /\ t.pbufs \in Int
  BY <1>1, StackFields, Zenon
<1>3. p # 0 => p \in Pcbs /\ s.pcb[p].arg = n
  <2>1. p = s.conn[n].pcb
    BY Zenon DEF Owns
  <2>. QED
    BY <2>1, SaneConn, Zenon
<1>4. Apart(s.pcb, s.conn, p, n)
  <2>1. s.conn[n].pcb = p
    BY Zenon DEF Owns
  <2>. QED
    BY <1>1, <1>3, <2>1, Zenon DEF Apart
<1>5. Apart(t.pcb, t.conn, p, n)
  <2>1. t.conn[n].pcb = p /\ (p # 0 => t.pcb[p].arg = n)
    BY Zenon DEF Owns
  <2>. QED
    BY <1>1, <2>1, Zenon DEF Apart
<1>6. /\ p # 0 => PcbOK(t.pcb[p])
      /\ n # 0 => ConnOK(t.conn[n])
      /\ p # 0 /\ n # 0 /\ t.pcb[p].arg = n => t.pcb[p].unread >= DataIn(t.conn[n].recvmbox) + Refused(t.pcb[p]) + InHand(g, n)
      /\ n # 0 /\ g = n => t.conn[n].alive
  BY Zenon DEF Owns
<1>7. \A m \in Conns : m # n => (h = m <=> g = m)
  <2>1. h \in {0, n} /\ g \in {0, n}
    BY Zenon DEF Owns
  <2>. QED
    BY <2>1, NetconnConstants, Zenon
<1>8. BoxOf(t.conn, n) = DataIn(t.conn[n].recvmbox) /\ BoxOf(s.conn, n) = DataIn(s.conn[n].recvmbox)
  BY BoxOfConn, Zenon
<1>9. BoxOf(t.conn, n) \in Nat /\ BoxOf(s.conn, n) \in Nat
  BY <1>1, <1>2, BoxOfNat, Zenon
<1>10. PendOf(t.pcb, p) = PendOf(s.pcb, p) /\ RefusedOf(t.pcb, p) = RefusedOf(s.pcb, p)
  <2>1. p # 0 => t.pcb[p].refused = s.pcb[p].refused /\ (t.pcb[p].pend <=> s.pcb[p].pend)
    BY Zenon DEF Owns
  <2>. QED
    BY <2>1, Zenon DEF PendOf, RefusedOf, Refused
<1>11. /\ t.pending = s.pending - PendOf(s.pcb, p) + PendOf(t.pcb, p)
       /\ t.pbufs = s.pbufs - BoxOf(s.conn, n) + BoxOf(t.conn, n) - RefusedOf(s.pcb, p) + RefusedOf(t.pcb, p)
                   - HeldOf(h) + HeldOf(g)
  <2>1. PendOf(s.pcb, p) \in Int /\ RefusedOf(s.pcb, p) \in Int /\ HeldOf(h) \in Int /\ HeldOf(g) \in Int
    BY SMT DEF PendOf, RefusedOf, Refused, HeldOf
  <2>2. /\ t.pending = s.pending
        /\ t.pbufs = s.pbufs - DataIn(s.conn[n].recvmbox) + DataIn(t.conn[n].recvmbox) - HeldOf(h) + HeldOf(g)
    BY Zenon DEF Owns
  <2>3. t.pbufs = s.pbufs - BoxOf(s.conn, n) + BoxOf(t.conn, n) - HeldOf(h) + HeldOf(g)
    BY <1>8, <2>2, Zenon
  <2>. QED
    BY <1>2, <1>9, <1>10, <2>1, <2>2, <2>3, SMT
<1>12. Tidy(t.pcb, t.conn, t.pending, t.pbufs, g)
  BY <1>1, <1>2, <1>4, <1>5, <1>6, <1>7, <1>11, TidyStep, SMTT(30)
<1>. QED
  BY <1>1, <1>12, Zenon DEF Sane

\* netconn_drain leaves the netconn without its mailbox, and all else of it alone.
Drained(s, d, n) ==
  /\ Sane(d, 0) /\ d.mbox = s.mbox
  /\ \A m \in Conns : m # n => d.conn[m] = s.conn[m]
  /\ d.conn[n].pcb = s.conn[n].pcb /\ d.conn[n].sem = s.conn[n].sem /\ d.conn[n].msg = s.conn[n].msg
  /\ d.conn[n].alive <=> s.conn[n].alive
  /\ ~d.conn[n].valid

LEMMA DataInDomain ==
  ASSUME NEW box \in Seq({"data", "NULL"})
  PROVE  Cardinality({j \in DOMAIN box : box[j] = "data"}) = DataIn(box)
<1>1. DOMAIN box = 1..Len(box)
  OBVIOUS
<1>. QED
  BY <1>1, Zenon DEF DataIn

LEMMA EmptyBox == <<>> \in Seq({"data", "NULL"}) /\ Len(<<>>) = 0
  BY SMT

LEMMA DrainEffect ==
  ASSUME NEW s, Sane(s, 0), NEW n \in Conns
  PROVE  Drained(s, netconn_drain(s, n), n)
<1>. DEFINE C == s.conn[n]
            p == C.pcb
            k == DataIn(C.recvmbox)
            off == FALSE
            X == [C EXCEPT !.recvmbox = <<>>]
            D == [X EXCEPT !.valid = off]
            a == [s EXCEPT !.conn[n] = D]
            t == [a EXCEPT !.pbufs = s.pbufs - k]
<1>1. s \in StackRecord /\ C \in ConnRec /\ ConnOK(C) /\ p \in Pcbs \cup {0} /\ (p # 0 => p \in Pcbs /\ s.pcb[p].arg = n)
  BY SaneConn, Zenon
<1>2. C.recvmbox \in Seq({"data", "NULL"}) /\ s.conn \in [Conns -> ConnRec] /\ s.pcb \in [Pcbs -> PcbRecord] /\ s.pbufs \in Int
      /\ s.pending \in Int
  BY <1>1, NetconnFields, StackFields, Zenon
<1>3. k \in Nat /\ Cardinality({j \in DOMAIN s.conn[n].recvmbox : s.conn[n].recvmbox[j] = "data"}) = k
  BY <1>2, DataInDomain, DataInNat, Zenon
<1>4. [s EXCEPT !.conn[n].recvmbox = <<>>, !.conn[n].valid = FALSE, !.pbufs = @ - k] = t
  <2>. HIDE DEF k
  <2>. QED
    BY <1>1, <1>2
<1>5. netconn_drain(s, n) = IF p = 0 THEN t ELSE [t EXCEPT !.pcb[p].unread = @ - k]
  <2>. DEFINE j == Cardinality({i \in DOMAIN s.conn[n].recvmbox : s.conn[n].recvmbox[i] = "data"})
              b == [s EXCEPT !.conn[n].recvmbox = <<>>, !.conn[n].valid = FALSE, !.pbufs = @ - j]
  <2>1. netconn_drain(s, n) = IF p = 0 THEN b ELSE [b EXCEPT !.pcb[p].unread = @ - j]
    BY Zenon DEF netconn_drain
  <2>2. j = k
    BY <1>3, Zenon
  <2>. HIDE DEF j, k
  <2>3. b = t
    BY <1>4, <2>2, Zenon
  <2>. HIDE DEF b, t
  <2>. QED
    BY <2>1, <2>2, <2>3, Zenon
<1>. HIDE DEF C, k
<1>6. D \in ConnRec
  <2>1. X \in ConnRec
    BY <1>1, EmptyBox, NetconnUpdates, Zenon
  <2>2. off \in BOOLEAN
    BY Zenon
  <2>. HIDE DEF X, off
  <2>. QED
    BY <2>1, <2>2, NetconnUpdates, Zenon
<1>7. /\ D.recvmbox = <<>> /\ D.state = C.state /\ D.msg = C.msg /\ D.left = C.left /\ D.sem = C.sem /\ D.pcb = C.pcb
      /\ D.alive <=> C.alive
      /\ ~D.valid
  BY <1>1, Zenon DEF ConnRec
<1>. HIDE DEF D
<1>8. ConnTo(s, a, n, D)
  BY <1>1, <1>6, ConnReplacedBy, Zenon
<1>. HIDE DEF a
<1>9. a \in StackRecord /\ OnlyConn(s, a, n) /\ a.conn[n] = D
  BY <1>8, Zenon DEF ConnTo, OnlyConn
<1>10. t \in StackRecord /\ t.pbufs = s.pbufs - k /\ t.pcb = a.pcb /\ t.conn = a.conn /\ t.pending = a.pending /\ t.mbox = a.mbox
  <2>1. s.pbufs - k \in Int
    BY <1>2, <1>3, SMT
  <2>2. t \in StackRecord
    BY <1>9, <2>1, StackUpdates, Zenon
  <2>3. t.pbufs = s.pbufs - k /\ t.pcb = a.pcb /\ t.conn = a.conn /\ t.pending = a.pending /\ t.mbox = a.mbox
    BY <1>9, Zenon DEF StackRecord
  <2>. QED
    BY <2>2, <2>3, Zenon
<1>. HIDE DEF t
<1>11. /\ t.pcb = s.pcb /\ t.conn[n] = D /\ t.pending = s.pending /\ t.mbox = s.mbox
       /\ \A m \in Conns : m # n => t.conn[m] = s.conn[m]
  BY <1>9, <1>10, Zenon DEF OnlyConn
<1>12. ConnOK(D)
  <2>1. Len(<<>>) <= DEFAULT_TCP_RECVMBOX_SIZE
    BY EmptyBox, NetconnConstants, SMT
  <2>. QED
    BY <1>1, <1>7, <2>1, Zenon DEF ConnOK
<1>13. DataIn(D.recvmbox) = 0 /\ HeldOf(0) = 0 /\ InHand(0, n) = 0
  BY <1>7, DataInEmpty, NetconnConstants, Zenon DEF HeldOf, InHand
<1>14. ASSUME NEW d, Owns(s, d, n, p, 0, 0), d.conn[n] = D PROVE Drained(s, d, n)
  <2>1. Sane(d, 0)
    BY <1>14, OwnerStep, Zenon
  <2>2. d.mbox = s.mbox /\ \A m \in Conns : m # n => d.conn[m] = s.conn[m]
    BY <1>14, Zenon DEF Owns, Changes
  <2>. QED
    BY <1>7, <1>14, <2>1, <2>2, Zenon DEF Drained, C
<1>15. ASSUME NEW d, d.pbufs = t.pbufs, d.conn = t.conn
       PROVE  d.pbufs = s.pbufs - DataIn(s.conn[n].recvmbox) + DataIn(d.conn[n].recvmbox) - HeldOf(0) + HeldOf(0)
  <2>1. d.pbufs = s.pbufs - k /\ DataIn(d.conn[n].recvmbox) = 0 /\ DataIn(s.conn[n].recvmbox) = k
    BY <1>10, <1>11, <1>13, <1>15, Zenon DEF k, C
  <2>2. d.pbufs = s.pbufs - k + 0 - 0 + 0
    BY <1>2, <1>3, <2>1, SMT
  <2>. QED
    BY <1>13, <2>1, <2>2, Zenon
<1>16. CASE p = 0
  <2>1. Changes(s, t, p, n)
    BY <1>10, <1>11, Zenon DEF Changes
  <2>2. t.pbufs = s.pbufs - DataIn(s.conn[n].recvmbox) + DataIn(t.conn[n].recvmbox) - HeldOf(0) + HeldOf(0)
    BY <1>15, Zenon
  <2>3. p = s.conn[n].pcb /\ t.conn[n].pcb = p /\ ConnOK(t.conn[n]) /\ n # 0
    BY <1>7, <1>11, <1>12, NetconnConstants, Zenon DEF C
  <2>4. Owns(s, t, n, p, 0, 0)
    BY <1>11, <1>16, <2>1, <2>2, <2>3, Zenon DEF Owns
  <2>. QED
    BY <1>5, <1>11, <1>14, <1>16, <2>4, Zenon
<1>17. CASE p # 0
  <2>. DEFINE P == s.pcb[p]
              Q == [P EXCEPT !.unread = P.unread - k]
              d == [t EXCEPT !.pcb[p] = Q]
  <2>1. p \in Pcbs /\ P.arg = n /\ P \in PcbRecord /\ PcbOK(P) /\ n # 0
    BY <1>1, <1>17, SanePcb, NetconnConstants, Zenon
  <2>2. P.unread >= DataIn(s.conn[n].recvmbox) + Refused(P) + InHand(0, n)
    BY <2>1, SanePcb, Zenon
  <2>3. P.unread \in Int /\ P.unread >= k + Refused(P) + 0 /\ Refused(P) \in {0, 1} /\ P.unread \in 0..RecvWindow
    <3>1. P.unread >= k + Refused(P) + 0
      BY <1>13, <2>2, Zenon DEF k, C
    <3>2. P.unread \in Int /\ Refused(P) \in {0, 1}
      BY <2>1, PcbFields, Zenon DEF Refused
    <3>. QED
      BY <2>1, <3>1, <3>2, Zenon DEF PcbOK
  <2>4. P.unread - k \in Int /\ P.unread - k \in 0..RecvWindow /\ P.unread - k >= 0 + Refused(P) + 0
    <3>. HIDE DEF P, p
    <3>. QED
      BY <1>3, <2>3, NetconnConstants, SMT
  <2>5. Q \in PcbRecord
    <3>. HIDE DEF P
    <3>. QED
      BY <2>1, <2>4, PcbUpdates, Zenon
  <2>6. [t EXCEPT !.pcb[p].unread = @ - k] = d
    BY <1>11, Zenon
  <2>. HIDE DEF P
  <2>7. /\ Q.unread = P.unread - k /\ Q.arg = P.arg /\ Q.state = P.state /\ Q.refused = P.refused /\ Q.snd = P.snd
        /\ Q.pend <=> P.pend
    BY <2>1, Zenon DEF PcbRecord
  <2>. HIDE DEF Q
  <2>8. PcbTo(t, d, p, Q, t.pbufs)
    <3>1. t.pbufs \in Int
      BY <1>10, StackFields, Zenon
    <3>. HIDE DEF p
    <3>. QED
      BY <1>10, <2>1, <2>5, <3>1, PcbReplaced, Zenon
  <2>. HIDE DEF d
  <2>9. PcbOK(Q) /\ Refused(Q) = Refused(P)
    BY <2>1, <2>4, <2>7, Zenon DEF PcbOK, Refused
  <2>10. /\ d \in StackRecord /\ d.conn = t.conn /\ d.pending = t.pending /\ d.mbox = t.mbox /\ d.pbufs = t.pbufs /\ d.pcb[p] = Q
         /\ \A q \in Pcbs : q # p => d.pcb[q] = t.pcb[q]
    BY <2>8, Zenon DEF PcbTo
  <2>11. Changes(s, d, p, n)
    BY <1>11, <2>10, Zenon DEF Changes
  <2>12. d.pbufs = s.pbufs - DataIn(s.conn[n].recvmbox) + DataIn(d.conn[n].recvmbox) - HeldOf(0) + HeldOf(0)
    BY <1>15, <2>10, Zenon
  <2>13. p = s.conn[n].pcb /\ d.conn[n].pcb = p /\ ConnOK(d.conn[n]) /\ d.conn[n] = D /\ d.pending = s.pending
    BY <1>7, <1>11, <1>12, <2>10, Zenon DEF C
  <2>14. d.pcb[p].unread >= DataIn(d.conn[n].recvmbox) + Refused(d.pcb[p]) + InHand(0, n)
    BY <1>13, <2>4, <2>7, <2>9, <2>10, <2>13, Zenon
  <2>15. PcbOK(d.pcb[p]) /\ d.pcb[p].arg = n /\ d.pcb[p].refused = s.pcb[p].refused /\ (d.pcb[p].pend <=> s.pcb[p].pend)
    BY <2>1, <2>7, <2>9, <2>10, Zenon DEF P
  <2>. HIDE DEF p
  <2>16. Owns(s, d, n, p, 0, 0)
    BY <2>1, <2>11, <2>12, <2>13, <2>14, <2>15, Zenon DEF Owns
  <2>. QED
    BY <1>5, <1>14, <1>17, <2>6, <2>13, <2>16, Zenon DEF p
<1>. QED
  BY <1>16, <1>17, Zenon

\* Calls that close: where they begin, what they ask for, where the thread waits and where it goes on.
Closing(pc, op, wait, next) ==
  /\ pc # "accept" /\ pc # "recved" /\ pc \notin WaitPcs
  /\ op \in {"shutrd", "close", "delete"} /\ wait \in AppPcs /\ wait \in WaitPcs
  /\ next \in AppPcs /\ next \notin WaitPcs /\ next # "accept" /\ next # "recved"
  /\ next = "free" \/ wait = "wait free" => op = "delete"

LEMMA CloseCallKeeps ==
  ASSUME NetconnInv, NEW pc, NEW op, NEW wait, NEW next, Closing(pc, op, wait, next), CloseCall(pc, op, wait, next)
  PROVE  NetconnInv'
<1>. DEFINE n == app.n
            C == conn[n]
            now == FALSE
            S == Stack
            d == IF op = "delete" \/ C.pcb # 0 THEN netconn_drain(S, n) ELSE S
<1>1. /\ app.pc = pc /\ pc # "accept" /\ pc # "recved" /\ pc \notin WaitPcs
      /\ op \in {"shutrd", "close", "delete"} /\ wait \in AppPcs /\ wait \in WaitPcs
      /\ next \in AppPcs /\ next \notin WaitPcs /\ next # "accept" /\ next # "recved"
      /\ next = "free" \/ wait = "wait free" => op = "delete"
  BY Zenon DEF CloseCall, Closing
<1>2. /\ n \in Conns /\ n # 0 /\ C.alive /\ C \in ConnRec /\ ConnOK(C) /\ app \in AppRecord /\ Sane(S, 0)
      /\ S.conn = conn /\ S.mbox = acceptmbox /\ app.got # "data" /\ Hand(app) = 0 /\ ~Busy(C)
  <2>1. app.pc # "accept" /\ app.pc # "recved" /\ app.pc \notin WaitPcs
    BY <1>1, Zenon
  <2>2. /\ n \in Conns /\ n # 0 /\ C.alive /\ C \in ConnRec /\ ConnOK(C) /\ app \in AppRecord /\ Sane(Stack, Hand(app))
        /\ Stack.conn = conn /\ Stack.mbox = acceptmbox /\ app.got # "data" /\ Hand(app) = 0 /\ ~Busy(C)
    BY <2>1, ThreadHas, Zenon
  <2>. QED
    BY <2>2, Zenon
<1>3. C.sem = 0 /\ C.msg = "NULL"
  BY <1>2, ConnIdle, Zenon
<1>. HIDE DEF S
<1>4. Drained(S, netconn_drain(S, n), n)
  <2>. HIDE DEF n
  <2>. QED
    BY <1>2, DrainEffect, Zenon
<1>5. CASE C.pcb = 0
  <2>1. Becomes(d) /\ app' = [app EXCEPT !.pc = next]
    BY <1>5, Zenon DEF CloseCall, Goes, S
  <2>2. /\ Sane(d, 0) /\ d.mbox = acceptmbox /\ (\A m \in Conns : m # n => d.conn[m] = conn[m])
        /\ d.conn[n].pcb = 0 /\ d.conn[n].sem = 0 /\ d.conn[n].msg = "NULL" /\ d.conn[n].alive
        /\ op = "delete" => ~d.conn[n].valid
    <3>1. CASE op = "delete"
      <4>1. d = netconn_drain(S, n)
        BY <3>1, Zenon
      <4>. HIDE DEF d
      <4>. QED
        BY <1>2, <1>3, <1>4, <1>5, <4>1, Zenon DEF Drained
    <3>2. CASE op # "delete"
      <4>1. d = S
        BY <1>5, <3>2, Zenon
      <4>. HIDE DEF d
      <4>. QED
        BY <1>2, <1>3, <1>5, <3>2, <4>1, Zenon
    <3>. QED
      BY <3>1, <3>2, Zenon
  <2>. HIDE DEF d
  <2>3. app' \in AppRecord /\ app'.pc = next /\ app'.n = app.n /\ app'.got = app.got
    BY <1>1, <1>2, <2>1, AppGoesTo, Zenon
  <2>4. Hand(app') = 0
    BY <1>2, <2>3, Zenon DEF Hand
  <2>5. ~Busy(d.conn[n])
    BY <2>2, SmallNumbers, Zenon DEF Busy
  <2>6. next # "wait free"
    BY <1>1, Zenon DEF WaitPcs
  <2>7. AtPc(d.conn[n], next)
    BY <1>1, <2>2, <2>5, <2>6, Zenon DEF AtPc
  <2>8. /\ Sane(d, Hand(app')) /\ (app'.got = "data" => app'.pc = "recved") /\ AtPc(d.conn[app.n], app'.pc)
        /\ d.conn[app.n].alive <=> conn[app.n].alive
    BY <1>2, <2>2, <2>3, <2>4, <2>7, Zenon
  <2>. QED
    BY <1>2, <2>1, <2>2, <2>3, <2>8, AppStep, Zenon
<1>6. CASE C.pcb # 0
  <2>. DEFINE u == netconn_drain(S, n)
              s == [u EXCEPT !.conn[n].state = "CLOSE", !.conn[n].msg = op, !.conn[n].left = ClosePolls]
  <2>1. PICK o \in {"ok", "mem"} :
          LET t == lwip_netconn_do_close_internal(s, n, o, now)
          IN Becomes(t) /\ app' = [app EXCEPT !.pc = IF t.conn[n].msg = "NULL" THEN next ELSE wait]
    BY <1>6, Zenon DEF CloseCall, Goes, S
  <2>. DEFINE t == lwip_netconn_do_close_internal(s, n, o, now)
  <2>2. Becomes(t) /\ app' = [app EXCEPT !.pc = IF t.conn[n].msg = "NULL" THEN next ELSE wait]
    BY <2>1, Zenon
  <2>. HIDE DEF u
  <2>3. /\ u.conn[n].pcb # 0 /\ u.conn[n].sem = 0 /\ Sane(u, 0) /\ u.mbox = acceptmbox /\ u.conn[n].alive /\ ~u.conn[n].valid
        /\ \A m \in Conns : m # n => u.conn[m] = conn[m]
    <3>1. Drained(S, u, n)
      BY <1>4, Zenon DEF u
    <3>. QED
      BY <1>2, <1>3, <1>6, <3>1, Zenon DEF Drained
  <2>. DEFINE st == "CLOSE"
  <2>5. ClosePolls \in Int /\ ClosePolls >= 0 /\ Fitting("CLOSE", op)
    <3>1. ClosePolls \in Int /\ ClosePolls >= 0
      BY NetconnConstants, SMT
    <3>. QED
      BY <1>1, <3>1, Zenon DEF Fitting
  <2>7. Begun(u, Beginning(u, n, "CLOSE", op, ClosePolls), n, "CLOSE", op, 0)
    <3>1. n \in Conns /\ u.conn[n].pcb # 0 /\ u.conn[n].sem = 0 /\ Sane(u, 0)
      BY <1>2, <2>3, Zenon
    <3>. HIDE DEF n, C, s
    <3>. QED
      BY <2>5, <3>1, OperationBegins, Zenon
  <2>8. now \in BOOLEAN /\ ~now
    BY Zenon
  <2>. HIDE DEF s, now
  <2>9. Begun(u, s, n, st, op, 0)
    BY <2>7, Zenon DEF Beginning, s
  <2>10. Operates(s, t, n, now, 0)
    <3>1. Sane(s, 0) /\ s.conn[n].state = "CLOSE"
      BY <2>9, Zenon DEF Begun
    <3>. HIDE DEF n
    <3>. QED
      BY <1>2, <2>8, <3>1, CloseOperates, Zenon
  <2>. HIDE DEF t, st
  <2>11. op \in {"write", "shutrd", "close", "delete"}
    BY <1>1, Zenon
  <2>12. Attempts(u, s, t, now, st, op, next, wait)
    <3>. HIDE DEF C
    <3>. QED
      BY <1>1, <2>3, <2>8, <2>9, <2>10, <2>11, Zenon DEF Attempts
  <2>. QED
    BY <1>1, <2>2, <2>12, OperationStep, Zenon
<1>. QED
  BY <1>5, <1>6, Zenon

LEMMA NetconnInvClose ==
  ASSUME NetconnInv, ShutRd \/ netconn_close \/ netconn_delete
  PROVE  NetconnInv'
<1>1. /\ Closing("shutrd", "shutrd", "wait close", "close") /\ Closing("close", "close", "wait delete", "delete")
      /\ Closing("delete", "delete", "wait free", "free")
  BY Zenon DEF Closing, WaitPcs, AppPcs
<1>. QED
  BY <1>1, CloseCallKeeps, Zenon DEF ShutRd, netconn_close, netconn_delete

\* The thread fetches a segment, or NULL, from the mailbox of its netconn.
LEMMA NetconnInvRecvFetch ==
  ASSUME NetconnInv, RecvFetch
  PROVE  NetconnInv'
<1>. DEFINE n == app.n
            C == conn[n]
            p == C.pcb
            S == Stack
            item == Head(C.recvmbox)
            D == [C EXCEPT !.recvmbox = Tail(C.recvmbox)]
            t == [S EXCEPT !.conn[n] = D]
            g == IF item = "data" THEN n ELSE 0
<1>1. /\ app.pc = "recv" /\ C.recvmbox # <<>> /\ app' = [app EXCEPT !.pc = "recved", !.got = item]
      /\ conn' = [conn EXCEPT ![n] = D]
      /\ tpcb' = tpcb /\ accepts_pending' = accepts_pending /\ acceptmbox' = acceptmbox /\ apiPbufs' = apiPbufs
  BY Zenon DEF RecvFetch
<1>2. /\ n \in Conns /\ n # 0 /\ C.alive /\ C \in ConnRec /\ ConnOK(C) /\ app \in AppRecord /\ Sane(S, 0)
      /\ S.conn = conn /\ S.mbox = acceptmbox /\ app.got # "data" /\ ~Busy(C)
  BY <1>1, ThreadHas, Zenon DEF WaitPcs
<1>3. C.recvmbox \in Seq({"data", "NULL"})
  BY <1>2, NetconnFields, Zenon
<1>4. /\ Tail(C.recvmbox) \in Seq({"data", "NULL"}) /\ item \in {"data", "NULL"} /\ Len(Tail(C.recvmbox)) = Len(C.recvmbox) - 1
      /\ DataIn(C.recvmbox) = DataIn(Tail(C.recvmbox)) + (IF item = "data" THEN 1 ELSE 0)
  BY <1>1, <1>3, DataInTail, Zenon
<1>. HIDE DEF item
<1>5. D \in ConnRec
  BY <1>2, <1>4, NetconnUpdates, Zenon
<1>6. /\ D.recvmbox = Tail(C.recvmbox) /\ D.state = C.state /\ D.msg = C.msg /\ D.left = C.left /\ D.sem = C.sem /\ D.pcb = C.pcb
      /\ D.alive <=> C.alive
      /\ D.valid <=> C.valid
  <2>. HIDE DEF C
  <2>. QED
    BY <1>2, Zenon DEF ConnRec
<1>7. [S EXCEPT !.conn[n] = D].conn = [conn EXCEPT ![n] = D]
  <2>1. S \in StackRecord
    BY <1>2, Zenon DEF Sane
  <2>. HIDE DEF D, n, S
  <2>. QED
    BY <1>2, <2>1, Zenon DEF StackRecord
<1>. HIDE DEF D
<1>8. ConnTo(S, t, n, D)
  <2>1. S \in StackRecord
    BY <1>2, Zenon DEF Sane
  <2>. HIDE DEF n, S
  <2>. QED
    BY <1>2, <1>5, <2>1, ConnReplacedBy, Zenon
<1>9. Becomes(t)
  <2>1. conn' = t.conn
    BY <1>1, <1>7, Zenon
  <2>2. OnlyConn(S, t, n)
    BY <1>8, Zenon DEF ConnTo
  <2>. HIDE DEF t
  <2>. QED
    BY <1>1, <2>1, <2>2, StackIs, Zenon DEF OnlyConn, Becomes
<1>. HIDE DEF t
<1>10. /\ t \in StackRecord /\ t.pcb = S.pcb /\ t.pending = S.pending /\ t.mbox = S.mbox /\ t.pbufs = S.pbufs /\ t.conn[n] = D
       /\ \A m \in Conns : m # n => t.conn[m] = S.conn[m]
  BY <1>8, Zenon DEF ConnTo, OnlyConn
<1>11. ConnOK(D)
  <2>1. C.valid
    BY <1>1, <1>2, Zenon DEF ConnOK
  <2>2. Len(C.recvmbox) <= DEFAULT_TCP_RECVMBOX_SIZE
    BY <1>2, Zenon DEF ConnOK
  <2>3. Len(C.recvmbox) \in Nat
    BY <1>3, LenProperties, Zenon
  <2>4. Len(Tail(C.recvmbox)) <= DEFAULT_TCP_RECVMBOX_SIZE
    BY <1>4, <2>2, <2>3, NetconnConstants, SMT
  <2>. QED
    BY <1>2, <1>6, <2>1, <2>4, Zenon DEF ConnOK
<1>12. DataIn(C.recvmbox) \in Nat /\ DataIn(D.recvmbox) \in Nat /\ DataIn(C.recvmbox) = DataIn(D.recvmbox) + HeldOf(g) /\ HeldOf(g) \in {0, 1}
       /\ HeldOf(0) = 0 /\ InHand(g, n) = HeldOf(g) /\ InHand(0, n) = 0
  <2>1. DataIn(C.recvmbox) \in Nat /\ DataIn(D.recvmbox) \in Nat
    BY <1>3, <1>4, <1>6, DataInNat, Zenon
  <2>2. HeldOf(g) = IF item = "data" THEN 1 ELSE 0
    BY <1>2, Zenon DEF HeldOf
  <2>3. DataIn(C.recvmbox) = DataIn(D.recvmbox) + HeldOf(g)
    BY <1>4, <1>6, <2>2, Zenon
  <2>4. InHand(g, n) = HeldOf(g) /\ InHand(0, n) = 0 /\ HeldOf(0) = 0 /\ HeldOf(g) \in {0, 1}
    BY <1>2, Zenon DEF HeldOf, InHand
  <2>. QED
    BY <2>1, <2>3, <2>4, Zenon
<1>13. S.pcb \in [Pcbs -> PcbRecord] /\ S.pbufs \in Int
  <2>1. S \in StackRecord
    BY <1>2, Zenon DEF Sane
  <2>. QED
    BY <2>1, StackFields, Zenon
<1>14. t.pbufs = S.pbufs - DataIn(S.conn[n].recvmbox) + DataIn(t.conn[n].recvmbox) - HeldOf(0) + HeldOf(g)
  <2>. DEFINE a == DataIn(C.recvmbox)
              b == DataIn(D.recvmbox)
              c == HeldOf(g)
              z == HeldOf(0)
              e == S.pbufs
  <2>1. a \in Nat /\ b \in Nat /\ a = b + c /\ c \in {0, 1} /\ z = 0 /\ e \in Int
    BY <1>12, <1>13, Zenon
  <2>. HIDE DEF a, b, c, z, e
  <2>2. e = e - a + b - z + c
    BY <2>1, SMT
  <2>. QED
    BY <1>2, <1>10, <2>2, Zenon DEF a, b, c, z, e
<1>15. p # 0 =>
         /\ PcbOK(S.pcb[p]) /\ S.pcb[p].arg = n
         /\ S.pcb[p].unread >= DataIn(D.recvmbox) + Refused(S.pcb[p]) + InHand(g, n)
  <2>. SUFFICES ASSUME p # 0
                PROVE  /\ PcbOK(S.pcb[p]) /\ S.pcb[p].arg = n
                       /\ S.pcb[p].unread >= DataIn(D.recvmbox) + Refused(S.pcb[p]) + InHand(g, n)
    BY Zenon
  <2>1. p \in Pcbs /\ S.pcb[p].arg = n
    BY <1>2, SaneConn, Zenon
  <2>2. PcbOK(S.pcb[p]) /\ S.pcb[p] \in PcbRecord /\ S.pcb[p].unread >= DataIn(S.conn[n].recvmbox) + Refused(S.pcb[p]) + InHand(0, n)
    BY <1>2, <2>1, SanePcb, Zenon
  <2>. DEFINE a == DataIn(C.recvmbox)
              b == DataIn(D.recvmbox)
              c == HeldOf(g)
              r == Refused(S.pcb[p])
              w == S.pcb[p].unread
  <2>3. a \in Nat /\ b \in Nat /\ a = b + c /\ c \in {0, 1} /\ r \in {0, 1} /\ w \in Int /\ w >= a + r + 0
    <3>1. r \in {0, 1} /\ w \in Int
      BY <2>2, PcbFields, Zenon DEF Refused
    <3>2. w >= a + r + 0
      BY <1>2, <1>12, <2>2, Zenon
    <3>. QED
      BY <1>12, <3>1, <3>2, Zenon
  <2>. HIDE DEF a, b, c, r, w
  <2>4. w >= b + r + c
    BY <2>3, SMT
  <2>. QED
    BY <1>12, <2>1, <2>2, <2>4, Zenon DEF b, c, r, w
<1>16. Owns(S, t, n, p, 0, g)
  <2>1. Changes(S, t, p, n)
    BY <1>10, Zenon DEF Changes
  <2>2. p = S.conn[n].pcb /\ t.conn[n].pcb = p /\ ConnOK(t.conn[n]) /\ t.conn[n].alive /\ g \in {0, n}
    BY <1>2, <1>6, <1>10, <1>11, Zenon
  <2>. HIDE DEF g
  <2>. QED
    BY <1>2, <1>10, <1>14, <1>15, <2>1, <2>2, Zenon DEF Owns
<1>17. Sane(t, g)
  <2>. HIDE DEF n, S, p, g
  <2>. QED
    BY <1>2, <1>16, OwnerStep, Zenon
<1>18. app' \in AppRecord /\ app'.pc = "recved" /\ app'.n = app.n /\ app'.got = item
  <2>1. "recved" \in AppPcs /\ item \in {"none", "data", "NULL"}
    BY <1>4, Zenon DEF AppPcs
  <2>2. [app EXCEPT !.pc = "recved"] \in AppRecord
    BY <1>2, <2>1, AppUpdates, Zenon
  <2>3. [[app EXCEPT !.pc = "recved"] EXCEPT !.got = item] \in AppRecord
    BY <2>1, <2>2, AppUpdates, Zenon
  <2>4. app' = [[app EXCEPT !.pc = "recved"] EXCEPT !.got = item]
    BY <1>1, Zenon
  <2>. QED
    BY <1>2, <2>3, <2>4, Zenon DEF AppRecord
<1>19. Hand(app') = g
  BY <1>18, Zenon DEF Hand
<1>20. AtPc(D, "recved")
  <2>1. ~Busy(D)
    BY <1>2, <1>6, Zenon DEF Busy
  <2>. QED
    BY <2>1, IdlePcs, Zenon
<1>21. /\ Sane(t, Hand(app')) /\ (app'.got = "data" => app'.pc = "recved") /\ AtPc(t.conn[app.n], app'.pc)
       /\ t.conn[app.n].alive <=> conn[app.n].alive
  BY <1>2, <1>6, <1>10, <1>17, <1>18, <1>19, <1>20, Zenon
<1>22. t.mbox = acceptmbox /\ \A m \in Conns : m # app.n => t.conn[m] = conn[m]
  BY <1>2, <1>10, Zenon
<1>. QED
  BY <1>2, <1>9, <1>18, <1>21, <1>22, AppStep, Zenon

LEMMA NetconnInvRecvDone ==
  ASSUME NetconnInv, RecvDone
  PROVE  NetconnInv'
<1>. DEFINE n == app.n
            C == conn[n]
            p == C.pcb
            S == Stack
            x == IF app.got = "data" THEN "run" ELSE IF p = 0 THEN "close" ELSE "shutrd"
<1>1. /\ app.pc = "recved" /\ app' = [app EXCEPT !.got = "none", !.pc = x]
      /\ tpcb' = IF app.got = "data" /\ p # 0 THEN [tpcb EXCEPT ![p].unread = @ - 1] ELSE tpcb
      /\ apiPbufs' = IF app.got = "data" THEN apiPbufs - 1 ELSE apiPbufs
      /\ conn' = conn /\ accepts_pending' = accepts_pending /\ acceptmbox' = acceptmbox
  BY Zenon DEF RecvDone
<1>2. /\ n \in Conns /\ n # 0 /\ C.alive /\ C \in ConnRec /\ ConnOK(C) /\ app \in AppRecord /\ Sane(S, Hand(app))
      /\ S.conn = conn /\ S.mbox = acceptmbox /\ ~Busy(C)
  BY <1>1, ThreadHas, Zenon DEF WaitPcs
<1>3. S \in StackRecord /\ S.pcb \in [Pcbs -> PcbRecord] /\ S.pbufs \in Int /\ S.pending \in Int /\ DataIn(C.recvmbox) \in Nat
  <2>1. S \in StackRecord
    BY <1>2, Zenon DEF Sane
  <2>2. C.recvmbox \in Seq({"data", "NULL"})
    BY <1>2, NetconnFields, Zenon
  <2>. QED
    BY <2>1, <2>2, StackFields, DataInNat, Zenon
<1>4. x \in {"run", "recv", "recved", "close", "shutrd", "delete"} /\ x # "recved"
  BY Zenon
<1>. HIDE DEF x
<1>5. x \in AppPcs /\ AtPc(C, x)
  BY <1>2, <1>4, IdlePcs, Zenon
<1>6. app' \in AppRecord /\ app'.pc = x /\ app'.n = app.n /\ app'.got = "none"
  <2>1. "none" \in {"none", "data", "NULL"}
    BY Zenon
  <2>2. [app EXCEPT !.got = "none"] \in AppRecord
    BY <1>2, <2>1, AppUpdates, Zenon
  <2>3. [[app EXCEPT !.got = "none"] EXCEPT !.pc = x] \in AppRecord
    BY <1>5, <2>2, AppUpdates, Zenon
  <2>4. app' = [[app EXCEPT !.got = "none"] EXCEPT !.pc = x]
    BY <1>1, Zenon
  <2>. QED
    BY <1>2, <2>3, <2>4, Zenon DEF AppRecord
<1>7. Hand(app') = 0
  BY <1>6, Zenon DEF Hand
<1>8. ASSUME NEW t, Sane(t, 0), t.conn = conn, t.mbox = acceptmbox, Becomes(t) PROVE NetconnInv'
  <2>1. /\ Sane(t, Hand(app')) /\ (app'.got = "data" => app'.pc = "recved") /\ AtPc(t.conn[app.n], app'.pc)
        /\ t.conn[app.n].alive <=> conn[app.n].alive
    BY <1>4, <1>5, <1>6, <1>7, <1>8, Zenon
  <2>2. \A m \in Conns : m # app.n => t.conn[m] = conn[m]
    BY <1>8, Zenon
  <2>. QED
    BY <1>2, <1>6, <1>8, <2>1, <2>2, AppStep, Zenon
<1>9. CASE app.got # "data"
  <2>1. Becomes(S)
    BY <1>1, <1>9, StackIs, Zenon DEF Becomes
  <2>2. Hand(app) = 0
    BY <1>9, Zenon DEF Hand
  <2>. HIDE DEF S
  <2>. QED
    BY <1>2, <1>8, <2>1, <2>2, Zenon
<1>10. CASE app.got = "data"
  <2>0. Hand(app) = n
    BY <1>10, Zenon DEF Hand
  <2>1. HeldOf(n) = 1 /\ HeldOf(0) = 0 /\ InHand(n, n) = 1 /\ InHand(0, n) = 0
    BY <1>2, Zenon DEF HeldOf, InHand
  <2>2. ASSUME NEW t, t.conn = S.conn, t.pbufs = S.pbufs - 1
        PROVE  t.pbufs = S.pbufs - DataIn(S.conn[n].recvmbox) + DataIn(t.conn[n].recvmbox) - HeldOf(n) + HeldOf(0)
    <3>. DEFINE a == DataIn(C.recvmbox)
                e == S.pbufs
    <3>1. a \in Nat /\ e \in Int
      BY <1>3, Zenon
    <3>. HIDE DEF a, e
    <3>2. e - 1 = e - a + a - 1 + 0
      BY <3>1, SMT
    <3>. QED
      BY <1>2, <2>1, <2>2, <3>2, Zenon DEF a, e
  <2>3. ASSUME NEW t, Owns(S, t, n, p, n, 0), t.conn = S.conn, Becomes(t) PROVE NetconnInv'
    <3>1. Sane(t, 0)
      <4>1. Sane(S, n) /\ n \in Conns
        BY <1>2, <2>0, Zenon
      <4>. HIDE DEF S, n, p
      <4>. QED
        BY <2>3, <4>1, OwnerStep, Zenon
    <3>2. t.mbox = S.mbox
      BY <2>3, Zenon DEF Owns, Changes
    <3>. HIDE DEF S
    <3>. QED
      BY <1>2, <1>8, <2>3, <3>1, <3>2, Zenon
  <2>4. S.pbufs - 1 \in Int
    BY <1>3, SMT
  <2>5. CASE p = 0
    <3>. DEFINE t == [S EXCEPT !.pbufs = S.pbufs - 1]
    <3>1. t \in StackRecord
      <4>. HIDE DEF S
      <4>. QED
        BY <1>3, <2>4, StackUpdates, Zenon
    <3>2. t.pbufs = S.pbufs - 1 /\ t.pcb = S.pcb /\ t.conn = S.conn /\ t.pending = S.pending /\ t.mbox = S.mbox
      <4>. HIDE DEF S
      <4>. QED
        BY <1>3, Zenon DEF StackRecord
    <3>. HIDE DEF t
    <3>3. Becomes(t)
      BY <1>1, <1>10, <2>5, <3>2, StackIs, Zenon DEF Becomes
    <3>4. Changes(S, t, p, n)
      BY <3>1, <3>2, Zenon DEF Changes
    <3>5. t.pbufs = S.pbufs - DataIn(S.conn[n].recvmbox) + DataIn(t.conn[n].recvmbox) - HeldOf(n) + HeldOf(0)
      BY <2>2, <3>2, Zenon
    <3>6. p = S.conn[n].pcb /\ t.conn[n].pcb = p /\ ConnOK(t.conn[n])
      BY <1>2, <3>2, Zenon
    <3>7. Owns(S, t, n, p, n, 0)
      BY <1>2, <2>5, <3>2, <3>4, <3>5, <3>6, Zenon DEF Owns
    <3>. QED
      BY <2>3, <3>2, <3>3, <3>7, Zenon
  <2>6. CASE p # 0
    <3>. DEFINE P == S.pcb[p]
                Q == [P EXCEPT !.unread = P.unread - 1]
                t == [S EXCEPT !.pcb[p] = Q, !.pbufs = S.pbufs - 1]
    <3>1. p \in Pcbs /\ P.arg = n
      BY <1>2, <2>6, SaneConn, Zenon
    <3>2. P \in PcbRecord /\ PcbOK(P) /\ P.unread >= DataIn(S.conn[n].recvmbox) + Refused(P) + InHand(n, n)
      <4>1. Sane(S, n)
        BY <1>2, <2>0, Zenon
      <4>. QED
        BY <1>2, <3>1, <4>1, SanePcb, Zenon
    <3>3. P.unread - 1 \in Int /\ P.unread - 1 \in 0..RecvWindow /\ P.unread - 1 >= DataIn(C.recvmbox) + Refused(P) + 0
      <4>. DEFINE a == DataIn(C.recvmbox)
                  r == Refused(P)
                  w == P.unread
      <4>1. a \in Nat /\ r \in {0, 1} /\ w \in Int /\ w \in 0..RecvWindow /\ w >= a + r + 1
        <5>1. r \in {0, 1} /\ w \in Int
          BY <3>2, PcbFields, Zenon DEF Refused
        <5>2. w >= a + r + 1
          BY <1>2, <2>1, <3>2, Zenon
        <5>. QED
          BY <1>3, <3>2, <5>1, <5>2, Zenon DEF PcbOK
      <4>. HIDE DEF a, r, w
      <4>2. w - 1 \in Int /\ w - 1 \in 0..RecvWindow /\ w - 1 >= a + r + 0
        BY <4>1, NetconnConstants, SMT
      <4>. QED
        BY <4>2, Zenon DEF a, r, w
    <3>4. Q \in PcbRecord
      <4>. HIDE DEF P
      <4>. QED
        BY <3>2, <3>3, PcbUpdates, Zenon
    <3>5. tpcb' = [S.pcb EXCEPT ![p] = Q]
      BY <1>1, <1>10, <2>6, StackIs, Zenon
    <3>. HIDE DEF P
    <3>6. /\ Q.unread = P.unread - 1 /\ Q.arg = P.arg /\ Q.state = P.state /\ Q.refused = P.refused /\ Q.snd = P.snd
          /\ Q.pend <=> P.pend
      BY <3>2, Zenon DEF PcbRecord
    <3>. HIDE DEF Q
    <3>7. PcbTo(S, t, p, Q, S.pbufs - 1)
      <4>. HIDE DEF p, S
      <4>. QED
        BY <1>3, <2>4, <3>1, <3>4, PcbReplaced, Zenon
    <3>8. t.pcb = [S.pcb EXCEPT ![p] = Q]
      <4>. HIDE DEF p, S
      <4>. QED
        BY <1>3, Zenon DEF StackRecord
    <3>. HIDE DEF t
    <3>9. /\ t \in StackRecord /\ t.conn = S.conn /\ t.pending = S.pending /\ t.mbox = S.mbox /\ t.pbufs = S.pbufs - 1 /\ t.pcb[p] = Q
          /\ \A q \in Pcbs : q # p => t.pcb[q] = S.pcb[q]
      BY <3>7, Zenon DEF PcbTo
    <3>10. Becomes(t)
      BY <1>1, <1>10, <3>5, <3>8, <3>9, StackIs, Zenon DEF Becomes
    <3>11. PcbOK(Q) /\ Refused(Q) = Refused(P)
      BY <3>2, <3>3, <3>6, Zenon DEF PcbOK, Refused
    <3>12. Changes(S, t, p, n)
      BY <3>9, Zenon DEF Changes
    <3>13. t.pbufs = S.pbufs - DataIn(S.conn[n].recvmbox) + DataIn(t.conn[n].recvmbox) - HeldOf(n) + HeldOf(0)
      BY <2>2, <3>9, Zenon
    <3>14. p = S.conn[n].pcb /\ t.conn[n].pcb = p /\ ConnOK(t.conn[n]) /\ t.conn[n] = C
      BY <1>2, <3>9, Zenon
    <3>15. t.pcb[p].unread >= DataIn(t.conn[n].recvmbox) + Refused(t.pcb[p]) + InHand(0, n)
      BY <2>1, <3>3, <3>6, <3>9, <3>11, <3>14, Zenon
    <3>16. PcbOK(t.pcb[p]) /\ t.pcb[p].arg = n /\ t.pcb[p].refused = S.pcb[p].refused /\ (t.pcb[p].pend <=> S.pcb[p].pend)
      BY <3>1, <3>6, <3>9, <3>11, Zenon DEF P
    <3>. HIDE DEF p, C
    <3>17. Owns(S, t, n, p, n, 0)
      BY <1>2, <3>9, <3>12, <3>13, <3>14, <3>15, <3>16, Zenon DEF Owns
    <3>. QED
      BY <2>3, <3>9, <3>10, <3>17, Zenon DEF p, C
  <2>. QED
    BY <2>5, <2>6, Zenon
<1>. QED
  BY <1>9, <1>10, Zenon

\* The netconn is freed: nothing of it is left, and no callback and no mailbox names it.
LEMMA NetconnInvFree ==
  ASSUME NetconnInv, netconn_free
  PROVE  NetconnInv'
<1>. DEFINE n == app.n
            C == conn[n]
            S == Stack
            t == [S EXCEPT !.conn[n] = NoConn]
<1>1. /\ app.pc = "free" /\ app' = [app EXCEPT !.pc = "accept", !.n = 0] /\ conn' = [conn EXCEPT ![n] = NoConn]
      /\ tpcb' = tpcb /\ accepts_pending' = accepts_pending /\ acceptmbox' = acceptmbox /\ apiPbufs' = apiPbufs
  BY Zenon DEF netconn_free
<1>2. /\ n \in Conns /\ n # 0 /\ C.alive /\ C \in ConnRec /\ ConnOK(C) /\ app \in AppRecord /\ Sane(S, 0)
      /\ S.conn = conn /\ S.mbox = acceptmbox /\ app.got # "data" /\ ~Busy(C)
  BY <1>1, ThreadHas, Zenon DEF WaitPcs
<1>3. BoxOK(conn, acceptmbox, n) /\ WaitOK(conn, n, app.pc) /\ ThreadOK(conn, n, app.pc)
  BY Zenon DEF NetconnInv
<1>4. C.pcb = 0 /\ ~C.valid /\ C.recvmbox = <<>>
  <2>1. C.pcb = 0 /\ ~C.valid
    BY <1>1, <1>3, Zenon DEF ThreadOK
  <2>. QED
    BY <1>2, <2>1, Zenon DEF ConnOK
<1>5. S \in StackRecord /\ conn \in [Conns -> ConnRec] /\ S.pbufs \in Int
  <2>1. S \in StackRecord
    BY <1>2, Zenon DEF Sane
  <2>. QED
    BY <1>2, <2>1, StackFields, Zenon
<1>6. ConnTo(S, t, n, NoConn)
  <2>. HIDE DEF n, S
  <2>. QED
    BY <1>2, <1>5, NoRecords, ConnReplacedBy, Zenon
<1>7. t.conn = [conn EXCEPT ![n] = NoConn]
  <2>. HIDE DEF n, S
  <2>. QED
    BY <1>2, <1>5, Zenon DEF StackRecord
<1>. HIDE DEF t
<1>8. /\ t \in StackRecord /\ t.pcb = S.pcb /\ t.pending = S.pending /\ t.mbox = S.mbox /\ t.pbufs = S.pbufs /\ t.conn[n] = NoConn
      /\ \A m \in Conns : m # n => t.conn[m] = S.conn[m]
  BY <1>6, Zenon DEF ConnTo, OnlyConn
<1>9. ConnOK(NoConn)
  <2>1. Len(<<>>) <= DEFAULT_TCP_RECVMBOX_SIZE /\ 0 >= 0
    BY EmptyBox, NetconnConstants, SMT
  <2>. QED
    BY <2>1, NoRecords, SmallNumbers, Zenon DEF ConnOK
<1>10. Sane(t, 0)
  <2>1. t.pbufs = S.pbufs - DataIn(S.conn[n].recvmbox) + DataIn(t.conn[n].recvmbox) - HeldOf(0) + HeldOf(0)
    <3>1. DataIn(S.conn[n].recvmbox) = 0 /\ DataIn(t.conn[n].recvmbox) = 0 /\ HeldOf(0) = 0
      BY <1>2, <1>4, <1>8, NoRecords, DataInEmpty, Zenon DEF HeldOf
    <3>2. S.pbufs = S.pbufs - 0 + 0 - 0 + 0
      BY <1>5, SMT
    <3>. QED
      BY <1>8, <3>1, <3>2, Zenon
  <2>2. Changes(S, t, 0, n)
    BY <1>8, Zenon DEF Changes
  <2>3. 0 = S.conn[n].pcb /\ t.conn[n].pcb = 0 /\ ConnOK(t.conn[n])
    BY <1>2, <1>4, <1>8, <1>9, NoRecords, Zenon
  <2>4. Owns(S, t, n, 0, 0, 0)
    BY <1>2, <1>8, <2>1, <2>2, <2>3, Zenon DEF Owns
  <2>. HIDE DEF n, S
  <2>. QED
    BY <1>2, <2>4, OwnerStep, Zenon
<1>11. app' \in AppRecord /\ app'.pc = "accept" /\ app'.n = 0 /\ app'.got = app.got
  <2>1. "accept" \in AppPcs /\ 0 \in Conns \cup {0}
    BY Zenon DEF AppPcs
  <2>2. [app EXCEPT !.pc = "accept"] \in AppRecord
    BY <1>2, <2>1, AppUpdates, Zenon
  <2>3. [[app EXCEPT !.pc = "accept"] EXCEPT !.n = 0] \in AppRecord
    BY <2>1, <2>2, AppUpdates, Zenon
  <2>4. app' = [[app EXCEPT !.pc = "accept"] EXCEPT !.n = 0]
    BY <1>1, Zenon
  <2>. QED
    BY <1>2, <2>3, <2>4, Zenon DEF AppRecord
<1>12. Hand(app') = 0
  BY <1>2, <1>11, Zenon DEF Hand
<1>13. Tidy(tpcb', conn', accepts_pending', apiPbufs', Hand(app'))
  <2>1. tpcb' = t.pcb /\ conn' = t.conn /\ accepts_pending' = t.pending /\ apiPbufs' = t.pbufs
    BY <1>1, <1>7, <1>8, StackIs, Zenon
  <2>. QED
    BY <1>10, <1>12, <2>1, Zenon DEF Sane
<1>14. conn'[n] = NoConn /\ \A m \in Conns : m # n => conn'[m] = conn[m]
  BY <1>1, <1>2, <1>5, Zenon
<1>. HIDE DEF n
<1>15. BoxOK(conn', acceptmbox, 0)
  <2>1. acceptmbox \in Seq(Conns \cup {ABORTED})
    BY <1>3, Zenon DEF BoxOK
  <2>2. ASSUME NEW k \in 1..Len(acceptmbox), acceptmbox[k] # ABORTED PROVE conn'[acceptmbox[k]].alive /\ acceptmbox[k] # 0
    <3>1. conn[acceptmbox[k]].alive /\ acceptmbox[k] # n
      BY <1>3, <2>2, Zenon DEF BoxOK
    <3>2. acceptmbox[k] \in Conns
      <4>1. acceptmbox[k] \in Conns \cup {ABORTED}
        BY <2>1, ElementOfSeq, Zenon
      <4>. QED
        BY <2>2, <4>1, Zenon
    <3>3. conn'[acceptmbox[k]] = conn[acceptmbox[k]]
      BY <1>14, <3>1, <3>2, Zenon
    <3>4. acceptmbox[k] # 0
      BY <3>2, NetconnConstants, Zenon
    <3>. QED
      BY <3>1, <3>3, <3>4, Zenon
  <2>. QED
    BY <1>3, <2>2, Zenon DEF BoxOK
<1>16. WaitOK(conn', 0, "accept")
  <2>1. ~Busy(NoConn)
    BY NoRecords, SmallNumbers, Zenon DEF Busy
  <2>2. ASSUME NEW m \in Conns PROVE ~Busy(conn'[m])
    <3>1. CASE m = n
      BY <1>14, <2>1, <3>1, Zenon
    <3>2. CASE m # n
      BY <1>3, <1>14, <3>2, Zenon DEF WaitOK
    <3>. QED
      BY <3>1, <3>2, Zenon
  <2>3. "accept" \notin WaitPcs
    BY Zenon DEF WaitPcs
  <2>. QED
    BY <2>2, <2>3, Zenon DEF WaitOK
<1>17. ThreadOK(conn', 0, "accept")
  BY Zenon DEF ThreadOK
<1>. QED
  BY <1>1, <1>2, <1>11, <1>13, <1>15, <1>16, <1>17, Zenon DEF NetconnInv

\* What is left of the mailbox of the listener when its first entry is fetched.
LEMMA BoxTail ==
  ASSUME NEW cs, NEW mbox, BoxOK(cs, mbox, 0), mbox # <<>>
  PROVE  /\ Head(mbox) \in Conns \cup {ABORTED} /\ BoxOK(cs, Tail(mbox), 0)
         /\ Head(mbox) # ABORTED => cs[Head(mbox)].alive /\ BoxOK(cs, Tail(mbox), Head(mbox))
<1>. DEFINE box == Tail(mbox)
            x == Head(mbox)
<1>1. /\ mbox \in Seq(Conns \cup {ABORTED}) /\ Len(mbox) <= DEFAULT_ACCEPTMBOX_SIZE
      /\ \A k \in 1..Len(mbox) : mbox[k] # ABORTED => cs[mbox[k]].alive /\ mbox[k] # 0
      /\ \A k, j \in 1..Len(mbox) : mbox[k] = mbox[j] /\ mbox[k] # ABORTED => k = j
  BY Zenon DEF BoxOK
<1>2. /\ x \in Conns \cup {ABORTED} /\ box \in Seq(Conns \cup {ABORTED}) /\ Len(box) = Len(mbox) - 1
      /\ \A i \in 1..Len(box) : box[i] = mbox[i + 1]
  BY <1>1, HeadTailProperties, Zenon
<1>3. Len(mbox) \in Nat /\ Len(mbox) # 0 /\ x = mbox[1]
  BY <1>1, SMT
<1>. HIDE DEF box, x
<1>4. Len(box) <= DEFAULT_ACCEPTMBOX_SIZE /\ 1 \in 1..Len(mbox)
  BY <1>1, <1>2, <1>3, NetconnConstants, SMT
<1>5. ASSUME NEW k \in 1..Len(box) PROVE k + 1 \in 1..Len(mbox) /\ k + 1 # 1 /\ box[k] = mbox[k + 1]
  <2>1. k + 1 \in 1..Len(mbox) /\ k + 1 # 1
    BY <1>2, <1>3, SMT
  <2>. QED
    BY <1>2, <2>1, Zenon
<1>6. ASSUME NEW k \in 1..Len(box), box[k] # ABORTED PROVE cs[box[k]].alive /\ box[k] # 0 /\ box[k] # x
  <2>1. k + 1 \in 1..Len(mbox) /\ k + 1 # 1 /\ box[k] = mbox[k + 1]
    BY <1>5, Zenon
  <2>. QED
    BY <1>1, <1>3, <1>4, <1>6, <2>1, Zenon
<1>7. ASSUME NEW k \in 1..Len(box), NEW j \in 1..Len(box), box[k] = box[j], box[k] # ABORTED PROVE k = j
  <2>1. /\ k + 1 \in 1..Len(mbox) /\ box[k] = mbox[k + 1]
        /\ j + 1 \in 1..Len(mbox) /\ box[j] = mbox[j + 1]
    BY <1>5, Zenon
  <2>2. k + 1 = j + 1
    BY <1>1, <1>7, <2>1, Zenon
  <2>3. k \in Int /\ j \in Int
    BY SMT
  <2>. QED
    BY <2>2, <2>3, SMT
<1>8. BoxOK(cs, box, 0) /\ BoxOK(cs, box, x)
  BY <1>2, <1>4, <1>6, <1>7, Zenon DEF BoxOK
<1>9. x # ABORTED => cs[x].alive
  BY <1>1, <1>3, <1>4, Zenon
<1>. QED
  BY <1>2, <1>8, <1>9, Zenon DEF box, x

LEMMA NetconnInvAcceptFetch ==
  ASSUME NetconnInv, AcceptFetch
  PROVE  NetconnInv'
<1>. DEFINE x == Head(acceptmbox)
<1>1. /\ app.pc = "accept" /\ acceptmbox # <<>> /\ acceptmbox' = Tail(acceptmbox)
      /\ app' = IF x = ABORTED THEN app ELSE [app EXCEPT !.pc = "accepted", !.n = x]
      /\ tpcb' = tpcb /\ conn' = conn /\ accepts_pending' = accepts_pending /\ apiPbufs' = apiPbufs
  BY Zenon DEF AcceptFetch
<1>2. /\ app \in AppRecord /\ (app.got = "data" => app.pc = "recved")
      /\ Tidy(tpcb, conn, accepts_pending, apiPbufs, Hand(app))
      /\ BoxOK(conn, acceptmbox, app.n) /\ WaitOK(conn, app.n, app.pc) /\ ThreadOK(conn, app.n, app.pc)
  BY Zenon DEF NetconnInv
<1>3. app.n = 0 /\ app.got # "data" /\ Hand(app) = 0
  BY <1>1, <1>2, Zenon DEF ThreadOK, Hand
<1>4. /\ x \in Conns \cup {ABORTED} /\ BoxOK(conn, Tail(acceptmbox), 0)
      /\ x # ABORTED => conn[x].alive /\ BoxOK(conn, Tail(acceptmbox), x)
  <2>1. BoxOK(conn, acceptmbox, 0)
    BY <1>2, <1>3, Zenon
  <2>. QED
    BY <1>1, <2>1, BoxTail, Zenon
<1>. HIDE DEF x
<1>5. CASE x = ABORTED
  <2>1. app' = app /\ BoxOK(conn, acceptmbox', app.n)
    BY <1>1, <1>3, <1>4, <1>5, Zenon
  <2>. QED
    BY <1>1, <1>2, <2>1, Zenon DEF NetconnInv
<1>6. CASE x # ABORTED
  <2>1. x \in Conns /\ x # 0
    BY <1>4, <1>6, NetconnConstants, Zenon
  <2>2. app' \in AppRecord /\ app'.pc = "accepted" /\ app'.n = x /\ app'.got = app.got
    <3>1. "accepted" \in AppPcs /\ x \in Conns \cup {0}
      BY <2>1, Zenon DEF AppPcs
    <3>2. [app EXCEPT !.pc = "accepted"] \in AppRecord
      BY <1>2, <3>1, AppUpdates, Zenon
    <3>3. [[app EXCEPT !.pc = "accepted"] EXCEPT !.n = x] \in AppRecord
      BY <3>1, <3>2, AppUpdates, Zenon
    <3>4. app' = [[app EXCEPT !.pc = "accepted"] EXCEPT !.n = x]
      BY <1>1, <1>6, Zenon
    <3>. QED
      BY <1>2, <3>3, <3>4, Zenon DEF AppRecord
  <2>3. Hand(app') = 0
    BY <1>3, <2>2, Zenon DEF Hand
  <2>4. WaitOK(conn, x, "accepted")
    <3>1. \A m \in Conns : ~Busy(conn[m])
      BY <1>2, <1>3, NetconnConstants, Zenon DEF WaitOK
    <3>2. "accepted" \notin WaitPcs
      BY Zenon DEF WaitPcs
    <3>. QED
      BY <3>1, <3>2, Zenon DEF WaitOK
  <2>5. ThreadOK(conn, x, "accepted")
    BY <1>4, <1>6, <2>1, Zenon DEF ThreadOK
  <2>6. BoxOK(conn, acceptmbox', x)
    BY <1>1, <1>4, <1>6, Zenon
  <2>. QED
    BY <1>1, <1>2, <1>3, <2>2, <2>3, <2>4, <2>5, <2>6, Zenon DEF NetconnInv
<1>. QED
  BY <1>5, <1>6, Zenon

LEMMA NetconnInvInit == NetconnInit => NetconnInv
<1>. SUFFICES ASSUME NetconnInit PROVE NetconnInv
  BY Zenon
<1>1. /\ tpcb = [p \in Pcbs |-> NoPcb] /\ conn = [n \in Conns |-> NoConn]
      /\ accepts_pending = 0 /\ acceptmbox = <<>> /\ apiPbufs = 0
      /\ app = [pc |-> "accept", n |-> 0, got |-> "none"]
  BY Zenon DEF NetconnInit
<1>2. /\ tpcb \in [Pcbs -> PcbRecord] /\ (\A p \in Pcbs : tpcb[p] = NoPcb)
      /\ conn \in [Conns -> ConnRec] /\ (\A n \in Conns : conn[n] = NoConn)
  BY <1>1, NoRecords, Zenon
<1>3. app \in AppRecord /\ app.pc = "accept" /\ app.n = 0 /\ app.got = "none"
  <2>1. "accept" \in AppPcs /\ 0 \in Conns \cup {0} /\ "none" \in {"none", "data", "NULL"}
    BY Zenon DEF AppPcs
  <2>. QED
    BY <1>1, <2>1, Zenon DEF AppRecord
<1>4. Hand(app) = 0
  BY <1>3, Zenon DEF Hand
<1>5. Pending(tpcb) = {} /\ Refusing(tpcb) = {}
  BY <1>2, NoRecords, Zenon DEF Pending, Refusing
<1>6. Boxed(conn) = {}
  <2>1. ASSUME NEW x \in Conns \X (1..DEFAULT_TCP_RECVMBOX_SIZE), x[2] <= Len(conn[x[1]].recvmbox) PROVE FALSE
    <3>1. x[1] \in Conns /\ x[2] \in 1..DEFAULT_TCP_RECVMBOX_SIZE
      BY SMT
    <3>2. conn[x[1]].recvmbox = <<>>
      BY <1>2, <3>1, NoRecords, Zenon
    <3>3. x[2] <= 0
      BY <2>1, <3>2, EmptyBox, Zenon
    <3>. QED
      BY <3>1, <3>3, NetconnConstants, SMT
  <2>. QED
    BY <2>1, Zenon DEF Boxed
<1>7. Counts(tpcb, conn, accepts_pending, apiPbufs, 0)
  <2>1. Cardinality(Pending(tpcb)) = 0 /\ Cardinality(Refusing(tpcb)) = 0 /\ Cardinality(Boxed(conn)) = 0
    BY <1>5, <1>6, FS_EmptySet, Zenon
  <2>2. 0 = 0 + 0 + 0
    BY SMT
  <2>. QED
    BY <1>1, <2>1, <2>2, Zenon DEF Counts
<1>8. Joined(tpcb, conn, 0)
  BY <1>2, NoRecords, Zenon DEF Joined
<1>9. ConnOK(NoConn) /\ PcbOK(NoPcb)
  <2>1. Len(<<>>) <= DEFAULT_TCP_RECVMBOX_SIZE /\ 0 >= 0
    BY EmptyBox, NetconnConstants, SMT
  <2>. QED
    BY <2>1, NoPcbOK, NoRecords, SmallNumbers, Zenon DEF ConnOK
<1>10. Tidy(tpcb, conn, accepts_pending, apiPbufs, 0)
  BY <1>2, <1>7, <1>8, <1>9, Zenon DEF Tidy
<1>11. BoxOK(conn, acceptmbox, 0)
  <2>1. <<>> \in Seq(Conns \cup {ABORTED}) /\ Len(<<>>) <= DEFAULT_ACCEPTMBOX_SIZE /\ 1..Len(<<>>) = {}
    BY EmptyBox, NetconnConstants, SMT
  <2>. QED
    BY <1>1, <2>1, Zenon DEF BoxOK
<1>12. WaitOK(conn, 0, "accept")
  <2>1. ~Busy(NoConn) /\ "accept" \notin WaitPcs
    BY NoRecords, SmallNumbers, Zenon DEF Busy, WaitPcs
  <2>. QED
    BY <1>2, <2>1, Zenon DEF WaitOK
<1>13. ThreadOK(conn, 0, "accept")
  BY Zenon DEF ThreadOK
<1>. QED
  BY <1>3, <1>4, <1>10, <1>11, <1>12, <1>13, Zenon DEF NetconnInv

LEMMA NetconnInvNext ==
  ASSUME NetconnInv, [NetconnNext]_apiVars
  PROVE  NetconnInv'
<1>1. CASE AppReady
  BY <1>1, NetconnInvAcceptFetch, NetconnInvAcceptDone, NetconnInvRecvFetch, NetconnInvRecvDone, NetconnInvClose,
     NetconnInvFree, NetconnInvWaitOver, Zenon DEF AppReady
<1>2. CASE netconn_write \/ netconn_recv \/ Syn
  BY <1>2, NetconnInvWrite, NetconnInvRecv, NetconnInvSyn, Zenon
<1>3. CASE StackEvent
  BY <1>3, NetconnInvEstablished, NetconnInvData, NetconnInvFin, NetconnInvReset, Zenon DEF StackEvent
<1>4. CASE StackWork
  BY <1>4, NetconnInvFastTmr, NetconnInvAcked, NetconnInvPoll, Zenon DEF StackWork
<1>5. CASE UNCHANGED apiVars
  <2>1. /\ app' = app /\ tpcb' = tpcb /\ conn' = conn /\ accepts_pending' = accepts_pending /\ acceptmbox' = acceptmbox
        /\ apiPbufs' = apiPbufs
    BY <1>5, Zenon DEF apiVars
  <2>. QED
    BY <2>1, Zenon DEF NetconnInv
<1>. QED
  BY <1>1, <1>2, <1>3, <1>4, <1>5, Zenon DEF NetconnNext

\* The inductive invariant says what the netconns promise.
LEMMA NetconnInvSound == NetconnInv => NetconnSound
<1>. SUFFICES ASSUME NetconnInv PROVE NetconnSound
  BY Zenon
<1>1. /\ app \in AppRecord /\ (app.got = "data" => app.pc = "recved")
      /\ Tidy(tpcb, conn, accepts_pending, apiPbufs, Hand(app))
      /\ BoxOK(conn, acceptmbox, app.n) /\ WaitOK(conn, app.n, app.pc) /\ ThreadOK(conn, app.n, app.pc)
  BY Zenon DEF NetconnInv
<1>2. /\ tpcb \in [Pcbs -> PcbRecord] /\ conn \in [Conns -> ConnRec]
      /\ \A p \in Pcbs : PcbOK(tpcb[p]) /\ tpcb[p] \in PcbRecord
      /\ \A n \in Conns : ConnOK(conn[n]) /\ conn[n] \in ConnRec
      /\ Joined(tpcb, conn, Hand(app)) /\ Counts(tpcb, conn, accepts_pending, apiPbufs, Hand(app))
  BY <1>1, Zenon DEF Tidy
<1>3. NetconnTypeOK
  <2>1. ASSUME NEW p \in Pcbs PROVE tpcb[p].arg \in 0..MEMP_NUM_NETCONN /\ tpcb[p].unread \in 0..RecvWindow /\ tpcb[p].snd \in 0..SndBuf
    <3>1. tpcb[p].arg \in Conns \cup {0}
      BY <1>2, PcbFields, Zenon
    <3>2. tpcb[p].arg \in 0..MEMP_NUM_NETCONN
      BY <3>1, NetconnConstants, SMT DEF Conns
    <3>. QED
      BY <1>2, <3>2, Zenon DEF PcbOK
  <2>2. ASSUME NEW n \in Conns
        PROVE  conn[n].pcb \in 0..MEMP_NUM_TCP_PCB /\ conn[n].sem \in 0..1 /\ Len(conn[n].recvmbox) <= DEFAULT_TCP_RECVMBOX_SIZE
    <3>1. conn[n].pcb \in Pcbs \cup {0}
      BY <1>2, NetconnFields, Zenon
    <3>2. conn[n].pcb \in 0..MEMP_NUM_TCP_PCB
      BY <3>1, NetconnConstants, SMT DEF Pcbs
    <3>. QED
      BY <1>2, <3>2, Zenon DEF ConnOK
  <2>3. Len(acceptmbox) <= DEFAULT_ACCEPTMBOX_SIZE /\ apiPbufs \in Nat
    BY <1>1, CountsInt, Zenon DEF BoxOK
  <2>. QED
    BY <2>1, <2>2, <2>3, Zenon DEF NetconnTypeOK
<1>4. CallbacksHaveTarget
  <2>1. ASSUME NEW p \in Pcbs, tpcb[p].arg # 0 PROVE conn[tpcb[p].arg].alive /\ conn[tpcb[p].arg].pcb = p
    <3>1. conn[tpcb[p].arg].pcb = p
      BY <1>2, <2>1, Zenon DEF Joined
    <3>2. tpcb[p].arg \in Conns /\ p # 0
      BY <1>2, <2>1, PcbFields, NetconnConstants, Zenon
    <3>. QED
      BY <1>2, <3>1, <3>2, Zenon DEF ConnOK
  <2>2. ASSUME NEW n \in Conns, conn[n].pcb # 0 PROVE conn[n].alive /\ tpcb[conn[n].pcb].arg = n
    <3>1. conn[n].alive
      BY <1>2, <2>2, Zenon DEF ConnOK
    <3>. QED
      BY <1>2, <2>2, <3>1, Zenon DEF Joined
  <2>. QED
    BY <2>1, <2>2, Zenon DEF CallbacksHaveTarget
<1>5. SignalsMatchWaits
  <2>1. ASSUME NEW n \in Conns
        PROVE  /\ conn[n].sem = 1 => app.n = n /\ app.pc \in WaitPcs
               /\ app.n = n /\ app.pc \in WaitPcs => (conn[n].sem = 1) # (conn[n].msg # "NULL")
    <3>1. Busy(conn[n]) <=> (n = app.n /\ app.pc \in WaitPcs)
      BY <1>1, Zenon DEF WaitOK
    <3>2. conn[n].msg # "NULL" => conn[n].sem = 0
      BY <1>2, Zenon DEF ConnOK
    <3>3. conn[n].msg # "NULL" => ~(conn[n].sem = 1)
      BY <3>2, SmallNumbers, Zenon
    <3>4. (conn[n].sem = 1 \/ conn[n].msg # "NULL") <=> (n = app.n /\ app.pc \in WaitPcs)
      BY <3>1, Zenon DEF Busy
    <3>. QED
      BY <3>3, <3>4, Zenon
  <2>. QED
    BY <2>1, Zenon DEF SignalsMatchWaits, WaitPcs
<1>6. BacklogInSync
  BY <1>2, Zenon DEF BacklogInSync, Counts, Pending
<1>7. PbufsInReach
  <2>. DEFINE inMbox(n) == {k \in DOMAIN conn[n].recvmbox : conn[n].recvmbox[k] = "data"}
              here == {x \in Conns \X (1..DEFAULT_TCP_RECVMBOX_SIZE) : x[2] \in inMbox(x[1])}
  <2>1. ASSUME NEW x \in Conns \X (1..DEFAULT_TCP_RECVMBOX_SIZE)
        PROVE  x[2] \in inMbox(x[1]) <=> (x[2] <= Len(conn[x[1]].recvmbox) /\ conn[x[1]].recvmbox[x[2]] = "data")
    <3>. DEFINE n == x[1]
                k == x[2]
                box == conn[n].recvmbox
    <3>1. n \in Conns /\ k \in 1..DEFAULT_TCP_RECVMBOX_SIZE
      BY SMT
    <3>2. box \in Seq({"data", "NULL"})
      BY <1>2, <3>1, NetconnFields, Zenon
    <3>3. DOMAIN box = 1..Len(box) /\ Len(box) \in Nat
      BY <3>2, LenProperties, Zenon
    <3>. HIDE DEF n, k, box
    <3>4. k \in DOMAIN box <=> k <= Len(box)
      BY <3>1, <3>3, NetconnConstants, SMT
    <3>. QED
      BY <3>4, Zenon DEF n, k, box
  <2>2. here = Boxed(conn)
    <3>. HIDE DEF inMbox
    <3>. QED
      BY <2>1, Zenon DEF Boxed
  <2>3. (IF app.got = "data" THEN 1 ELSE 0) = (IF Hand(app) = 0 THEN 0 ELSE 1)
    <3>1. app.got = "data" => app.n # 0
      BY <1>1, Zenon DEF ThreadOK
    <3>. QED
      BY <3>1, Zenon DEF Hand
  <2>4. apiPbufs = Cardinality(Boxed(conn)) + Cardinality(Refusing(tpcb)) + (IF app.got = "data" THEN 1 ELSE 0)
    BY <1>2, <2>3, Zenon DEF Counts
  <2>5. apiPbufs = Cardinality(here) + Cardinality({p \in Pcbs : tpcb[p].refused # "none"}) + (IF app.got = "data" THEN 1 ELSE 0)
    <3>. HIDE DEF here
    <3>. QED
      BY <2>2, <2>4, Zenon DEF Refusing
  <2>. QED
    BY <2>5, Zenon DEF PbufsInReach
<1>. QED
  BY <1>3, <1>4, <1>5, <1>6, <1>7, Zenon DEF NetconnSound

\* The callbacks of api_msg.c never reach a netconn that is gone or another's, every wait of the thread is for an
\* operation in progress or has its signal, the backlog counter is exact and no pbuf is lost or freed twice: for
\* every number of pcbs and netconns, every mailbox, buffer and window, however peer, timers and thread interleave.
THEOREM NetconnIsSound == NetconnSpec => []NetconnSound
<1>1. NetconnInit => NetconnInv
  BY NetconnInvInit
<1>2. NetconnInv /\ [NetconnNext]_apiVars => NetconnInv'
  BY NetconnInvNext
<1>3. NetconnInv => NetconnSound
  BY NetconnInvSound
<1>. QED
  BY <1>1, <1>2, <1>3, PTL DEF NetconnSpec
=============================================================================
