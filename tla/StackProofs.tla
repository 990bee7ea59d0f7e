---------------------------- MODULE StackProofs -----------------------------
(***************************************************************************)
(* Proofs about the tables and the memory of the stack: the UDP control    *)
(* blocks of udp.c, for every number of blocks, addresses and ports, and   *)
(* the heap of mem.c, for every size of the heap, of its headers and of    *)
(* the blocks that are asked for; and about select of sockets.c, for every *)
(* number of sockets, of connections and of threads that wait in it.       *)
(***************************************************************************)
EXTENDS UdpPcbs, Heap, Sockets, FiniteSetTheorems, SequenceTheorems, TLAPS

-----------------------------------------------------------------------------
(* Numbers and sequences.                                                  *)

\* A set of numbers has a least element, which FirstOf chooses.
LEMMA FirstOfIsLeast ==
  ASSUME NEW S \in SUBSET Nat, S # {}
  PROVE  FirstOf(S) \in S /\ \A m \in S : FirstOf(S) <= m
<1>1. PICK x \in S : \A y \in S : ~(<<y, x>> \in OpToRel(<, Nat))
  BY NatLessThanWellFounded, WFMin
<1>2. \A y \in S : <<y, x>> \in OpToRel(<, Nat) <=> y < x
  BY DEF OpToRel
<1>3. \A y \in S : ~(y < x)
  BY <1>1, <1>2, Zenon
<1>4. \A y \in S : y \in Nat /\ x \in Nat
  OBVIOUS
<1>5. \A y \in S : x <= y
  BY <1>3, <1>4
<1>. QED
  BY <1>5, Zenon DEF FirstOf

\* No element occurs twice.
Distinct(s) == \A m, n \in 1..Len(s) : s[m] = s[n] => m = n

\* The elements of a sequence.
Elements(s) == {s[n] : n \in 1..Len(s)}

\* What removing the element at position n leaves where.
LEMMA RemovedAt ==
  ASSUME NEW T, NEW s \in Seq(T), NEW n \in 1..Len(s)
  PROVE  /\ RemoveAt(s, n) \in Seq(T)
         /\ Len(RemoveAt(s, n)) = Len(s) - 1
         /\ \A k \in 1..(Len(s) - 1) : RemoveAt(s, n)[k] = IF k < n THEN s[k] ELSE s[k + 1]
<1>. DEFINE a == SubSeq(s, 1, n - 1)
            b == SubSeq(s, n + 1, Len(s))
<1>1. Len(s) \in Nat /\ n \in Nat /\ n >= 1 /\ n <= Len(s)
  OBVIOUS
<1>2. a \in Seq(T) /\ Len(a) = n - 1 /\ \A k \in 1..(n - 1) : a[k] = s[k]
  BY <1>1
<1>3. b \in Seq(T) /\ Len(b) = Len(s) - n /\ \A k \in 1..(Len(s) - n) : b[k] = s[n + k]
  BY <1>1
<1>4. RemoveAt(s, n) = a \o b
  BY DEF RemoveAt
<1>. HIDE DEF a, b
<1>5. a \o b \in Seq(T) /\ Len(a \o b) = Len(s) - 1
  <2>1. a \o b \in Seq(T) /\ Len(a \o b) = Len(a) + Len(b)
    BY <1>2, <1>3, ConcatProperties
  <2>. QED
    BY <1>1, <1>2, <1>3, <2>1
<1>6. ASSUME NEW k \in 1..(Len(s) - 1)
      PROVE  (a \o b)[k] = IF k < n THEN s[k] ELSE s[k + 1]
  <2>1. CASE k < n
    BY <1>1, <1>2, <1>3, <2>1
  <2>2. CASE ~(k < n)
    <3>1. (a \o b)[k] = b[k - (n - 1)]
      BY <1>1, <1>2, <1>3, <2>2
    <3>2. k - (n - 1) \in 1..(Len(s) - n) /\ n + (k - (n - 1)) = k + 1
      BY <1>1, <2>2
    <3>. QED
      BY <1>3, <2>2, <3>1, <3>2
  <2>. QED
    BY <2>1, <2>2
<1>. QED
  BY <1>4, <1>5, <1>6

\* Of distinct elements exactly the removed one is gone.
LEMMA RemovedIsGone ==
  ASSUME NEW T, NEW s \in Seq(T), Distinct(s), NEW n \in 1..Len(s)
  PROVE  /\ Distinct(RemoveAt(s, n))
         /\ Elements(RemoveAt(s, n)) = Elements(s) \ {s[n]}
<1>. DEFINE q == RemoveAt(s, n)
            at(k) == IF k < n THEN k ELSE k + 1
<1>1. /\ Len(s) \in Nat /\ n \in Nat /\ n >= 1 /\ n <= Len(s)
      /\ Len(q) = Len(s) - 1
      /\ \A k \in 1..Len(q) : q[k] = s[at(k)]
  <2>1. Len(s) \in Nat /\ n \in Nat /\ n >= 1 /\ n <= Len(s)
    OBVIOUS
  <2>2. /\ Len(q) = Len(s) - 1
        /\ \A k \in 1..(Len(s) - 1) : q[k] = IF k < n THEN s[k] ELSE s[k + 1]
    BY RemovedAt
  <2>. HIDE DEF q
  <2>3. \A k \in 1..Len(q) : q[k] = s[at(k)]
    BY <2>2, Zenon
  <2>. QED
    BY <2>1, <2>2, <2>3
<1>. HIDE DEF q
<1>2. \A k \in 1..Len(q) : at(k) \in 1..Len(s) /\ at(k) # n
  BY <1>1
<1>3. \A j, k \in 1..Len(q) : at(j) = at(k) => j = k
  BY <1>1
<1>4. \A m \in 1..Len(s) : m # n => \E k \in 1..Len(q) : at(k) = m
  <2>. SUFFICES ASSUME NEW m \in 1..Len(s), m # n
                PROVE  \E k \in 1..Len(q) : at(k) = m
    OBVIOUS
  <2>1. CASE m < n
    <3>1. m \in 1..Len(q) /\ at(m) = m
      BY <1>1, <2>1
    <3>. QED
      BY <3>1
  <2>2. CASE m > n
    <3>1. m - 1 \in 1..Len(q) /\ at(m - 1) = m
      BY <1>1, <2>2
    <3>. QED
      BY <3>1
  <2>. QED
    BY <1>1, <2>1, <2>2
<1>. HIDE DEF at
<1>5. Distinct(q)
  <2>. SUFFICES ASSUME NEW j \in 1..Len(q), NEW k \in 1..Len(q), q[j] = q[k]
                PROVE  j = k
    BY DEF Distinct
  <2>1. s[at(j)] = s[at(k)]
    BY <1>1
  <2>2. at(j) = at(k)
    BY <1>2, <2>1 DEF Distinct
  <2>. QED
    BY <1>3, <2>2
<1>6. Elements(q) \subseteq Elements(s) \ {s[n]}
  <2>. SUFFICES ASSUME NEW k \in 1..Len(q)
                PROVE  q[k] \in Elements(s) \ {s[n]}
    BY DEF Elements
  <2>1. q[k] = s[at(k)] /\ at(k) \in 1..Len(s) /\ at(k) # n
    BY <1>1, <1>2
  <2>2. s[at(k)] # s[n]
    BY <2>1 DEF Distinct
  <2>. QED
    BY <2>1, <2>2 DEF Elements
<1>7. Elements(s) \ {s[n]} \subseteq Elements(q)
  <2>. SUFFICES ASSUME NEW m \in 1..Len(s), s[m] # s[n]
                PROVE  s[m] \in Elements(q)
    BY DEF Elements
  <2>1. PICK k \in 1..Len(q) : at(k) = m
    BY <1>4
  <2>. QED
    BY <1>1, <2>1 DEF Elements
<1>. QED
  BY <1>5, <1>6, <1>7 DEF q

\* A new element in front.
LEMMA PutInFront ==
  ASSUME NEW T, NEW s \in Seq(T), NEW e \in T, Distinct(s), e \notin Elements(s)
  PROVE  /\ <<e>> \o s \in Seq(T)
         /\ Distinct(<<e>> \o s)
         /\ Elements(<<e>> \o s) = Elements(s) \cup {e}
<1>. DEFINE q == <<e>> \o s
<1>1. /\ q \in Seq(T) /\ Len(s) \in Nat /\ Len(q) = Len(s) + 1
      /\ q[1] = e
      /\ \A k \in 2..Len(q) : q[k] = s[k - 1]
  OBVIOUS
<1>. HIDE DEF q
<1>2. Distinct(q)
  <2>. SUFFICES ASSUME NEW j \in 1..Len(q), NEW k \in 1..Len(q), q[j] = q[k]
                PROVE  j = k
    BY DEF Distinct
  <2>1. \A m \in 2..Len(q) : m - 1 \in 1..Len(s) /\ q[m] = s[m - 1]
    BY <1>1
  <2>2. \A m \in 2..Len(q) : q[m] \in Elements(s)
    BY <2>1 DEF Elements
  <2>3. CASE j = 1 \/ k = 1
    <3>1. j = 1 \/ j \in 2..Len(q)
      BY <1>1
    <3>2. k = 1 \/ k \in 2..Len(q)
      BY <1>1
    <3>. QED
      BY <1>1, <2>2, <2>3, <3>1, <3>2
  <2>4. CASE j # 1 /\ k # 1
    <3>1. j \in 2..Len(q) /\ k \in 2..Len(q)
      BY <1>1, <2>4
    <3>2. s[j - 1] = s[k - 1] /\ j - 1 \in 1..Len(s) /\ k - 1 \in 1..Len(s)
      BY <2>1, <3>1
    <3>3. j - 1 = k - 1
      BY <3>2 DEF Distinct
    <3>. QED
      BY <3>1, <3>3
  <2>. QED
    BY <2>3, <2>4
<1>3. Elements(q) \subseteq Elements(s) \cup {e}
  <2>. SUFFICES ASSUME NEW k \in 1..Len(q)
                PROVE  q[k] \in Elements(s) \cup {e}
    BY DEF Elements
  <2>1. k = 1 \/ (k \in 2..Len(q) /\ k - 1 \in 1..Len(s))
    BY <1>1
  <2>. QED
    BY <1>1, <2>1 DEF Elements
<1>4. Elements(s) \cup {e} \subseteq Elements(q)
  <2>1. e \in Elements(q)
    <3>1. 1 \in 1..Len(q)
      BY <1>1
    <3>. QED
      BY <1>1, <3>1 DEF Elements
  <2>2. ASSUME NEW m \in 1..Len(s)
        PROVE  s[m] \in Elements(q)
    <3>1. m + 1 \in 2..Len(q) /\ m + 1 \in 1..Len(q) /\ (m + 1) - 1 = m
      BY <1>1
    <3>2. q[m + 1] = s[m]
      BY <1>1, <3>1
    <3>. QED
      BY <3>1, <3>2 DEF Elements
  <2>. QED
    BY <2>1, <2>2 DEF Elements
<1>. QED
  BY <1>1, <1>2, <1>3, <1>4 DEF q

\* Distinct elements are as many as the sequence is long.
LEMMA DistinctCount ==
  ASSUME NEW T, NEW s \in Seq(T), Distinct(s)
  PROVE  Cardinality(Elements(s)) = Len(s)
<1>. DEFINE n == Len(s)
            f == [k \in 1..n |-> s[k]]
<1>1. n \in Nat
  OBVIOUS
<1>2. f \in [1..n -> Elements(s)]
  BY DEF Elements
<1>3. f \in Injection(1..n, Elements(s))
  BY <1>2 DEF Injection, IsInjective, Distinct
<1>4. f \in Surjection(1..n, Elements(s))
  BY <1>2 DEF Surjection, Elements
<1>5. ExistsBijection(1..n, Elements(s))
  BY <1>3, <1>4 DEF ExistsBijection, Bijection
<1>. QED
  BY <1>1, <1>5, FS_CountingElements

-----------------------------------------------------------------------------
(* The UDP control blocks.  The list has to hold each bound block once for *)
(* a search of it to mean anything, and a block is connected exactly when  *)
(* it has a remote port: that is what tells a datagram for a connected     *)
(* block from one for an open block.                                       *)

LocalPorts == {0} \cup FixedPorts \cup (RANGE_START..RANGE_END)

Blocks == [used : BOOLEAN, local_ip : LocalAddrs \cup {AnyAddr}, local_port : LocalPorts,
           remote_ip : RemoteAddrs \cup {AnyAddr}, remote_port : RemotePorts \cup {0}, connected : BOOLEAN]

ConnectedOK(r) == r.connected <=> r.remote_port # 0

\* Blocks i and j have the same address and port.
SameAddress(b, i, j) == b[i].local_port = b[j].local_port /\ b[i].local_ip = b[j].local_ip

Bound(b) == {i \in PcbIds : b[i].used /\ b[i].local_port # 0}

PcbsInv ==
  /\ upcb \in [PcbIds -> Blocks]
  /\ \A i \in PcbIds : ConnectedOK(upcb[i])
  /\ udp_pcbs \in Seq(PcbIds) /\ Distinct(udp_pcbs)
  /\ Listed = Bound(upcb)
  /\ readdressed \/ \A i, j \in Listed : i # j => ~SameAddress(upcb, i, j)
  /\ udp_port \in RANGE_START..RANGE_END /\ netifIp \in LocalAddrs /\ readdressed \in BOOLEAN

\* A block that nobody uses.
LEMMA FreePcbIsBlock ==
  FreePcb \in Blocks /\ ~FreePcb.used /\ FreePcb.local_port = 0 /\ ConnectedOK(FreePcb)
  BY DEF FreePcb, Blocks, LocalPorts, ConnectedOK

\* The list is empty and all blocks are free.
LEMMA PcbsInvInit == UdpPcbsInit => PcbsInv
<1>. SUFFICES ASSUME UdpPcbsInit PROVE PcbsInv
  OBVIOUS
<1>1. \A i \in PcbIds : upcb[i] = FreePcb
  BY DEF UdpPcbsInit
<1>2. upcb \in [PcbIds -> Blocks] /\ \A i \in PcbIds : ConnectedOK(upcb[i])
  BY <1>1, FreePcbIsBlock DEF UdpPcbsInit
<1>3. Bound(upcb) = {}
  BY <1>1, FreePcbIsBlock DEF Bound
<1>4. udp_pcbs = <<>> /\ Listed = {} /\ Distinct(udp_pcbs) /\ udp_pcbs \in Seq(PcbIds)
  BY DEF UdpPcbsInit, Listed, Distinct
<1>. QED
  BY <1>2, <1>3, <1>4 DEF PcbsInv, UdpPcbsInit

\* Counting past the end of the range goes on at its start.
LEMMA InRangeInRange ==
  ASSUME NEW p \in Int
  PROVE  InRange(p) \in RANGE_START..RANGE_END
<1>. DEFINE N == RANGE_END - RANGE_START + 1
            x == (p - RANGE_START) % (RANGE_END - RANGE_START + 1)
<1>1. RANGE_START \in Nat /\ RANGE_END \in Nat /\ RANGE_START <= RANGE_END
  BY UdpPcbsAssumption
<1>2. (RANGE_END - RANGE_START + 1) \in Nat /\ (RANGE_END - RANGE_START + 1) > 0
  BY <1>1
<1>3. x \in 0..((RANGE_END - RANGE_START + 1) - 1)
  BY <1>1, <1>2, Z3
<1>4. InRange(p) = RANGE_START + x
  BY DEF InRange
<1>. HIDE DEF x
<1>. QED
  BY <1>1, <1>3, <1>4

\* The search of udp_new_port comes past every port of the range.
LEMMA EveryPortIsTried ==
  ASSUME NEW u \in RANGE_START..RANGE_END, NEW p \in RANGE_START..RANGE_END
  PROVE  \E k \in PortTries : InRange(u + k) = p
<1>1. RANGE_START \in Nat /\ RANGE_END \in Nat /\ RANGE_START <= RANGE_END /\ p \in Nat /\ u \in Nat
  BY UdpPcbsAssumption
<1>. DEFINE N == (RANGE_END - RANGE_START) + 1
            y == p - RANGE_START
            k == IF p > u THEN p - u ELSE (p - u) + N
<1>2. N \in Nat /\ N > 0 /\ y \in Nat /\ y < N
  BY <1>1
<1>3. k \in 1..N
  BY <1>1
<1>4. (u + k) - RANGE_START = y \/ (u + k) - RANGE_START = y + N
  BY <1>1
<1>5. InRange(u + k) = RANGE_START + (((u + k) - RANGE_START) % N)
  BY DEF InRange
<1>6. y % N = y /\ (y + N) % N = y
  <2>. HIDE DEF y, N
  <2>. QED
    BY <1>2, Z3
<1>7. ((u + k) - RANGE_START) % N = y
  <2>. HIDE DEF y, N, k
  <2>. QED
    BY <1>4, <1>6
<1>8. InRange(u + k) = p
  <2>1. RANGE_START + y = p
    BY <1>1
  <2>. HIDE DEF y, N, k
  <2>. QED
    BY <1>5, <1>7, <2>1, Zenon
<1>9. PortTries = 1..N
  BY DEF PortTries
<1>. QED
  BY <1>3, <1>8, <1>9

\* udp_new_port finds a port of the range that no block of the list has, or every port of the range
\* is taken.
LEMMA NewPortIsFree ==
  ASSUME udp_port \in RANGE_START..RANGE_END
  PROVE  /\ udp_new_port = 0 => \A p \in RANGE_START..RANGE_END : PortTaken(p)
         /\ udp_new_port # 0 => udp_new_port \in RANGE_START..RANGE_END /\ ~PortTaken(udp_new_port)
<1>. DEFINE free == {k \in PortTries : ~PortTaken(InRange(udp_port + k))}
            first == CHOOSE k \in free : \A m \in free : k <= m
<1>1. RANGE_START \in Nat \ {0} /\ RANGE_END \in Nat /\ udp_port \in Nat
  BY UdpPcbsAssumption
<1>2. PortTries \subseteq Nat
  BY <1>1 DEF PortTries
<1>3. free \in SUBSET Nat
  BY <1>2
<1>4. udp_new_port = IF free = {} THEN 0 ELSE InRange(udp_port + first)
  BY DEF udp_new_port
<1>5. CASE free = {}
  <2>1. \A k \in PortTries : PortTaken(InRange(udp_port + k))
    BY <1>5
  <2>2. \A p \in RANGE_START..RANGE_END : PortTaken(p)
    BY <2>1, EveryPortIsTried
  <2>. QED
    BY <1>4, <1>5, <2>2
<1>6. CASE free # {}
  <2>1. first = FirstOf(free)
    BY DEF FirstOf
  <2>2. FirstOf(free) \in free
    BY <1>3, <1>6, FirstOfIsLeast
  <2>3. first \in PortTries /\ ~PortTaken(InRange(udp_port + first))
    BY <2>1, <2>2
  <2>. HIDE DEF free, first
  <2>4. udp_port + first \in Int
    BY <1>1, <1>2, <2>3
  <2>5. InRange(udp_port + first) \in RANGE_START..RANGE_END
    BY <2>4, InRangeInRange
  <2>6. InRange(udp_port + first) # 0
    BY <1>1, <2>5
  <2>. QED
    BY <1>4, <1>6, <2>3, <2>5, <2>6
<1>. QED
  BY <1>5, <1>6

\* Block i is put into the list, or is in it, with an address and port that no other block has.
LEMMA LinkKeepsInv ==
  ASSUME PcbsInv, NEW i \in PcbIds, NEW q \in Blocks, q.used, q.local_port # 0, ConnectedOK(q),
         \/ readdressed
         \/ \A j \in Listed \ {i} : ~(upcb[j].local_port = q.local_port /\ upcb[j].local_ip = q.local_ip),
         upcb' = [upcb EXCEPT ![i] = q], udp_pcbs' = Linked(i),
         udp_port' \in RANGE_START..RANGE_END, SameNetif
  PROVE  PcbsInv'
<1>1. upcb'[i] = q /\ \A j \in PcbIds : j # i => upcb'[j] = upcb[j]
  BY DEF PcbsInv
<1>2. upcb' \in [PcbIds -> Blocks]
  BY DEF PcbsInv
<1>3. \A j \in PcbIds : ConnectedOK(upcb'[j])
  BY <1>1 DEF PcbsInv
<1>4. Listed = Elements(udp_pcbs) /\ Listed' = Elements(udp_pcbs')
  BY DEF Listed, Elements
<1>5. Listed \subseteq PcbIds
  BY DEF PcbsInv, Bound
<1>6. udp_pcbs' \in Seq(PcbIds) /\ Distinct(udp_pcbs') /\ Listed' = Listed \cup {i}
  <2>1. CASE i \in Listed
    BY <2>1, <1>4 DEF Linked, PcbsInv
  <2>2. CASE i \notin Listed
    <3>1. udp_pcbs' = <<i>> \o udp_pcbs /\ i \notin Elements(udp_pcbs)
      BY <1>4, <2>2 DEF Linked
    <3>2. udp_pcbs \in Seq(PcbIds) /\ Distinct(udp_pcbs)
      BY DEF PcbsInv
    <3>. QED
      BY <1>4, <3>1, <3>2, PutInFront
  <2>. QED
    BY <2>1, <2>2
<1>7. Bound(upcb') = Bound(upcb) \cup {i}
  BY <1>1 DEF Bound
<1>8. Listed' = Bound(upcb')
  BY <1>6, <1>7 DEF PcbsInv
<1>9. readdressed' = readdressed /\ netifIp' = netifIp
  BY DEF SameNetif
<1>10. readdressed' \/ \A j, k \in Listed' : j # k => ~SameAddress(upcb', j, k)
  <2>. SUFFICES ASSUME ~readdressed, NEW j \in Listed', NEW k \in Listed', j # k
                PROVE  ~SameAddress(upcb', j, k)
    BY <1>9
  <2>1. \A a \in Listed \ {i} : ~(upcb[a].local_port = q.local_port /\ upcb[a].local_ip = q.local_ip)
    OBVIOUS
  <2>2. CASE j = i
    <3>1. k \in Listed \ {i} /\ upcb'[k] = upcb[k]
      BY <1>1, <1>5, <1>6, <2>2
    <3>. QED
      BY <1>1, <2>1, <2>2, <3>1 DEF SameAddress
  <2>3. CASE k = i
    <3>1. j \in Listed \ {i} /\ upcb'[j] = upcb[j]
      BY <1>1, <1>5, <1>6, <2>3
    <3>. QED
      BY <1>1, <2>1, <2>3, <3>1 DEF SameAddress
  <2>4. CASE j # i /\ k # i
    <3>1. j \in Listed /\ k \in Listed /\ upcb'[j] = upcb[j] /\ upcb'[k] = upcb[k]
      BY <1>1, <1>5, <1>6, <2>4
    <3>. QED
      BY <3>1 DEF SameAddress, PcbsInv
  <2>. QED
    BY <2>2, <2>3, <2>4
<1>. QED
  BY <1>2, <1>3, <1>6, <1>8, <1>9, <1>10 DEF PcbsInv

\* udp_bind, whatever the other fields of the block become.
LEMMA BindKeepsInv ==
  ASSUME PcbsInv, NEW i \in PcbIds, NEW r \in Blocks, r.used, ConnectedOK(r),
         NEW ip \in LocalAddrs \cup {AnyAddr}, NEW port \in FixedPorts \cup {0},
         udp_bind(i, ip, port, r), SameNetif
  PROVE  PcbsInv'
<1>. DEFINE p == IF port = 0 THEN udp_new_port ELSE port
            fails == p = 0 \/ (port # 0 /\ AddressTaken(i, ip, port))
            q == [r EXCEPT !.local_ip = ip, !.local_port = p]
<1>1. /\ udp_port' = IF port # 0 THEN udp_port
                     ELSE IF p = 0 THEN InRange(udp_port + Cardinality(PortTries)) ELSE p
      /\ upcb' = IF fails THEN upcb ELSE [upcb EXCEPT ![i] = q]
      /\ udp_pcbs' = IF fails THEN udp_pcbs ELSE Linked(i)
  BY DEF udp_bind
<1>2. udp_port \in RANGE_START..RANGE_END /\ udp_port \in Int
  BY DEF PcbsInv
<1>3. p # 0 /\ port = 0 => p \in RANGE_START..RANGE_END /\ ~PortTaken(p)
  BY <1>2, NewPortIsFree
<1>4. Cardinality(PortTries) \in Nat
  <2>1. RANGE_END - RANGE_START + 1 \in Int
    BY UdpPcbsAssumption
  <2>2. IsFiniteSet(PortTries)
    BY <2>1, FS_Interval DEF PortTries
  <2>. QED
    BY <2>2, FS_CardinalityType
<1>5. udp_port' \in RANGE_START..RANGE_END
  <2>1. InRange(udp_port + Cardinality(PortTries)) \in RANGE_START..RANGE_END
    <3>1. udp_port + Cardinality(PortTries) \in Int
      BY <1>2, <1>4
    <3>. QED
      BY <3>1, InRangeInRange
  <2>. HIDE DEF p
  <2>. QED
    BY <1>1, <1>2, <1>3, <2>1
<1>6. CASE fails
  <2>1. upcb' = upcb /\ udp_pcbs' = udp_pcbs /\ netifIp' = netifIp /\ readdressed' = readdressed
    BY <1>1, <1>6 DEF SameNetif
  <2>2. Listed' = Listed /\ Bound(upcb') = Bound(upcb)
    BY <2>1 DEF Listed
  <2>. QED
    BY <1>5, <2>1, <2>2 DEF PcbsInv, SameAddress
<1>7. CASE ~fails
  <2>1. p # 0 /\ p \in LocalPorts
    BY <1>3, <1>7 DEF LocalPorts
  <2>2. q \in Blocks /\ q.used /\ q.local_port = p /\ q.local_ip = ip
        /\ q.connected = r.connected /\ q.remote_port = r.remote_port
    <3>. HIDE DEF p
    <3>. QED
      BY <2>1 DEF Blocks
  <2>3. ConnectedOK(q)
    BY <2>2 DEF ConnectedOK
  <2>4. \A j \in Listed \ {i} : ~(upcb[j].local_port = p /\ upcb[j].local_ip = ip)
    <3>1. CASE port = 0
      BY <1>3, <2>1, <3>1 DEF PortTaken
    <3>2. CASE port # 0
      BY <1>7, <3>2 DEF AddressTaken
    <3>. QED
      BY <3>1, <3>2
  <2>5. upcb' = [upcb EXCEPT ![i] = q] /\ udp_pcbs' = Linked(i)
    BY <1>1, <1>7
  <2>. HIDE DEF p, q
  <2>. QED
    BY <1>5, <2>1, <2>2, <2>3, <2>4, <2>5, LinkKeepsInv
<1>. QED
  BY <1>6, <1>7

\* udp_input chooses a position of the list, or none: of a block that matches the sender, or, when
\* there is none, of an open block.
LEMMA RecipientIsPosition ==
  ASSUME NEW d, udp_pcbs \in Seq(PcbIds), Recipient(d) # 0
  PROVE  LET r == upcb[udp_pcbs[Recipient(d)]]
         IN /\ Recipient(d) \in 1..Len(udp_pcbs)
            /\ \/ PerfectMatch(r, d)
               \/ /\ LocalMatch(r, d) /\ ~r.connected
                  /\ \A m \in 1..Len(udp_pcbs) : ~PerfectMatch(upcb[udp_pcbs[m]], d)
<1>. DEFINE P == {n \in 1..Len(udp_pcbs) : PerfectMatch(upcb[udp_pcbs[n]], d)}
            O == {n \in 1..Len(udp_pcbs) : LocalMatch(upcb[udp_pcbs[n]], d) /\ ~upcb[udp_pcbs[n]].connected}
<1>1. P \in SUBSET Nat /\ O \in SUBSET Nat
  OBVIOUS
<1>2. Recipient(d) = CASE P # {} -> FirstOf(P)
                       [] P = {} /\ O # {} -> FirstOf(O)
                       [] OTHER -> 0
  BY DEF Recipient, Positions
<1>3. CASE P # {}
  <2>1. Recipient(d) = FirstOf(P)
    <3>. HIDE DEF P, O
    <3>. QED
      BY <1>2, <1>3, Zenon
  <2>2. FirstOf(P) \in P
    BY <1>1, <1>3, FirstOfIsLeast
  <2>3. Recipient(d) \in P
    BY <2>1, <2>2
  <2>. QED
    BY <2>3
<1>4. CASE P = {} /\ O # {}
  <2>1. Recipient(d) = FirstOf(O)
    <3>. HIDE DEF P, O
    <3>. QED
      BY <1>2, <1>4, Zenon
  <2>2. FirstOf(O) \in O
    BY <1>1, <1>4, FirstOfIsLeast
  <2>3. Recipient(d) \in O
    BY <2>1, <2>2
  <2>4. \A m \in 1..Len(udp_pcbs) : ~PerfectMatch(upcb[udp_pcbs[m]], d)
    BY <1>4
  <2>. QED
    BY <2>3, <2>4
<1>5. CASE P = {} /\ O = {}
  <2>1. Recipient(d) = 0
    <3>. HIDE DEF P, O
    <3>. QED
      BY <1>2, <1>5, Zenon
  <2>. QED
    BY <2>1
<1>. QED
  BY <1>3, <1>4, <1>5

\* A block is freed, and taken out of the list if it is in it.
LEMMA RemoveKeepsInv ==
  ASSUME PcbsInv, NEW i \in PcbIds, udp_remove(i)
  PROVE  PcbsInv'
<1>1. /\ upcb' = [upcb EXCEPT ![i] = FreePcb] /\ udp_pcbs' = Unlinked(i)
      /\ UNCHANGED <<netifIp, readdressed, udp_port>>
  BY DEF udp_remove, SameNetif
<1>2. upcb'[i] = FreePcb /\ \A j \in PcbIds : j # i => upcb'[j] = upcb[j]
  BY <1>1 DEF PcbsInv
<1>3. upcb' \in [PcbIds -> Blocks] /\ \A j \in PcbIds : ConnectedOK(upcb'[j])
  BY <1>1, <1>2, FreePcbIsBlock DEF PcbsInv
<1>4. Listed = Elements(udp_pcbs) /\ Listed' = Elements(udp_pcbs')
  BY DEF Listed, Elements
<1>5. udp_pcbs' \in Seq(PcbIds) /\ Distinct(udp_pcbs') /\ Listed' = Listed \ {i}
  <2>. DEFINE S == {n \in 1..Len(udp_pcbs) : udp_pcbs[n] = i}
  <2>0. udp_pcbs \in Seq(PcbIds) /\ Distinct(udp_pcbs)
    BY DEF PcbsInv
  <2>1. CASE i \in Listed
    <3>1. S \in SUBSET Nat /\ S # {}
      BY <2>1 DEF Listed
    <3>2. FirstOf(S) \in S
      BY <3>1, FirstOfIsLeast
    <3>3. PICK n \in 1..Len(udp_pcbs) : n = FirstOf(S) /\ udp_pcbs[n] = i
      BY <3>2
    <3>4. udp_pcbs' = RemoveAt(udp_pcbs, n)
      BY <1>1, <2>1, <3>3 DEF Unlinked
    <3>5. RemoveAt(udp_pcbs, n) \in Seq(PcbIds)
      BY <2>0, RemovedAt
    <3>6. Distinct(RemoveAt(udp_pcbs, n)) /\ Elements(RemoveAt(udp_pcbs, n)) = Elements(udp_pcbs) \ {i}
      BY <2>0, <3>3, RemovedIsGone
    <3>. QED
      BY <1>4, <3>4, <3>5, <3>6
  <2>2. CASE i \notin Listed
    BY <1>1, <1>4, <2>0, <2>2 DEF Unlinked
  <2>. QED
    BY <2>1, <2>2
<1>6. Bound(upcb') = Bound(upcb) \ {i}
  BY <1>2, FreePcbIsBlock DEF Bound
<1>7. Listed' = Bound(upcb')
  BY <1>5, <1>6 DEF PcbsInv
<1>8. readdressed \/ \A j, k \in Listed' : j # k => ~SameAddress(upcb', j, k)
  <2>1. \A j \in Listed' : j \in Listed /\ upcb'[j] = upcb[j]
    BY <1>2, <1>5 DEF PcbsInv, Bound
  <2>. QED
    BY <2>1 DEF PcbsInv, SameAddress
<1>. QED
  BY <1>1, <1>3, <1>5, <1>7, <1>8 DEF PcbsInv

\* The list is put into another order.
LEMMA InputKeepsPcbs ==
  ASSUME PcbsInv, NEW d, udp_input(d)
  PROVE  PcbsInv'
<1>. DEFINE n == Recipient(d)
<1>1. n > 1 /\ udp_pcbs' = ToFront(n) /\ UNCHANGED <<upcb, udp_port, netifIp, readdressed>>
  BY DEF udp_input, SameNetif
<1>2. udp_pcbs \in Seq(PcbIds) /\ Distinct(udp_pcbs)
  BY DEF PcbsInv
<1>3. n \in 1..Len(udp_pcbs)
  BY <1>1, <1>2, RecipientIsPosition
<1>. HIDE DEF n
<1>4. udp_pcbs[n] \in PcbIds
  BY <1>2, <1>3
<1>5. /\ RemoveAt(udp_pcbs, n) \in Seq(PcbIds) /\ Distinct(RemoveAt(udp_pcbs, n))
      /\ Elements(RemoveAt(udp_pcbs, n)) = Elements(udp_pcbs) \ {udp_pcbs[n]}
  BY <1>2, <1>3, RemovedAt, RemovedIsGone
<1>6. udp_pcbs[n] \notin Elements(RemoveAt(udp_pcbs, n))
  BY <1>5
<1>7. udp_pcbs' = <<udp_pcbs[n]>> \o RemoveAt(udp_pcbs, n)
  BY <1>1 DEF ToFront
<1>8. /\ udp_pcbs' \in Seq(PcbIds) /\ Distinct(udp_pcbs')
      /\ Elements(udp_pcbs') = Elements(RemoveAt(udp_pcbs, n)) \cup {udp_pcbs[n]}
  BY <1>4, <1>5, <1>6, <1>7, PutInFront
<1>9. udp_pcbs[n] \in Elements(udp_pcbs)
  BY <1>3 DEF Elements
<1>10. Elements(udp_pcbs') = Elements(udp_pcbs)
  BY <1>5, <1>8, <1>9
<1>11. Listed' = Listed
  BY <1>10 DEF Listed, Elements
<1>. QED
  BY <1>1, <1>8, <1>11 DEF PcbsInv, SameAddress, Bound

\* Listed blocks follow the address of the interface.
LEMMA AddressKeepsInv ==
  ASSUME PcbsInv, NEW ip \in LocalAddrs, udp_netif_ip_addr_changed(ip)
  PROVE  PcbsInv'
<1>. DEFINE moved(j) == IF j \in Listed /\ upcb[j].local_ip = netifIp
                          THEN [upcb[j] EXCEPT !.local_ip = ip] ELSE upcb[j]
<1>1. /\ upcb' = [j \in PcbIds |-> moved(j)]
      /\ netifIp' = ip /\ readdressed' = TRUE /\ UNCHANGED <<udp_pcbs, udp_port>>
  BY DEF udp_netif_ip_addr_changed
<1>2. ASSUME NEW j \in PcbIds
      PROVE  /\ upcb'[j] \in Blocks
             /\ upcb'[j].used = upcb[j].used /\ upcb'[j].local_port = upcb[j].local_port
             /\ upcb'[j].connected = upcb[j].connected /\ upcb'[j].remote_port = upcb[j].remote_port
  <2>1. upcb[j] \in Blocks /\ ip \in LocalAddrs \cup {AnyAddr}
    BY DEF PcbsInv
  <2>2. upcb'[j] = upcb[j] \/ upcb'[j] = [upcb[j] EXCEPT !.local_ip = ip]
    BY <1>1
  <2>. QED
    BY <2>1, <2>2 DEF Blocks
<1>3. upcb' \in [PcbIds -> Blocks]
  <2>1. \A j \in PcbIds : moved(j) \in Blocks
    <3>1. \A j \in PcbIds : upcb'[j] = moved(j)
      BY <1>1
    <3>. HIDE DEF moved
    <3>. QED
      BY <1>2, <3>1
  <2>. HIDE DEF moved
  <2>. QED
    BY <1>1, <2>1
<1>4. \A j \in PcbIds : ConnectedOK(upcb'[j])
  BY <1>2 DEF PcbsInv, ConnectedOK
<1>5. Listed' = Listed /\ Bound(upcb') = Bound(upcb)
  BY <1>1, <1>2 DEF Listed, Bound
<1>. QED
  BY <1>1, <1>3, <1>4, <1>5 DEF PcbsInv

\* Every step of udp.c keeps the list and the blocks in order.
LEMMA PcbsInvNext == PcbsInv /\ [UdpPcbsNext]_udpPcbVars => PcbsInv'
<1>. SUFFICES ASSUME PcbsInv, [UdpPcbsNext]_udpPcbVars
              PROVE  PcbsInv'
  OBVIOUS
<1>1. ASSUME NEW i \in PcbIds, udp_new(i)
      PROVE  PcbsInv'
  <2>. DEFINE q == [FreePcb EXCEPT !.used = TRUE]
  <2>1. /\ ~upcb[i].used /\ upcb' = [upcb EXCEPT ![i] = q]
        /\ UNCHANGED <<netifIp, readdressed, udp_port, udp_pcbs>>
    BY <1>1 DEF udp_new, SameNetif
  <2>2. q \in Blocks /\ q.local_port = 0 /\ ConnectedOK(q)
    BY FreePcbIsBlock DEF Blocks, ConnectedOK
  <2>. HIDE DEF q
  <2>3. upcb'[i] = q /\ \A j \in PcbIds : j # i => upcb'[j] = upcb[j]
    BY <2>1 DEF PcbsInv
  <2>4. Bound(upcb') = Bound(upcb) /\ Listed' = Listed
    BY <2>1, <2>2, <2>3 DEF Bound, Listed
  <2>5. upcb' \in [PcbIds -> Blocks] /\ \A j \in PcbIds : ConnectedOK(upcb'[j])
    BY <2>1, <2>2, <2>3 DEF PcbsInv
  <2>6. \A j \in Listed : upcb'[j] = upcb[j]
    BY <2>1, <2>3 DEF PcbsInv, Bound
  <2>. QED
    BY <2>1, <2>4, <2>5, <2>6 DEF PcbsInv, SameAddress
<1>2. ASSUME NEW i \in PcbIds, udp_disconnect(i)
      PROVE  PcbsInv'
  <2>. DEFINE q == [upcb[i] EXCEPT !.remote_ip = AnyAddr, !.remote_port = 0, !.connected = FALSE]
  <2>1. /\ upcb' = [upcb EXCEPT ![i].remote_ip = AnyAddr, ![i].remote_port = 0, ![i].connected = FALSE]
        /\ UNCHANGED <<netifIp, readdressed, udp_port, udp_pcbs>>
    BY <1>2 DEF udp_disconnect, SameNetif
  <2>2. upcb[i] \in Blocks
    BY DEF PcbsInv
  <2>3. /\ q \in Blocks /\ ConnectedOK(q)
        /\ q.used = upcb[i].used /\ q.local_port = upcb[i].local_port /\ q.local_ip = upcb[i].local_ip
    BY <2>2 DEF Blocks, ConnectedOK
  <2>4. upcb'[i] = q /\ \A j \in PcbIds : j # i => upcb'[j] = upcb[j]
    BY <2>1 DEF PcbsInv, Blocks
  <2>. HIDE DEF q
  <2>5. upcb' \in [PcbIds -> Blocks]
    <3>1. upcb' = [j \in PcbIds |-> upcb'[j]]
      BY <2>1 DEF PcbsInv
    <3>2. \A j \in PcbIds : upcb'[j] \in Blocks
      BY <2>3, <2>4 DEF PcbsInv
    <3>. QED
      BY <3>1, <3>2
  <2>6. \A j \in PcbIds : ConnectedOK(upcb'[j])
    BY <2>3, <2>4 DEF PcbsInv
  <2>7. \A j \in PcbIds : /\ upcb'[j].used = upcb[j].used /\ upcb'[j].local_port = upcb[j].local_port
                          /\ upcb'[j].local_ip = upcb[j].local_ip
    BY <2>3, <2>4
  <2>8. Bound(upcb') = Bound(upcb) /\ Listed' = Listed /\ Listed \subseteq PcbIds
    BY <2>1, <2>7 DEF Bound, Listed, PcbsInv
  <2>. QED
    BY <2>1, <2>5, <2>6, <2>7, <2>8 DEF PcbsInv, SameAddress
<1>3. ASSUME NEW i \in PcbIds, udp_sendto(i)
      PROVE  PcbsInv'
  <2>1. upcb[i] \in Blocks /\ upcb[i].used /\ ConnectedOK(upcb[i])
    BY <1>3 DEF PcbsInv, udp_sendto
  <2>2. upcb[i].local_ip \in LocalAddrs \cup {AnyAddr} /\ 0 \in FixedPorts \cup {0}
    BY <2>1 DEF Blocks
  <2>. QED
    BY <1>3, <2>1, <2>2, BindKeepsInv DEF udp_sendto
<1>4. ASSUME NEW i \in PcbIds, NEW ip \in LocalAddrs \cup {AnyAddr}, NEW port \in FixedPorts \cup {0},
             BindTo(i, ip, port)
      PROVE  PcbsInv'
  <2>1. upcb[i] \in Blocks /\ upcb[i].used /\ ConnectedOK(upcb[i])
    BY <1>4 DEF PcbsInv, BindTo
  <2>. QED
    BY <1>4, <2>1, BindKeepsInv DEF BindTo
<1>5. ASSUME NEW i \in PcbIds, NEW ip \in Peers, NEW port \in RemotePorts, udp_connect(i, ip, port)
      PROVE  PcbsInv'
  <2>. DEFINE q == [upcb[i] EXCEPT !.remote_ip = ip, !.remote_port = port, !.connected = TRUE]
  <2>1. /\ upcb[i].used /\ SameNetif
        /\ IF upcb[i].local_port = 0 THEN udp_bind(i, upcb[i].local_ip, 0, q)
           ELSE upcb' = [upcb EXCEPT ![i] = q] /\ udp_pcbs' = Linked(i) /\ UNCHANGED udp_port
    BY <1>5 DEF udp_connect
  <2>2. upcb[i] \in Blocks
    BY DEF PcbsInv
  <2>3. ip \in RemoteAddrs \cup {AnyAddr} /\ port \in RemotePorts \cup {0} /\ port # 0
    BY UdpPcbsAssumption
  <2>4. /\ q \in Blocks /\ q.used /\ ConnectedOK(q)
        /\ q.local_port = upcb[i].local_port /\ q.local_ip = upcb[i].local_ip
    BY <2>1, <2>2, <2>3 DEF Blocks, ConnectedOK
  <2>. HIDE DEF q
  <2>5. CASE upcb[i].local_port = 0
    <3>1. upcb[i].local_ip \in LocalAddrs \cup {AnyAddr} /\ 0 \in FixedPorts \cup {0}
      BY <2>2 DEF Blocks
    <3>. QED
      BY <2>1, <2>4, <2>5, <3>1, BindKeepsInv
  <2>6. CASE upcb[i].local_port # 0
    <3>1. i \in Listed
      BY <2>1, <2>6 DEF PcbsInv, Bound
    <3>2. \/ readdressed
          \/ \A j \in Listed \ {i} : ~(upcb[j].local_port = q.local_port /\ upcb[j].local_ip = q.local_ip)
      BY <2>4, <3>1 DEF PcbsInv, SameAddress
    <3>3. udp_port' \in RANGE_START..RANGE_END
      BY <2>1, <2>6 DEF PcbsInv
    <3>. QED
      BY <2>1, <2>4, <2>6, <3>2, <3>3, LinkKeepsInv
  <2>. QED
    BY <2>5, <2>6
<1>6. CASE UNCHANGED udpPcbVars
  BY <1>6 DEF PcbsInv, udpPcbVars, Listed, Bound, SameAddress
<1>. QED
  BY <1>1, <1>2, <1>3, <1>4, <1>5, <1>6, RemoveKeepsInv, InputKeepsPcbs, AddressKeepsInv DEF UdpPcbsNext

\* udp.c keeps its blocks in order for every number of blocks and every sequence of calls: the list
\* holds each bound block once, no two blocks have an address unless the interface was readdressed,
\* and udp_new_port gives up only when all its ports are taken.
THEOREM UdpBlocksAreSound == UdpPcbsSpec => []UdpBlocksSound
<1>1. PcbsInv => UdpBlocksSound
  <2>. SUFFICES ASSUME PcbsInv PROVE UdpBlocksSound
    OBVIOUS
  <2>1. UdpPcbsTypeOK
    BY DEF PcbsInv, UdpPcbsTypeOK, Blocks, LocalPorts
  <2>2. ListIsSound
    <3>1. Listed = Elements(udp_pcbs)
      BY DEF Listed, Elements
    <3>2. Cardinality(Elements(udp_pcbs)) = Len(udp_pcbs)
      BY DistinctCount DEF PcbsInv
    <3>. QED
      BY <3>1, <3>2 DEF ListIsSound, PcbsInv, Bound
  <2>3. OneBlockPerAddress
    BY DEF PcbsInv, OneBlockPerAddress, SameAddress
  <2>4. RefusedOnlyWhenTaken
    BY NewPortIsFree DEF PcbsInv, RefusedOnlyWhenTaken
  <2>. QED
    BY <2>1, <2>2, <2>3, <2>4 DEF UdpBlocksSound
<1>. QED
  BY <1>1, PcbsInvInit, PcbsInvNext, PTL DEF UdpPcbsSpec

\* A datagram goes to the block it is for whatever order earlier datagrams have left the list in: to
\* a connected block only from its peer, and to an open one only if no block is connected to the sender.
THEOREM DatagramsReachTheirBlock == UdpPcbsSpec => []DatagramToItsBlock
<1>1. PcbsInv => DatagramToItsBlock
  <2>. SUFFICES ASSUME PcbsInv, NEW d \in Incoming, Recipient(d) # 0
                PROVE  LET r == upcb[udp_pcbs[Recipient(d)]]
                           isPeer(q) == q.connected /\ q.remote_port = d.src /\ q.remote_ip \in {AnyAddr, d.src_ip}
                       IN /\ LocalMatch(r, d)
                          /\ r.connected => isPeer(r)
                          /\ ~r.connected => ~\E i \in Listed : isPeer(upcb[i]) /\ LocalMatch(upcb[i], d)
    BY DEF DatagramToItsBlock
  <2>. DEFINE n == Recipient(d)
              r == upcb[udp_pcbs[n]]
  <2>1. n \in 1..Len(udp_pcbs)
    BY RecipientIsPosition DEF PcbsInv
  <2>2. \/ PerfectMatch(r, d)
        \/ /\ LocalMatch(r, d) /\ ~r.connected
           /\ \A m \in 1..Len(udp_pcbs) : ~PerfectMatch(upcb[udp_pcbs[m]], d)
    BY RecipientIsPosition DEF PcbsInv
  <2>3. udp_pcbs[n] \in PcbIds /\ ConnectedOK(r)
    BY <2>1 DEF PcbsInv
  <2>. HIDE DEF n, r
  <2>4. LocalMatch(r, d)
    BY <2>2 DEF PerfectMatch
  <2>5. r.connected => r.remote_port = d.src /\ r.remote_ip \in {AnyAddr, d.src_ip}
    BY <2>2 DEF PerfectMatch
  <2>6. ASSUME ~r.connected, NEW i \in Listed, upcb[i].connected, upcb[i].remote_port = d.src,
               upcb[i].remote_ip \in {AnyAddr, d.src_ip}, LocalMatch(upcb[i], d)
        PROVE  FALSE
    <3>1. PICK m \in 1..Len(udp_pcbs) : udp_pcbs[m] = i
      BY DEF Listed
    <3>2. PerfectMatch(upcb[udp_pcbs[m]], d)
      BY <2>6, <3>1 DEF PerfectMatch
    <3>3. r.remote_port = d.src
      BY <2>2, <3>2 DEF PerfectMatch
    <3>4. i \in PcbIds /\ ConnectedOK(upcb[i])
      BY DEF PcbsInv, Bound
    <3>. QED
      BY <2>3, <2>6, <3>3, <3>4 DEF ConnectedOK
  <2>. QED
    BY <2>4, <2>5, <2>6 DEF n, r
<1>. QED
  BY <1>1, PcbsInvInit, PcbsInvNext, PTL DEF UdpPcbsSpec

-----------------------------------------------------------------------------
(* The heap.  The list is sound in both directions, apart from the prev of *)
(* ram_end; the block a thread is trimming keeps the room that was read    *)
(* before the mutex was taken.                                             *)

Headers == [next : Offsets, prev : Offsets, used : BOOLEAN, is : BOOLEAN]

\* The header behind that of block k, and that before it.
NextOK(h, k) ==
  /\ h[h[k].next].is /\ Room(h, k) >= MIN_SIZE_ALIGNED
  /\ \A j \in Offsets : k < j /\ j < h[k].next => ~h[j].is
  /\ h[k].next # ram_end => h[h[k].next].prev = k
PrevOK(h, k) == h[h[k].prev].is /\ h[h[k].prev].next = k

ChainOK(h) ==
  /\ h \in [Offsets -> Headers]
  /\ h[0].is /\ h[0].prev = 0
  /\ h[ram_end].is /\ h[ram_end].used /\ h[ram_end].next = ram_end
  /\ \A k \in Offsets : h[k].used => h[k].is
  /\ \A k \in Offsets : h[k].is /\ k # ram_end => NextOK(h, k)
  /\ \A k \in Offsets : h[k].is /\ k # ram_end /\ k # 0 => PrevOK(h, k)

\* No two free neighbours.
Merged(h) == \A k \in Offsets : h[k].is /\ ~h[k].used => h[h[k].next].used

\* l is the lowest free block, or ram_end.
Available(h, k) == h[k].is /\ (~h[k].used \/ k = ram_end)
Lowest(h, l) == l \in Offsets /\ Available(h, l) /\ \A k \in Offsets : Available(h, k) => l <= k

\* Used blocks are held, with all the room that was asked for.
HoldOK(h, b) ==
  /\ b \in [Offsets -> Nat] /\ b[ram_end] = 0
  /\ \A k \in Offsets : k # ram_end => (b[k] > 0 <=> h[k].used)
  /\ \A k \in Offsets : b[k] > 0 => Room(h, k) >= b[k]

Trims == [ptr : Offsets, newsize : Nat, size : Int]
TrimOK(h, b, t) ==
  /\ t \in Trims
  /\ t.ptr = ram_end => t = NotTrimming
  /\ t.ptr # ram_end =>
       /\ b[t.ptr] > 0 /\ t.newsize >= b[t.ptr] /\ t.newsize >= MIN_SIZE_ALIGNED
       /\ t.newsize < t.size /\ t.size = Room(h, t.ptr)

HeapInv ==
  /\ ChainOK(ram) /\ Merged(ram) /\ Lowest(ram, lfree) /\ HoldOK(ram, held) /\ TrimOK(ram, held, trim)
  /\ refused \in Nat /\ RefusedOnlyWhenFull

\* Sizes and offsets are numbers.
LEMMA HeapNumbers ==
  /\ SIZEOF_STRUCT_MEM \in Nat /\ SIZEOF_STRUCT_MEM > 0 /\ MIN_SIZE_ALIGNED \in Nat /\ MIN_SIZE_ALIGNED > 0
  /\ ram_end \in Nat /\ ram_end > 0 /\ 0 \in Offsets /\ ram_end \in Offsets
  /\ \A k \in Offsets : k \in Nat /\ k <= ram_end
  BY HeapAssumption DEF ram_end, Offsets

\* The block before and the block behind are on that side, and are this block's only neighbours.
LEMMA Neighbours ==
  ASSUME NEW h, ChainOK(h), NEW k \in Offsets, h[k].is, k # ram_end
  PROVE  /\ h[k].next \in Offsets /\ h[k].prev \in Offsets
         /\ h[k].next >= k + SIZEOF_STRUCT_MEM + MIN_SIZE_ALIGNED
         /\ k # 0 => h[k].prev < k /\ h[k].prev # ram_end
<1>1. h[k] \in Headers
  BY DEF ChainOK
<1>2. h[k].next \in Offsets /\ h[k].prev \in Offsets
  BY <1>1 DEF Headers
<1>3. h[k].next >= k + SIZEOF_STRUCT_MEM + MIN_SIZE_ALIGNED
  <2>. DEFINE x == h[k].next
  <2>1. Room(h, k) >= MIN_SIZE_ALIGNED
    BY DEF ChainOK, NextOK
  <2>2. x \in Offsets /\ x - (k + SIZEOF_STRUCT_MEM) >= MIN_SIZE_ALIGNED
    BY <1>2, <2>1 DEF Room
  <2>. HIDE DEF x
  <2>3. x >= k + SIZEOF_STRUCT_MEM + MIN_SIZE_ALIGNED
    BY <2>2, HeapNumbers
  <2>. QED
    BY <2>3 DEF x
<1>4. ASSUME k # 0
      PROVE  h[k].prev < k /\ h[k].prev # ram_end
  <2>. DEFINE p == h[k].prev
  <2>1. p \in Offsets /\ h[p].is /\ h[p].next = k
    BY <1>2, <1>4 DEF ChainOK, PrevOK
  <2>2. p # ram_end
    BY <2>1 DEF ChainOK
  <2>3. Room(h, p) >= MIN_SIZE_ALIGNED
    BY <2>1, <2>2 DEF ChainOK, NextOK
  <2>4. k - (p + SIZEOF_STRUCT_MEM) >= MIN_SIZE_ALIGNED
    BY <2>1, <2>3 DEF Room
  <2>. HIDE DEF p
  <2>5. p < k
    BY <2>1, <2>4, HeapNumbers
  <2>. QED
    BY <2>2, <2>5 DEF p
<1>. QED
  BY <1>2, <1>3, <1>4

\* g is h with a free block at k2, between k and n; what does not matter is left open.
SplitOf(h, g, k, k2, n) ==
  /\ g \in [Offsets -> Headers]
  /\ \A j \in Offsets :
       /\ g[j].is <=> (h[j].is \/ j = k2)
       /\ g[j].used <=> (h[j].used /\ j # k2)
       /\ g[j].is => g[j].next = IF j = k THEN k2 ELSE IF j = k2 THEN n ELSE h[j].next
       /\ g[j].is /\ j # ram_end => g[j].prev = IF j = k2 THEN k ELSE IF j = n THEN k2 ELSE h[j].prev

\* That is what Split makes.
LEMMA SplitFields ==
  ASSUME NEW h \in [Offsets -> Headers], NEW k \in Offsets, NEW k2 \in Offsets, NEW n \in Offsets,
         k # k2, n # k, n # k2
  PROVE  SplitOf(h, Split(h, k, k2, n), k, k2, n)
<1>. DEFINE new == [next |-> n, prev |-> k, used |-> FALSE, is |-> TRUE]
            g == [h EXCEPT ![k2] = new, ![k].next = k2]
            f == [g EXCEPT ![n].prev = k2]
<1>1. new \in Headers
  BY DEF Headers
<1>2. g \in [Offsets -> Headers]
  BY <1>1 DEF Headers
<1>3. /\ g[k2] = new
      /\ g[k] = [h[k] EXCEPT !.next = k2]
      /\ \A j \in Offsets : j # k /\ j # k2 => g[j] = h[j]
  BY <1>1
<1>4. \A j \in Offsets :
         /\ g[j].is <=> (h[j].is \/ j = k2)
         /\ g[j].used <=> (h[j].used /\ j # k2)
         /\ g[j].next = IF j = k THEN k2 ELSE IF j = k2 THEN n ELSE h[j].next
         /\ g[j].prev = IF j = k2 THEN k ELSE h[j].prev
  <2>. SUFFICES ASSUME NEW j \in Offsets
                PROVE  /\ g[j].is <=> (h[j].is \/ j = k2)
                       /\ g[j].used <=> (h[j].used /\ j # k2)
                       /\ g[j].next = IF j = k THEN k2 ELSE IF j = k2 THEN n ELSE h[j].next
                       /\ g[j].prev = IF j = k2 THEN k ELSE h[j].prev
    OBVIOUS
  <2>1. h[j] \in Headers
    OBVIOUS
  <2>2. CASE j = k
    <3>1. g[j].is = h[j].is /\ g[j].used = h[j].used /\ g[j].next = k2 /\ g[j].prev = h[j].prev
      BY <1>3, <2>1, <2>2 DEF Headers
    <3>. HIDE DEF g
    <3>. QED
      BY <2>2, <3>1
  <2>3. CASE j = k2
    <3>. HIDE DEF g
    <3>. QED
      BY <1>3, <2>3
  <2>4. CASE j # k /\ j # k2
    <3>. HIDE DEF g
    <3>. QED
      BY <1>3, <2>4
  <2>. QED
    BY <2>2, <2>3, <2>4
<1>5. Split(h, k, k2, n) = IF n = ram_end THEN g ELSE f
  BY DEF Split
<1>. HIDE DEF g
<1>6. CASE n = ram_end
  BY <1>2, <1>4, <1>5, <1>6 DEF SplitOf
<1>7. CASE n # ram_end
  <2>1. f \in [Offsets -> Headers]
    BY <1>2 DEF Headers
  <2>2. ASSUME NEW j \in Offsets
        PROVE  /\ f[j].is = g[j].is /\ f[j].used = g[j].used /\ f[j].next = g[j].next
               /\ f[j].prev = IF j = n THEN k2 ELSE g[j].prev
    BY <1>2 DEF Headers
  <2>3. Split(h, k, k2, n) = f
    BY <1>5, <1>7
  <2>. HIDE DEF f
  <2>. QED
    BY <1>4, <1>7, <2>1, <2>2, <2>3 DEF SplitOf
<1>. QED
  BY <1>6, <1>7

\* g is h without the header behind k.
SwallowOf(h, g, k) ==
  LET n == h[k].next
  IN /\ g \in [Offsets -> Headers]
     /\ \A j \in Offsets :
          /\ g[j].is <=> (h[j].is /\ j # n)
          /\ g[j].used <=> (h[j].used /\ j # n)
          /\ j # n => g[j].next = IF j = k THEN h[n].next ELSE h[j].next
          /\ j # n => g[j].prev = IF j = h[n].next THEN k ELSE h[j].prev

\* That is what Swallow makes.
LEMMA SwallowFields ==
  ASSUME NEW h, ChainOK(h), NEW k \in Offsets, h[k].is, k # ram_end, h[k].next # ram_end
  PROVE  SwallowOf(h, Swallow(h, k), k)
<1>. DEFINE n == h[k].next
            m == h[n].next
            g == [h EXCEPT ![k].next = m, ![m].prev = k, ![n] = NoHeader]
<1>1. h \in [Offsets -> Headers] /\ n \in Offsets /\ h[n].is /\ k < n
  <2>1. n \in Offsets /\ n >= k + SIZEOF_STRUCT_MEM + MIN_SIZE_ALIGNED
    BY Neighbours
  <2>2. k < n
    <3>. HIDE DEF n
    <3>1. /\ k \in Nat /\ n \in Nat /\ SIZEOF_STRUCT_MEM \in Nat /\ SIZEOF_STRUCT_MEM > 0
          /\ MIN_SIZE_ALIGNED \in Nat /\ MIN_SIZE_ALIGNED > 0
      BY <2>1, HeapNumbers, Zenon
    <3>. QED
      BY <2>1, <3>1, SMT
  <2>. QED
    BY <2>1, <2>2 DEF ChainOK, NextOK
<1>2. m \in Offsets /\ n < m
  <2>1. m \in Offsets /\ m >= n + SIZEOF_STRUCT_MEM + MIN_SIZE_ALIGNED
    BY <1>1, Neighbours
  <2>. HIDE DEF n, m
  <2>. QED
    BY <1>1, <2>1, HeapNumbers
<1>3. Swallow(h, k) = g
  BY DEF Swallow
<1>. HIDE DEF n, m
<1>4. k # n /\ k # m /\ n # m
  BY <1>1, <1>2, HeapNumbers
<1>5. NoHeader \in Headers
  BY HeapNumbers DEF NoHeader, Headers
<1>6. g \in [Offsets -> Headers]
  BY <1>1, <1>2, <1>4, <1>5 DEF Headers
<1>7. /\ g[n] = NoHeader
      /\ g[k] = [h[k] EXCEPT !.next = m]
      /\ g[m] = [h[m] EXCEPT !.prev = k]
      /\ \A j \in Offsets : j # k /\ j # m /\ j # n => g[j] = h[j]
  BY <1>1, <1>2, <1>4
<1>8. ASSUME NEW j \in Offsets
      PROVE  /\ g[j].is <=> (h[j].is /\ j # n)
             /\ g[j].used <=> (h[j].used /\ j # n)
             /\ j # n => g[j].next = IF j = k THEN m ELSE h[j].next
             /\ j # n => g[j].prev = IF j = m THEN k ELSE h[j].prev
  <2>1. h[j] \in Headers
    BY <1>1
  <2>2. CASE j = n
    <3>1. ~g[j].is /\ ~g[j].used
      BY <1>7, <2>2 DEF NoHeader
    <3>. HIDE DEF g
    <3>. QED
      BY <2>2, <3>1
  <2>3. CASE j = k
    <3>1. g[j].is = h[j].is /\ g[j].used = h[j].used /\ g[j].next = m /\ g[j].prev = h[j].prev
      BY <1>7, <2>1, <2>3 DEF Headers
    <3>. HIDE DEF g
    <3>. QED
      BY <1>4, <2>3, <3>1
  <2>4. CASE j = m
    <3>1. g[j].is = h[j].is /\ g[j].used = h[j].used /\ g[j].next = h[j].next /\ g[j].prev = k
      BY <1>7, <2>1, <2>4 DEF Headers
    <3>. HIDE DEF g
    <3>. QED
      BY <1>4, <2>4, <3>1
  <2>5. CASE j # n /\ j # k /\ j # m
    <3>. HIDE DEF g
    <3>. QED
      BY <1>7, <2>5
  <2>. QED
    BY <2>2, <2>3, <2>4, <2>5
<1>. HIDE DEF g
<1>. QED
  BY <1>3, <1>6, <1>8 DEF SwallowOf, n, m

\* A header with room on both sides of it keeps the chain whole.
LEMMA SplitOK ==
  ASSUME NEW h, NEW g, ChainOK(h), NEW k \in Offsets, h[k].is, k # ram_end, NEW k2 \in Offsets,
         k2 >= k + SIZEOF_STRUCT_MEM + MIN_SIZE_ALIGNED,
         NEW n \in Offsets, n = h[k].next, n >= k2 + SIZEOF_STRUCT_MEM + MIN_SIZE_ALIGNED,
         SplitOf(h, g, k, k2, n)
  PROVE  ChainOK(g) /\ ~h[k2].is /\ k2 # ram_end /\ k2 # 0
<1>1. k < k2 /\ k2 < n /\ k \in Nat /\ k2 \in Nat /\ n \in Nat /\ n <= ram_end /\ ram_end \in Nat
  BY HeapNumbers
<1>2. \A j \in Offsets : k < j /\ j < n => ~h[j].is
  BY DEF ChainOK, NextOK
<1>3. ~h[k2].is /\ k2 # 0 /\ k2 # ram_end /\ n # 0 /\ h[n].is
  <2>1. ~h[k2].is
    BY <1>1, <1>2
  <2>2. h[n].is
    BY DEF ChainOK, NextOK
  <2>. QED
    BY <1>1, <2>1, <2>2
<1>4. g \in [Offsets -> Headers]
  BY DEF SplitOf
<1>5. \A j \in Offsets :
       /\ g[j].is <=> (h[j].is \/ j = k2)
       /\ g[j].used <=> (h[j].used /\ j # k2)
       /\ g[j].is => g[j].next = IF j = k THEN k2 ELSE IF j = k2 THEN n ELSE h[j].next
       /\ g[j].is /\ j # ram_end => g[j].prev = IF j = k2 THEN k ELSE IF j = n THEN k2 ELSE h[j].prev
  BY DEF SplitOf
<1>6. g[0].is /\ g[0].prev = 0
  <2>1. 0 \in Offsets /\ h[0].is /\ h[0].prev = 0
    BY HeapNumbers DEF ChainOK
  <2>. QED
    BY <1>3, <1>5, <2>1, HeapNumbers
<1>7. g[ram_end].is /\ g[ram_end].used /\ g[ram_end].next = ram_end
  <2>1. ram_end \in Offsets /\ h[ram_end].is /\ h[ram_end].used /\ h[ram_end].next = ram_end
    BY HeapNumbers DEF ChainOK
  <2>. QED
    BY <1>3, <1>5, <2>1
<1>8. \A j \in Offsets : g[j].used => g[j].is
  BY <1>5 DEF ChainOK
<1>9. ASSUME NEW j \in Offsets, g[j].is, j # ram_end
      PROVE  NextOK(g, j)
  <2>1. CASE j = k
    <3>1. g[j].next = k2 /\ g[k2].is /\ g[k2].prev = k
      BY <1>3, <1>5, <1>9, <2>1
    <3>2. k2 - (k + SIZEOF_STRUCT_MEM) >= MIN_SIZE_ALIGNED
      BY <1>1, HeapNumbers
    <3>3. \A a \in Offsets : k < a /\ a < k2 => ~g[a].is
      <4>. SUFFICES ASSUME NEW a \in Offsets, k < a, a < k2
                    PROVE  ~g[a].is
        OBVIOUS
      <4>1. a < n /\ a # k2
        BY <1>1, HeapNumbers
      <4>. QED
        BY <1>2, <1>5, <4>1
    <3>. QED
      BY <2>1, <3>1, <3>2, <3>3 DEF NextOK, Room
  <2>2. CASE j = k2
    <3>1. g[j].next = n /\ g[n].is /\ (n # ram_end => g[n].prev = k2)
      BY <1>1, <1>3, <1>5, <2>2
    <3>2. n - (k2 + SIZEOF_STRUCT_MEM) >= MIN_SIZE_ALIGNED
      BY <1>1, HeapNumbers
    <3>3. \A a \in Offsets : k2 < a /\ a < n => ~g[a].is
      <4>. SUFFICES ASSUME NEW a \in Offsets, k2 < a, a < n
                    PROVE  ~g[a].is
        OBVIOUS
      <4>1. k < a /\ a # k2
        BY <1>1, HeapNumbers
      <4>. QED
        BY <1>2, <1>5, <4>1
    <3>. QED
      BY <2>2, <3>1, <3>2, <3>3 DEF NextOK, Room
  <2>3. CASE j # k /\ j # k2
    <3>. DEFINE x == h[j].next
    <3>1. h[j].is /\ NextOK(h, j) /\ g[j].next = x /\ x \in Offsets
      <4>1. h[j].is
        BY <1>5, <1>9, <2>3
      <4>. QED
        BY <1>5, <1>9, <2>3, <4>1, Neighbours DEF ChainOK
    <3>2. h[x].is /\ x # k2
      BY <1>3, <3>1 DEF NextOK
    <3>3. g[x].is
      BY <1>5, <3>1, <3>2
    <3>4. Room(g, j) >= MIN_SIZE_ALIGNED
      <4>1. Room(g, j) = Room(h, j)
        BY <3>1 DEF Room
      <4>. QED
        BY <3>1, <4>1 DEF NextOK
    <3>5. \A a \in Offsets : j < a /\ a < x => ~h[a].is
      BY <3>1 DEF NextOK
    <3>6. x # ram_end => h[x].prev = j
      BY <3>1 DEF NextOK
    <3>. HIDE DEF x
    <3>7. ~(j < k2 /\ k2 < x)
      <4>. SUFFICES ASSUME j < k2, k2 < x
                    PROVE  FALSE
        OBVIOUS
      <4>0. j \in Nat /\ x \in Nat
        BY <3>1, HeapNumbers
      <4>1. CASE j < k
        <5>1. k < x
          BY <1>1, <4>0
        <5>. QED
          BY <3>5, <4>1, <5>1
      <4>2. CASE k < j
        <5>1. j < n
          BY <1>1, <4>0
        <5>. QED
          BY <1>2, <3>1, <4>2, <5>1
      <4>. QED
        BY <1>1, <2>3, <4>0, <4>1, <4>2
    <3>8. \A a \in Offsets : j < a /\ a < x => ~g[a].is
      BY <1>5, <3>5, <3>7
    <3>9. x # ram_end => g[x].prev = j
      <4>1. x = n /\ x # ram_end => FALSE
        <5>1. n # ram_end => h[n].prev = k
          BY DEF ChainOK, NextOK
        <5>. QED
          BY <2>3, <3>6, <5>1
      <4>. QED
        BY <1>5, <3>1, <3>2, <3>6, <4>1
    <3>. QED
      BY <3>1, <3>3, <3>4, <3>8, <3>9 DEF NextOK
  <2>. QED
    BY <2>1, <2>2, <2>3
<1>10. ASSUME NEW j \in Offsets, g[j].is, j # ram_end, j # 0
       PROVE  PrevOK(g, j)
  <2>1. CASE j = k2
    <3>1. g[j].prev = k /\ g[k].is /\ g[k].next = k2
      BY <1>3, <1>5, <1>10, <2>1
    <3>. QED
      BY <2>1, <3>1 DEF PrevOK
  <2>2. CASE j = n
    <3>1. g[j].prev = k2 /\ g[k2].is /\ g[k2].next = n
      BY <1>1, <1>3, <1>5, <1>10, <2>2
    <3>. QED
      BY <2>2, <3>1 DEF PrevOK
  <2>3. CASE j # k2 /\ j # n
    <3>. DEFINE p == h[j].prev
    <3>1. h[j].is
      BY <1>5, <1>10, <2>3
    <3>2. p \in Offsets /\ h[p].is /\ h[p].next = j
      BY <1>10, <3>1, Neighbours DEF ChainOK, PrevOK
    <3>3. g[j].prev = p
      BY <1>5, <1>10, <2>3
    <3>. HIDE DEF p
    <3>4. p # k /\ p # k2
      BY <1>3, <2>3, <3>2
    <3>5. g[p].is /\ g[p].next = j
      BY <1>5, <3>2, <3>4
    <3>. QED
      BY <3>3, <3>5 DEF PrevOK
  <2>. QED
    BY <2>1, <2>2, <2>3
<1>. QED
  BY <1>3, <1>4, <1>6, <1>7, <1>8, <1>9, <1>10 DEF ChainOK

\* Without the header behind k the chain is whole as well.
LEMMA SwallowOK ==
  ASSUME NEW h, NEW g, ChainOK(h), NEW k \in Offsets, h[k].is, k # ram_end, h[k].next # ram_end,
         SwallowOf(h, g, k)
  PROVE  ChainOK(g)
<1>. DEFINE n == h[k].next
            m == h[n].next
<1>1. n \in Offsets /\ h[n].is /\ n >= k + SIZEOF_STRUCT_MEM + MIN_SIZE_ALIGNED
  BY Neighbours DEF ChainOK, NextOK
<1>2. m \in Offsets /\ m >= n + SIZEOF_STRUCT_MEM + MIN_SIZE_ALIGNED /\ h[m].is
  BY <1>1, Neighbours DEF ChainOK, NextOK
<1>3. \A j \in Offsets :
        /\ g[j].is <=> (h[j].is /\ j # n)
        /\ g[j].used <=> (h[j].used /\ j # n)
        /\ j # n => g[j].next = IF j = k THEN m ELSE h[j].next
        /\ j # n => g[j].prev = IF j = m THEN k ELSE h[j].prev
  BY DEF SwallowOf
<1>4. \A j \in Offsets : (k < j /\ j < n) \/ (n < j /\ j < m) => ~h[j].is
  BY <1>1 DEF ChainOK, NextOK
<1>5. h[n].prev = k /\ (m # ram_end => h[m].prev = n)
  BY <1>1 DEF ChainOK, NextOK
<1>6. n # ram_end
  OBVIOUS
<1>. HIDE DEF n, m
<1>7. k < n /\ n < m /\ k \in Nat /\ n \in Nat /\ m \in Nat /\ n # 0 /\ m # 0
  <2>1. /\ k \in Nat /\ n \in Nat /\ m \in Nat /\ SIZEOF_STRUCT_MEM \in Nat /\ SIZEOF_STRUCT_MEM > 0
        /\ MIN_SIZE_ALIGNED \in Nat /\ MIN_SIZE_ALIGNED > 0
    BY <1>1, <1>2, HeapNumbers, Zenon
  <2>. QED
    BY <1>1, <1>2, <2>1, SMT
<1>8. g \in [Offsets -> Headers]
  BY DEF SwallowOf
<1>9. g[0].is /\ g[0].prev = 0
  <2>1. 0 \in Offsets /\ h[0].is /\ h[0].prev = 0
    BY HeapNumbers DEF ChainOK
  <2>. QED
    BY <1>3, <1>7, <2>1
<1>10. g[ram_end].is /\ g[ram_end].used /\ g[ram_end].next = ram_end
  <2>1. ram_end \in Offsets /\ h[ram_end].is /\ h[ram_end].used /\ h[ram_end].next = ram_end
    BY HeapNumbers DEF ChainOK
  <2>. QED
    BY <1>3, <1>6, <2>1
<1>11. \A j \in Offsets : g[j].used => g[j].is
  BY <1>3 DEF ChainOK
<1>12. ASSUME NEW j \in Offsets, g[j].is, j # ram_end
       PROVE  NextOK(g, j)
  <2>0. h[j].is /\ j # n
    BY <1>3, <1>12
  <2>1. CASE j = k
    <3>1. g[j].next = m /\ g[m].is /\ g[m].prev = k
      BY <1>2, <1>3, <1>7, <2>0, <2>1
    <3>2. m - (k + SIZEOF_STRUCT_MEM) >= MIN_SIZE_ALIGNED
      BY <1>1, <1>2, <1>7, HeapNumbers
    <3>3. \A a \in Offsets : k < a /\ a < m => ~g[a].is
      <4>. SUFFICES ASSUME NEW a \in Offsets, k < a, a < m
                    PROVE  ~g[a].is
        OBVIOUS
      <4>1. a = n \/ (k < a /\ a < n) \/ (n < a /\ a < m)
        BY <1>7, HeapNumbers
      <4>. QED
        BY <1>3, <1>4, <4>1
    <3>. QED
      BY <2>1, <3>1, <3>2, <3>3 DEF NextOK, Room
  <2>2. CASE j # k
    <3>. DEFINE x == h[j].next
    <3>1. NextOK(h, j) /\ g[j].next = x /\ x \in Offsets
      BY <1>3, <1>12, <2>0, <2>2, Neighbours DEF ChainOK
    <3>2. h[x].is /\ x # n
      <4>1. h[x].is
        BY <3>1 DEF NextOK
      <4>2. x = n => h[n].prev = j
        BY <1>6, <3>1 DEF NextOK
      <4>. QED
        BY <1>5, <2>2, <4>1, <4>2
    <3>3. g[x].is
      BY <1>3, <3>1, <3>2
    <3>4. Room(g, j) >= MIN_SIZE_ALIGNED
      <4>1. Room(g, j) = Room(h, j)
        BY <3>1 DEF Room
      <4>. QED
        BY <3>1, <4>1 DEF NextOK
    <3>5. \A a \in Offsets : j < a /\ a < x => ~g[a].is
      BY <1>3, <3>1 DEF NextOK
    <3>6. x # ram_end => h[x].prev = j
      BY <3>1 DEF NextOK
    <3>. HIDE DEF x
    <3>7. x # ram_end => g[x].prev = j
      <4>1. x = m /\ x # ram_end => FALSE
        BY <1>5, <2>0, <3>6
      <4>. QED
        BY <1>3, <3>1, <3>2, <3>6, <4>1
    <3>. QED
      BY <3>1, <3>3, <3>4, <3>5, <3>7 DEF NextOK
  <2>. QED
    BY <2>1, <2>2
<1>13. ASSUME NEW j \in Offsets, g[j].is, j # ram_end, j # 0
       PROVE  PrevOK(g, j)
  <2>0. h[j].is /\ j # n
    BY <1>3, <1>13
  <2>1. CASE j = m
    <3>1. g[j].prev = k /\ g[k].is /\ g[k].next = m
      BY <1>3, <1>7, <2>0, <2>1
    <3>. QED
      BY <2>1, <3>1 DEF PrevOK
  <2>2. CASE j # m
    <3>. DEFINE p == h[j].prev
    <3>1. p \in Offsets /\ h[p].is /\ h[p].next = j
      BY <1>13, <2>0, Neighbours DEF ChainOK, PrevOK
    <3>2. g[j].prev = p
      BY <1>3, <2>0, <2>2
    <3>. HIDE DEF p
    <3>3. p # n /\ p # k
      BY <2>0, <2>2, <3>1 DEF m, n
    <3>4. g[p].is /\ g[p].next = j
      BY <1>3, <3>1, <3>3
    <3>. QED
      BY <3>2, <3>4 DEF PrevOK
  <2>. QED
    BY <2>1, <2>2
<1>. QED
  BY <1>8, <1>9, <1>10, <1>11, <1>12, <1>13 DEF ChainOK

\* The header behind k is moved forward to k2.
Moved(h, k, k2) == Split([h EXCEPT ![h[k].next] = NoHeader], k, k2, h[h[k].next].next)

\* The free block behind k is moved forward: as if k had swallowed it and had been split again.
LEMMA MoveOK ==
  ASSUME NEW h, ChainOK(h), NEW k \in Offsets, h[k].is, k # ram_end, h[k].next # ram_end,
         NEW k2 \in Offsets, k2 >= k + SIZEOF_STRUCT_MEM + MIN_SIZE_ALIGNED, k2 < h[k].next
  PROVE  LET n == h[k].next
             g == Moved(h, k, k2)
         IN /\ ChainOK(g) /\ ~h[k2].is /\ k2 # ram_end /\ k2 # 0
            /\ \A j \in Offsets :
                 /\ g[j].is <=> ((h[j].is /\ j # n) \/ j = k2)
                 /\ g[j].used <=> (h[j].used /\ j # n /\ j # k2)
                 /\ g[j].is => g[j].next = IF j = k THEN k2 ELSE IF j = k2 THEN h[n].next ELSE h[j].next
<1>. DEFINE n == h[k].next
            m == h[n].next
            e == [h EXCEPT ![n] = NoHeader]
            g == Split(e, k, k2, m)
            s == Swallow(h, k)
<1>1. n \in Offsets /\ h[n].is /\ n >= k + SIZEOF_STRUCT_MEM + MIN_SIZE_ALIGNED
  BY Neighbours DEF ChainOK, NextOK
<1>2. m \in Offsets /\ m >= n + SIZEOF_STRUCT_MEM + MIN_SIZE_ALIGNED
  BY <1>1, Neighbours
<1>3. SwallowOf(h, s, k)
  BY SwallowFields
<1>4. ChainOK(s)
  BY <1>3, SwallowOK
<1>5. NoHeader \in Headers /\ ~NoHeader.is /\ ~NoHeader.used
  BY HeapNumbers DEF NoHeader, Headers
<1>6. h \in [Offsets -> Headers]
  BY DEF ChainOK
<1>7. k2 < n
  OBVIOUS
<1>8. ~h[k2].is
  <2>1. \A j \in Offsets : k < j /\ j < n => ~h[j].is
    BY DEF ChainOK, NextOK
  <2>2. k < k2
    BY HeapNumbers
  <2>. QED
    BY <1>7, <2>1, <2>2
<1>9. \A j \in Offsets :
        /\ s[j].is <=> (h[j].is /\ j # n)
        /\ s[j].used <=> (h[j].used /\ j # n)
        /\ j # n => s[j].next = IF j = k THEN m ELSE h[j].next
        /\ j # n => s[j].prev = IF j = m THEN k ELSE h[j].prev
  BY <1>3 DEF SwallowOf
<1>. HIDE DEF n, m, s
<1>10. k < n /\ k < k2 /\ n < m /\ k2 < m /\ k # k2 /\ m # k /\ m # k2 /\ n # k /\ n # k2 /\ n # m
  BY <1>1, <1>2, <1>7, HeapNumbers
<1>11. e \in [Offsets -> Headers] /\ e[n] = NoHeader /\ \A j \in Offsets : j # n => e[j] = h[j]
  BY <1>1, <1>5, <1>6
<1>12. SplitOf(e, g, k, k2, m)
  <2>. HIDE DEF e
  <2>. QED
    BY <1>2, <1>10, <1>11, SplitFields
<1>. HIDE DEF e, g
<1>13. \A j \in Offsets :
       /\ g[j].is <=> (e[j].is \/ j = k2)
       /\ g[j].used <=> (e[j].used /\ j # k2)
       /\ g[j].is => g[j].next = IF j = k THEN k2 ELSE IF j = k2 THEN m ELSE e[j].next
       /\ g[j].is /\ j # ram_end => g[j].prev = IF j = k2 THEN k ELSE IF j = m THEN k2 ELSE e[j].prev
  BY <1>12 DEF SplitOf
<1>14. \A j \in Offsets : (e[j].is <=> h[j].is /\ j # n) /\ (e[j].used <=> h[j].used /\ j # n)
  BY <1>5, <1>11
<1>15. ASSUME NEW j \in Offsets
       PROVE  /\ g[j].is <=> (s[j].is \/ j = k2)
              /\ g[j].used <=> (s[j].used /\ j # k2)
              /\ g[j].is => g[j].next = IF j = k THEN k2 ELSE IF j = k2 THEN m ELSE s[j].next
              /\ g[j].is /\ j # ram_end => g[j].prev = IF j = k2 THEN k ELSE IF j = m THEN k2 ELSE s[j].prev
  <2>1. (g[j].is <=> (s[j].is \/ j = k2)) /\ (g[j].used <=> (s[j].used /\ j # k2))
    BY <1>9, <1>13, <1>14
  <2>2. CASE j = n
    BY <1>9, <1>10, <2>1, <2>2
  <2>3. CASE j # n
    <3>1. e[j] = h[j]
      BY <1>11, <2>3
    <3>2. g[j].is => g[j].next = IF j = k THEN k2 ELSE IF j = k2 THEN m ELSE s[j].next
      BY <1>9, <1>13, <2>3, <3>1
    <3>3. g[j].is /\ j # ram_end => g[j].prev = IF j = k2 THEN k ELSE IF j = m THEN k2 ELSE s[j].prev
      BY <1>9, <1>13, <2>3, <3>1
    <3>. QED
      BY <2>1, <3>2, <3>3
  <2>. QED
    BY <2>2, <2>3
<1>16. SplitOf(s, g, k, k2, m)
  BY <1>12, <1>15 DEF SplitOf
<1>17. s[k].is /\ s[k].next = m
  BY <1>9, <1>10
<1>18. m >= k2 + SIZEOF_STRUCT_MEM + MIN_SIZE_ALIGNED
  BY <1>1, <1>2, <1>7, HeapNumbers
<1>19. ChainOK(g) /\ k2 # ram_end /\ k2 # 0
  BY <1>2, <1>4, <1>16, <1>17, <1>18, SplitOK
<1>20. \A j \in Offsets :
         /\ g[j].is <=> ((h[j].is /\ j # n) \/ j = k2)
         /\ g[j].used <=> (h[j].used /\ j # n /\ j # k2)
         /\ g[j].is => g[j].next = IF j = k THEN k2 ELSE IF j = k2 THEN m ELSE h[j].next
  BY <1>9, <1>15
<1>21. Moved(h, k, k2) = g
  BY DEF Moved, g, e, m, n
<1>. QED
  BY <1>8, <1>19, <1>20, <1>21 DEF m, n

\* The flag of block k is set, and cleared.
MarkUsed(h, k) == [h EXCEPT ![k].used = TRUE]
MarkFree(h, k) == [h EXCEPT ![k].used = FALSE]

\* g is h but for the flag of block k.
Marked(h, g, k) ==
  /\ g \in [Offsets -> Headers]
  /\ \A j \in Offsets : /\ g[j].is <=> h[j].is
                        /\ j # k => (g[j].used <=> h[j].used)
                        /\ g[j].next = h[j].next /\ g[j].prev = h[j].prev

\* Setting and clearing a flag changes nothing else.
LEMMA MarkFields ==
  ASSUME NEW h \in [Offsets -> Headers], NEW k \in Offsets
  PROVE  /\ Marked(h, MarkUsed(h, k), k) /\ MarkUsed(h, k)[k].used
         /\ Marked(h, MarkFree(h, k), k) /\ ~MarkFree(h, k)[k].used
<1>1. ASSUME NEW u \in BOOLEAN, NEW g, g = [h EXCEPT ![k].used = u]
      PROVE  Marked(h, g, k) /\ g[k].used = u
  <2>1. g \in [Offsets -> Headers]
    BY <1>1 DEF Headers
  <2>2. g[k] = [h[k] EXCEPT !.used = u] /\ \A j \in Offsets : j # k => g[j] = h[j]
    BY <1>1
  <2>3. h[k] \in Headers
    OBVIOUS
  <2>4. g[k].is = h[k].is /\ g[k].next = h[k].next /\ g[k].prev = h[k].prev /\ g[k].used = u
    BY <2>2, <2>3 DEF Headers
  <2>. QED
    BY <2>1, <2>2, <2>4 DEF Marked
<1>2. Marked(h, MarkUsed(h, k), k) /\ MarkUsed(h, k)[k].used = TRUE
  BY <1>1, Zenon DEF MarkUsed
<1>3. Marked(h, MarkFree(h, k), k) /\ MarkFree(h, k)[k].used = FALSE
  BY <1>1, Zenon DEF MarkFree
<1>. QED
  BY <1>2, <1>3

\* Whether a block is used is no matter of the chain.
LEMMA UseOK ==
  ASSUME NEW h, ChainOK(h), NEW k \in Offsets, k # ram_end, NEW g, Marked(h, g, k),
         g[k].used => h[k].is
  PROVE  ChainOK(g)
<1>1. g \in [Offsets -> Headers]
  BY DEF Marked
<1>2. \A j \in Offsets : /\ g[j].is <=> h[j].is
                         /\ j # k => (g[j].used <=> h[j].used)
                         /\ g[j].next = h[j].next /\ g[j].prev = h[j].prev
  BY DEF Marked
<1>3. 0 \in Offsets /\ ram_end \in Offsets
  BY HeapNumbers
<1>4. g[0].is /\ g[0].prev = 0 /\ g[ram_end].is /\ g[ram_end].used /\ g[ram_end].next = ram_end
  BY <1>2, <1>3 DEF ChainOK
<1>5. \A j \in Offsets : g[j].used => g[j].is
  BY <1>2 DEF ChainOK
<1>6. ASSUME NEW j \in Offsets, g[j].is, j # ram_end
      PROVE  NextOK(g, j)
  <2>1. h[j].is /\ NextOK(h, j) /\ h[j].next \in Offsets
    BY <1>2, <1>6, Neighbours DEF ChainOK
  <2>2. Room(g, j) = Room(h, j)
    BY <1>2 DEF Room
  <2>. QED
    BY <1>2, <2>1, <2>2 DEF NextOK
<1>7. ASSUME NEW j \in Offsets, g[j].is, j # ram_end, j # 0
      PROVE  PrevOK(g, j)
  <2>1. h[j].is /\ PrevOK(h, j) /\ h[j].prev \in Offsets
    BY <1>2, <1>7, Neighbours DEF ChainOK
  <2>. QED
    BY <1>2, <2>1 DEF PrevOK
<1>. QED
  BY <1>1, <1>4, <1>5, <1>6, <1>7 DEF ChainOK

\* mem_init makes one free block of the whole heap.
LEMMA HeapInvInit == HeapInit => HeapInv
<1>. SUFFICES ASSUME HeapInit PROVE HeapInv
  OBVIOUS
<1>. DEFINE first == [next |-> ram_end, prev |-> 0, used |-> FALSE, is |-> TRUE]
            last == [next |-> ram_end, prev |-> ram_end, used |-> TRUE, is |-> TRUE]
<1>1. first \in Headers /\ last \in Headers /\ NoHeader \in Headers
  BY HeapNumbers DEF Headers, NoHeader
<1>2. 0 \in Offsets /\ ram_end \in Offsets /\ ram_end \in Nat /\ ram_end # 0
  BY HeapNumbers
<1>3. ram = [k \in Offsets |-> IF k = 0 THEN first ELSE IF k = ram_end THEN last ELSE NoHeader]
  BY DEF HeapInit
<1>4. ram \in [Offsets -> Headers]
  <2>. HIDE DEF first, last
  <2>. QED
    BY <1>1, <1>3
<1>5. ram[0] = first /\ ram[ram_end] = last /\ \A k \in Offsets : k # 0 /\ k # ram_end => ram[k] = NoHeader
  <2>. HIDE DEF first, last
  <2>. QED
    BY <1>2, <1>3
<1>6. /\ ram[0].is /\ ram[0].prev = 0 /\ ~ram[0].used /\ ram[0].next = ram_end
      /\ ram[ram_end].is /\ ram[ram_end].used /\ ram[ram_end].next = ram_end
      /\ \A k \in Offsets : k # 0 /\ k # ram_end => ~ram[k].is /\ ~ram[k].used
  BY <1>5 DEF NoHeader
<1>7. NextOK(ram, 0)
  <2>1. ram_end - (0 + SIZEOF_STRUCT_MEM) >= MIN_SIZE_ALIGNED
    BY HeapAssumption, HeapNumbers DEF ram_end
  <2>2. \A j \in Offsets : 0 < j /\ j < ram_end => j # 0 /\ j # ram_end
    BY HeapNumbers
  <2>. QED
    BY <1>6, <2>1, <2>2 DEF NextOK, Room
<1>8. ChainOK(ram)
  BY <1>2, <1>4, <1>6, <1>7 DEF ChainOK
<1>9. Merged(ram)
  BY <1>6 DEF Merged
<1>10. lfree = 0 /\ Lowest(ram, lfree)
  <2>1. lfree = 0 /\ \A k \in Offsets : 0 <= k
    BY HeapNumbers DEF HeapInit
  <2>. QED
    BY <1>2, <1>6, <2>1 DEF Lowest, Available
<1>11. HoldOK(ram, held)
  <2>1. held \in [Offsets -> Nat] /\ \A k \in Offsets : held[k] = 0
    BY DEF HeapInit
  <2>2. \A k \in Offsets : k # ram_end => ~ram[k].used
    BY <1>6
  <2>. QED
    BY <1>2, <2>1, <2>2 DEF HoldOK
<1>12. TrimOK(ram, held, trim)
  <2>1. trim = NotTrimming /\ NotTrimming \in Trims /\ NotTrimming.ptr = ram_end
    BY <1>2 DEF HeapInit, NotTrimming, Trims
  <2>. QED
    BY <2>1 DEF TrimOK
<1>. QED
  BY <1>8, <1>9, <1>10, <1>11, <1>12 DEF HeapInv, HeapInit, RefusedOnlyWhenFull

\* NextFree finds the lowest free block when none is before the place it starts from.
LEMMA NextFreeIsLowest ==
  ASSUME NEW h, ChainOK(h), NEW from \in Offsets, \A k \in Offsets : Available(h, k) => k >= from
  PROVE  Lowest(h, NextFree(h, from))
<1>. DEFINE later == {k \in Offsets : h[k].is /\ k >= from /\ (~h[k].used \/ k = ram_end)}
<1>1. later = {k \in Offsets : Available(h, k)}
  BY DEF Available
<1>2. later \in SUBSET Nat
  BY HeapNumbers
<1>3. ram_end \in later
  BY <1>1, HeapNumbers DEF ChainOK, Available
<1>4. NextFree(h, from) = FirstOf(later)
  BY DEF NextFree, FirstOf
<1>. HIDE DEF later
<1>5. FirstOf(later) \in later /\ \A m \in later : FirstOf(later) <= m
  BY <1>2, <1>3, FirstOfIsLeast
<1>. QED
  BY <1>1, <1>4, <1>5 DEF Lowest

\* g is h after the block at k was taken, or kept, with room for size, and the rest of it, if any,
\* was made a block of its own.
Took(h, g, k, size) ==
  /\ ChainOK(g)
  /\ \A j \in Offsets : /\ h[j].is => g[j].is
                        /\ g[j].used <=> (h[j].used \/ j = k)
                        /\ h[j].is /\ j # k => g[j].next = h[j].next
                        /\ g[j].is /\ ~h[j].is => j > k /\ g[j].next = h[k].next
  /\ Room(g, k) >= size

\* Splitting the block and marking it used does that.
LEMMA SplitTakes ==
  ASSUME NEW h, ChainOK(h), NEW k \in Offsets, h[k].is, k # ram_end,
         NEW size \in Nat, size >= MIN_SIZE_ALIGNED, SplitsOff(Room(h, k), size)
  PROVE  LET g == Split(h, k, k + SIZEOF_STRUCT_MEM + size, h[k].next)
         IN /\ Took(h, MarkUsed(g, k), k, size)
            /\ h[k].used => Took(h, g, k, size)
            /\ \A l \in Offsets : Available(h, l) => Available(g, l)
            /\ Available(g, k + SIZEOF_STRUCT_MEM + size) /\ k + SIZEOF_STRUCT_MEM + size \in Offsets
            /\ \A j \in Offsets : g[j].is /\ ~h[j].is => j = k + SIZEOF_STRUCT_MEM + size
<1>. DEFINE n == h[k].next
            k2 == k + SIZEOF_STRUCT_MEM + size
            g == Split(h, k, k2, n)
            f == MarkUsed(g, k)
<1>1. n \in Offsets /\ Room(h, k) = n - (k + SIZEOF_STRUCT_MEM)
  BY Neighbours DEF Room
<1>2. n - (k + SIZEOF_STRUCT_MEM) >= size + SIZEOF_STRUCT_MEM + MIN_SIZE_ALIGNED
  BY <1>1 DEF SplitsOff
<1>3. n = h[k].next
  OBVIOUS
<1>. HIDE DEF n
<1>4. /\ k2 \in Nat /\ k2 < n /\ k2 > k /\ n >= k2 + SIZEOF_STRUCT_MEM + MIN_SIZE_ALIGNED
      /\ k2 >= k + SIZEOF_STRUCT_MEM + MIN_SIZE_ALIGNED /\ k2 - (k + SIZEOF_STRUCT_MEM) = size
  BY <1>1, <1>2, HeapNumbers
<1>5. k2 \in Offsets /\ k2 # k /\ n # k /\ n # k2
  <2>1. k \in Nat /\ n \in Nat /\ n <= MEM_SIZE_ALIGNED /\ MEM_SIZE_ALIGNED \in Nat
    BY <1>1, HeapNumbers, HeapAssumption DEF ram_end
  <2>. HIDE DEF k2
  <2>. QED
    BY <1>4, <2>1 DEF Offsets
<1>6. k + SIZEOF_STRUCT_MEM + size = k2
  OBVIOUS
<1>. HIDE DEF k2
<1>7. SplitOf(h, g, k, k2, n)
  BY <1>1, <1>5, SplitFields DEF ChainOK
<1>8. ChainOK(g) /\ ~h[k2].is /\ k2 # ram_end /\ k2 # 0
  <2>. HIDE DEF g
  <2>. QED
    BY <1>1, <1>3, <1>4, <1>5, <1>7, SplitOK
<1>. HIDE DEF g
<1>9. \A j \in Offsets :
        /\ g[j].is <=> (h[j].is \/ j = k2)
        /\ g[j].used <=> (h[j].used /\ j # k2)
        /\ g[j].is => g[j].next = IF j = k THEN k2 ELSE IF j = k2 THEN n ELSE h[j].next
  BY <1>7 DEF SplitOf
<1>10. g[k].is /\ g[k].next = k2
  BY <1>9
<1>11. ~h[k2].used
  BY <1>5, <1>8 DEF ChainOK
<1>12. /\ ChainOK(f)
       /\ \A j \in Offsets : /\ f[j].is <=> g[j].is
                             /\ f[j].used <=> (g[j].used \/ j = k)
                             /\ f[j].next = g[j].next
  <2>1. Marked(g, f, k) /\ f[k].used
    BY <1>8, MarkFields DEF ChainOK
  <2>. HIDE DEF f
  <2>2. ChainOK(f)
    BY <1>8, <1>10, <2>1, UseOK
  <2>. QED
    BY <2>1, <2>2 DEF Marked
<1>. HIDE DEF f
<1>13. Took(h, f, k, size)
  <2>1. Room(f, k) >= size
    <3>1. f[k].next = k2
      BY <1>10, <1>12
    <3>2. Room(f, k) = size
      BY <1>4, <3>1 DEF Room
    <3>. QED
      BY <3>2
  <2>2. ASSUME NEW j \in Offsets
        PROVE  /\ h[j].is => f[j].is
               /\ f[j].used <=> (h[j].used \/ j = k)
               /\ h[j].is /\ j # k => f[j].next = h[j].next
               /\ f[j].is /\ ~h[j].is => j > k /\ f[j].next = h[k].next
    BY <1>3, <1>4, <1>5, <1>8, <1>9, <1>11, <1>12
  <2>. QED
    BY <1>12, <2>1, <2>2 DEF Took
<1>14. ASSUME h[k].used
       PROVE  Took(h, g, k, size)
  <2>1. Room(g, k) >= size
    <3>1. Room(g, k) = size
      BY <1>4, <1>10 DEF Room
    <3>. QED
      BY <3>1
  <2>2. ASSUME NEW j \in Offsets
        PROVE  /\ h[j].is => g[j].is
               /\ g[j].used <=> (h[j].used \/ j = k)
               /\ h[j].is /\ j # k => g[j].next = h[j].next
               /\ g[j].is /\ ~h[j].is => j > k /\ g[j].next = h[k].next
    BY <1>3, <1>4, <1>5, <1>8, <1>9, <1>11, <1>14
  <2>. QED
    BY <1>8, <2>1, <2>2 DEF Took
<1>15. \A l \in Offsets : Available(h, l) => Available(g, l)
  BY <1>8, <1>9, <1>11 DEF Available
<1>16. Available(g, k2)
  BY <1>5, <1>9, <1>11 DEF Available
<1>17. \A j \in Offsets : g[j].is /\ ~h[j].is => j = k2
  BY <1>9
<1>. QED
  BY <1>3, <1>5, <1>6, <1>13, <1>14, <1>15, <1>16, <1>17 DEF f, g, n

\* What is left after a block was taken: free neighbours stay merged, everybody keeps his room.
LEMMA TookKeeps ==
  ASSUME NEW h, NEW g, NEW k \in Offsets, NEW size \in Nat, Took(h, g, k, size), ChainOK(h), Merged(h),
         h[k].is, k # ram_end, h[h[k].next].used
  PROVE  /\ Merged(g)
         /\ \A j \in Offsets : Available(g, j) => Available(h, j) \/ j > k
         /\ \A j \in Offsets : h[j].used /\ j # k => Room(g, j) = Room(h, j)
<1>1. \A j \in Offsets : /\ h[j].is => g[j].is
                         /\ g[j].used <=> (h[j].used \/ j = k)
                         /\ h[j].is /\ j # k => g[j].next = h[j].next
                         /\ g[j].is /\ ~h[j].is => j > k /\ g[j].next = h[k].next
  BY DEF Took
<1>2. ASSUME NEW j \in Offsets, g[j].is, ~g[j].used
      PROVE  g[g[j].next].used
  <2>0. j # k /\ ~h[j].used
    BY <1>1, <1>2
  <2>1. CASE h[j].is
    <3>1. g[j].next = h[j].next /\ h[h[j].next].used
      BY <1>1, <2>0, <2>1 DEF Merged
    <3>2. h[j].next \in Offsets
      BY <2>1 DEF ChainOK, Headers
    <3>. QED
      BY <1>1, <3>1, <3>2
  <2>2. CASE ~h[j].is
    <3>1. g[j].next = h[k].next /\ h[k].next \in Offsets
      BY <1>1, <1>2, <2>2, Neighbours
    <3>. QED
      BY <1>1, <3>1
  <2>. QED
    BY <2>1, <2>2
<1>3. ASSUME NEW j \in Offsets, h[j].used, j # k
      PROVE  Room(g, j) = Room(h, j)
  BY <1>1, <1>3 DEF Room, ChainOK
<1>4. ASSUME NEW j \in Offsets, Available(g, j)
      PROVE  Available(h, j) \/ j > k
  BY <1>1, <1>4 DEF Available
<1>. QED
  BY <1>2, <1>3, <1>4 DEF Merged

\* The room of a block is a number.
LEMMA RoomIsInt ==
  ASSUME NEW h, ChainOK(h), NEW k \in Offsets
  PROVE  Room(h, k) \in Int
<1>. DEFINE x == h[k].next
<1>1. x \in Offsets
  BY DEF ChainOK, Headers
<1>2. Room(h, k) = x - (k + SIZEOF_STRUCT_MEM)
  BY DEF Room
<1>. HIDE DEF x
<1>. QED
  BY <1>1, <1>2, HeapNumbers

\* Who held a block keeps it and its room, and the block being trimmed keeps the room that was read,
\* when the used blocks are left as they are but for block k, which somebody now holds or nobody.
LEMMA HoldersStay ==
  ASSUME NEW h, NEW g, NEW b, NEW c, NEW k \in Offsets, k # ram_end, HoldOK(h, b),
         c \in [Offsets -> Nat], \A j \in Offsets : j # k => c[j] = b[j],
         c[k] > 0 <=> g[k].used, c[k] > 0 => Room(g, k) >= c[k],
         \A j \in Offsets : j # k => (g[j].used <=> h[j].used),
         \A j \in Offsets : h[j].used /\ j # k => Room(g, j) = Room(h, j)
  PROVE  /\ HoldOK(g, c)
         /\ \A t : TrimOK(h, b, t) /\ t.ptr # k => TrimOK(g, c, t)
<1>1. ram_end \in Offsets
  BY HeapNumbers
<1>2. ASSUME NEW j \in Offsets, c[j] > 0
      PROVE  Room(g, j) >= c[j]
  <2>1. CASE j = k
    BY <1>2, <2>1
  <2>2. CASE j # k
    <3>1. b[j] > 0 /\ c[j] = b[j]
      BY <1>2, <2>2
    <3>2. j # ram_end
      BY <1>1, <3>1, HeapNumbers DEF HoldOK
    <3>3. h[j].used /\ Room(h, j) >= b[j]
      BY <3>1, <3>2 DEF HoldOK
    <3>. QED
      BY <2>2, <3>1, <3>3
  <2>. QED
    BY <2>1, <2>2
<1>3. HoldOK(g, c)
  <2>1. c[ram_end] = 0
    BY <1>1 DEF HoldOK
  <2>2. \A j \in Offsets : j # ram_end => (c[j] > 0 <=> g[j].used)
    BY DEF HoldOK
  <2>. QED
    BY <1>2, <2>1, <2>2 DEF HoldOK
<1>4. ASSUME NEW t, TrimOK(h, b, t), t.ptr # k
      PROVE  TrimOK(g, c, t)
  <2>1. CASE t.ptr = ram_end
    BY <1>4, <2>1 DEF TrimOK
  <2>2. CASE t.ptr # ram_end
    <3>1. t.ptr \in Offsets /\ c[t.ptr] = b[t.ptr] /\ b[t.ptr] > 0
      BY <1>4, <2>2 DEF TrimOK, Trims
    <3>2. Room(g, t.ptr) = Room(h, t.ptr)
      BY <1>4, <2>2, <3>1 DEF HoldOK
    <3>. QED
      BY <1>4, <2>2, <3>1, <3>2 DEF TrimOK
  <2>. QED
    BY <2>1, <2>2
<1>. QED
  BY <1>3, <1>4

\* mem_malloc: the lowest block that fits is taken, and where none is visited none fits.
LEMMA MallocKeepsInv ==
  ASSUME HeapInv, NEW asked \in MallocSizes, mem_malloc(asked)
  PROVE  HeapInv'
<1>. DEFINE size == AtLeastMin(asked)
            fit == Fits(size)
            k == CHOOSE j \in fit : \A i \in fit : j <= i
            split == IF SplitsOff(Room(ram, k), size)
                       THEN Split(ram, k, k + SIZEOF_STRUCT_MEM + size, ram[k].next) ELSE ram
            taken == MarkUsed(split, k)
<1>1. asked \in Nat /\ asked > 0 /\ size \in Nat /\ size >= MIN_SIZE_ALIGNED /\ size >= asked /\ size > 0
  <2>1. asked \in Nat /\ asked > 0
    BY HeapAssumption DEF mem_malloc
  <2>. QED
    BY <2>1, HeapNumbers DEF AtLeastMin
<1>2. /\ trim' = trim
      /\ IF size > MEM_SIZE_ALIGNED \/ fit = {}
           THEN refused' = size /\ UNCHANGED <<ram, lfree, held>>
           ELSE /\ ram' = taken /\ lfree' = IF k = lfree THEN NextFree(taken, k) ELSE lfree
                /\ held' = [held EXCEPT ![k] = asked] /\ refused' = 0
  BY DEF mem_malloc, MarkUsed
<1>3. ChainOK(ram) /\ Merged(ram) /\ Lowest(ram, lfree) /\ HoldOK(ram, held) /\ TrimOK(ram, held, trim)
  BY DEF HeapInv
<1>4. ram_end = MEM_SIZE_ALIGNED
  BY DEF ram_end
<1>5. \A j \in fit : j \in Offsets /\ ram[j].is /\ ~ram[j].used /\ Room(ram, j) >= size
  BY DEF Fits
<1>6. \A j \in Offsets : ram[j].is /\ j >= lfree /\ j < MEM_SIZE_ALIGNED - size /\ ~ram[j].used
                           /\ Room(ram, j) >= size => j \in fit
  BY DEF Fits
<1>7. k = FirstOf(fit)
  BY DEF FirstOf
<1>. HIDE DEF size, fit, k
<1>8. CASE size > MEM_SIZE_ALIGNED \/ fit = {}
  <2>1. refused' = size /\ ram' = ram /\ lfree' = lfree /\ held' = held
    BY <1>2, <1>8
  <2>2. ASSUME NEW j \in Offsets, ram[j].is, ~ram[j].used
        PROVE  Room(ram, j) < size
    <3>. DEFINE x == ram[j].next
    <3>1. j # ram_end
      BY <1>3, <2>2 DEF ChainOK
    <3>2. x \in Offsets
      BY <1>3, <2>2, <3>1, Neighbours
    <3>3. Room(ram, j) = x - (j + SIZEOF_STRUCT_MEM)
      BY DEF Room
    <3>4. j >= lfree
      BY <1>3, <2>2, HeapNumbers DEF Lowest, Available
    <3>5. fit = {} => ~(j < MEM_SIZE_ALIGNED - size) \/ ~(Room(ram, j) >= size)
      BY <1>6, <2>2, <3>4
    <3>. HIDE DEF x
    <3>6. /\ x \in Nat /\ x <= MEM_SIZE_ALIGNED /\ MEM_SIZE_ALIGNED \in Nat /\ j \in Nat
          /\ SIZEOF_STRUCT_MEM \in Nat /\ SIZEOF_STRUCT_MEM > 0
      BY <1>4, <3>2, HeapNumbers
    <3>. DEFINE r == Room(ram, j)
    <3>7. r = x - (j + SIZEOF_STRUCT_MEM)
      BY <3>3
    <3>8. size > MEM_SIZE_ALIGNED \/ ~(j < MEM_SIZE_ALIGNED - size) \/ ~(r >= size)
      BY <1>8, <3>5
    <3>. HIDE DEF r
    <3>9. r < size
      BY <1>1, <3>6, <3>7, <3>8
    <3>. QED
      BY <3>9 DEF r
  <2>3. RefusedOnlyWhenFull'
    BY <2>1, <2>2 DEF RefusedOnlyWhenFull, Room
  <2>. QED
    BY <1>1, <1>2, <1>3, <2>1, <2>3 DEF HeapInv
<1>9. CASE ~(size > MEM_SIZE_ALIGNED) /\ fit # {}
  <2>1. ram' = taken /\ lfree' = (IF k = lfree THEN NextFree(taken, k) ELSE lfree)
        /\ held' = [held EXCEPT ![k] = asked] /\ refused' = 0
    BY <1>2, <1>9
  <2>2. k \in Offsets /\ ram[k].is /\ ~ram[k].used /\ Room(ram, k) >= size
    <3>1. fit \in SUBSET Nat
      BY <1>5, HeapNumbers
    <3>2. k \in fit
      BY <1>7, <1>9, <3>1, FirstOfIsLeast
    <3>. QED
      BY <1>5, <3>2
  <2>3. k # ram_end /\ ram[ram[k].next].used
    BY <1>3, <2>2 DEF ChainOK, Merged
  <2>4. Took(ram, taken, k, size)
    <3>1. CASE SplitsOff(Room(ram, k), size)
      <4>1. split = Split(ram, k, k + SIZEOF_STRUCT_MEM + size, ram[k].next)
        BY <3>1
      <4>. HIDE DEF split
      <4>2. taken = MarkUsed(Split(ram, k, k + SIZEOF_STRUCT_MEM + size, ram[k].next), k)
        BY <4>1
      <4>. HIDE DEF taken
      <4>. QED
        BY <1>1, <1>3, <2>2, <2>3, <3>1, <4>2, SplitTakes
    <3>2. CASE ~SplitsOff(Room(ram, k), size)
      <4>1. taken = MarkUsed(ram, k)
        BY <3>2
      <4>. HIDE DEF taken
      <4>2. Marked(ram, taken, k) /\ taken[k].used
        BY <1>3, <2>2, <4>1, MarkFields DEF ChainOK
      <4>3. ChainOK(taken)
        BY <1>3, <2>2, <2>3, <4>2, UseOK
      <4>4. Room(taken, k) = Room(ram, k)
        BY <2>2, <4>2 DEF Marked, Room
      <4>. QED
        BY <2>2, <4>2, <4>3, <4>4 DEF Took, Marked
    <3>. QED
      BY <3>1, <3>2
  <2>. HIDE DEF taken
  <2>5. ChainOK(taken) /\ Room(taken, k) >= size
        /\ \A j \in Offsets : /\ ram[j].is => taken[j].is
                              /\ taken[j].used <=> (ram[j].used \/ j = k)
    BY <2>4 DEF Took
  <2>6. /\ Merged(taken)
        /\ \A j \in Offsets : Available(taken, j) => Available(ram, j) \/ j > k
        /\ \A j \in Offsets : ram[j].used /\ j # k => Room(taken, j) = Room(ram, j)
    BY <1>1, <1>3, <2>2, <2>3, <2>4, TookKeeps
  <2>7. lfree \in Nat /\ k \in Nat /\ lfree \in Offsets /\ lfree <= k
    BY <1>3, <2>2, HeapNumbers DEF Lowest, Available
  <2>8. \A j \in Offsets : Available(taken, j) => lfree <= j
    <3>. SUFFICES ASSUME NEW j \in Offsets, Available(taken, j)
                  PROVE  lfree <= j
      OBVIOUS
    <3>1. Available(ram, j) \/ j > k
      BY <2>6
    <3>2. j \in Nat
      BY HeapNumbers
    <3>. QED
      BY <1>3, <2>7, <3>1, <3>2 DEF Lowest
  <2>9. Lowest(taken, lfree')
    <3>1. CASE k = lfree
      <4>1. lfree' = NextFree(taken, k)
        BY <2>1, <3>1
      <4>2. \A j \in Offsets : Available(taken, j) => j >= k
        BY <2>7, <2>8, <3>1, HeapNumbers
      <4>. QED
        BY <2>2, <2>5, <4>1, <4>2, NextFreeIsLowest
    <3>2. CASE k # lfree
      <4>1. lfree' = lfree
        BY <2>1, <3>2
      <4>2. Available(taken, lfree)
        BY <1>3, <2>5, <2>7, <3>2 DEF Lowest, Available
      <4>. QED
        BY <2>7, <2>8, <4>1, <4>2 DEF Lowest
    <3>. QED
      BY <3>1, <3>2
  <2>10. held' \in [Offsets -> Nat] /\ held'[k] = asked /\ \A j \in Offsets : j # k => held'[j] = held[j]
    BY <1>1, <1>3, <2>1, <2>2 DEF HoldOK
  <2>11. trim.ptr # k
    <3>1. held[k] = 0
      BY <1>3, <2>2, <2>3 DEF HoldOK
    <3>. QED
      BY <1>3, <2>3, <3>1 DEF TrimOK
  <2>12. HoldOK(taken, held') /\ TrimOK(taken, held', trim)
    <3>1. Room(taken, k) >= held'[k]
      <4>1. Room(taken, k) \in Int
        BY <2>2, <2>5, RoomIsInt
      <4>. QED
        BY <1>1, <2>5, <2>10, <4>1
    <3>2. held'[k] > 0 <=> taken[k].used
      BY <1>1, <2>2, <2>5, <2>10
    <3>3. \A j \in Offsets : j # k => (taken[j].used <=> ram[j].used)
      BY <2>5
    <3>. QED
      BY <1>3, <2>2, <2>3, <2>6, <2>10, <2>11, <3>1, <3>2, <3>3, HoldersStay
  <2>. QED
    BY <1>2, <2>1, <2>5, <2>6, <2>9, <2>12 DEF HeapInv, RefusedOnlyWhenFull
<1>. QED
  BY <1>8, <1>9

\* g is h after block k was freed, and merged or not: a whole chain of headers h had, in which the
\* other used blocks are what they were.
Freed(h, g, k) ==
  /\ ChainOK(g)
  /\ \A j \in Offsets : /\ g[j].is => h[j].is
                        /\ g[j].used <=> (h[j].used /\ j # k)
                        /\ h[j].used /\ j # k => g[j].next = h[j].next

\* Free neighbours are merged, but those of block k.
NearlyMerged(g, k) ==
  \A j \in Offsets : g[j].is /\ ~g[j].used /\ j # k /\ g[j].next # k => g[g[j].next].used

\* The first half of plug_holes: the block behind is used then.
LEMMA PlugNextOK ==
  ASSUME NEW h, NEW s, NEW k \in Offsets, k # ram_end, Freed(h, s.ram, k), s.ram[k].is,
         NearlyMerged(s.ram, k), Lowest(s.ram, s.lfree)
  PROVE  LET t == PlugNext(s, k)
         IN /\ Freed(h, t.ram, k) /\ t.ram[k].is
            /\ NearlyMerged(t.ram, k) /\ Lowest(t.ram, t.lfree)
            /\ t.ram[t.ram[k].next].used
<1>. DEFINE g == s.ram
            l == s.lfree
            n == g[k].next
            m == g[n].next
            t == PlugNext(s, k)
            f == Swallow(g, k)
<1>1. ChainOK(g) /\ g[k].is /\ ~g[k].used /\ NearlyMerged(g, k) /\ Lowest(g, l)
  BY DEF Freed
<1>2. n \in Offsets /\ n > k /\ g[n].is
  <2>1. n \in Offsets /\ n >= k + SIZEOF_STRUCT_MEM + MIN_SIZE_ALIGNED
    BY <1>1, Neighbours
  <2>2. g[n].is
    BY <1>1 DEF ChainOK, NextOK
  <2>. HIDE DEF n
  <2>. QED
    BY <2>1, <2>2, HeapNumbers
<1>3. CASE ~MergeNext(g, k)
  <2>1. t = s
    BY <1>3, Zenon DEF PlugNext
  <2>2. g[n].used
    <3>1. k # n
      BY <1>2, HeapNumbers
    <3>. QED
      BY <1>1, <1>3, <3>1 DEF MergeNext, ChainOK
  <2>. QED
    BY <1>1, <2>1, <2>2
<1>4. CASE MergeNext(g, k)
  <2>1. t.ram = f /\ t.lfree = IF l = n THEN k ELSE l
    <3>1. t = [ram |-> f, lfree |-> IF l = n THEN k ELSE l]
      BY <1>4, Zenon DEF PlugNext
    <3>. HIDE DEF t, f, l, n
    <3>. QED
      BY <3>1, Zenon
  <2>2. n # ram_end /\ ~g[n].used
    BY <1>4 DEF MergeNext
  <2>3. m \in Offsets /\ m > n
    <3>1. m \in Offsets /\ m >= n + SIZEOF_STRUCT_MEM + MIN_SIZE_ALIGNED
      BY <1>1, <1>2, <2>2, Neighbours
    <3>. HIDE DEF m, n
    <3>. QED
      BY <1>2, <3>1, HeapNumbers
  <2>4. SwallowOf(g, f, k)
    BY <1>1, <2>2, SwallowFields
  <2>5. ChainOK(f)
    <3>. HIDE DEF g, f
    <3>. QED
      BY <1>1, <2>2, <2>4, SwallowOK DEF n
  <2>6. \A j \in Offsets :
          /\ f[j].is <=> (g[j].is /\ j # n)
          /\ f[j].used <=> (g[j].used /\ j # n)
          /\ j # n => f[j].next = IF j = k THEN m ELSE g[j].next
    BY <2>4 DEF SwallowOf
  <2>7. \A j \in Offsets : /\ g[j].is => h[j].is
                           /\ g[j].used <=> (h[j].used /\ j # k)
                           /\ h[j].used /\ j # k => g[j].next = h[j].next
    BY DEF Freed
  <2>. HIDE DEF n, m, g, f, l
  <2>8. n # k /\ m # n /\ m # k
    BY <1>2, <2>3, HeapNumbers
  <2>9. g[m].used
    BY <1>1, <1>2, <2>2, <2>8 DEF NearlyMerged, m
  <2>10. f[k].is /\ f[k].next = m /\ f[m].used
    BY <1>1, <2>3, <2>6, <2>8, <2>9
  <2>11. Freed(h, f, k)
    <3>1. ASSUME NEW j \in Offsets
          PROVE  /\ f[j].is => h[j].is
                 /\ f[j].used <=> (h[j].used /\ j # k)
                 /\ h[j].used /\ j # k => f[j].next = h[j].next
      BY <2>2, <2>6, <2>7
    <3>. QED
      BY <2>5, <3>1 DEF Freed
  <2>12. NearlyMerged(f, k)
    <3>. SUFFICES ASSUME NEW j \in Offsets, f[j].is, ~f[j].used, j # k, f[j].next # k
                  PROVE  f[f[j].next].used
      BY DEF NearlyMerged
    <3>1. g[j].is /\ ~g[j].used /\ j # n /\ f[j].next = g[j].next
      BY <2>6
    <3>2. g[g[j].next].used /\ g[j].next \in Offsets
      BY <1>1, <3>1 DEF NearlyMerged, ChainOK, Headers
    <3>. QED
      BY <2>2, <2>6, <3>1, <3>2
  <2>13. t.lfree = l /\ Lowest(f, l)
    <3>1. l \in Offsets /\ l <= k
      BY <1>1 DEF Lowest, Available
    <3>2. l # n
      BY <1>2, <3>1, HeapNumbers
    <3>3. \A j \in Offsets : Available(f, j) => Available(g, j)
      BY <2>2, <2>6 DEF Available
    <3>4. Available(f, l)
      BY <1>1, <2>6, <3>1, <3>2 DEF Lowest, Available
    <3>. QED
      BY <1>1, <2>1, <3>1, <3>2, <3>3, <3>4 DEF Lowest
  <2>. HIDE DEF t
  <2>. QED
    BY <2>1, <2>10, <2>11, <2>12, <2>13 DEF t
<1>. QED
  BY <1>3, <1>4

\* The second half: no free neighbours are left.
LEMMA PlugPrevOK ==
  ASSUME NEW h, NEW s, NEW k \in Offsets, k # ram_end, Freed(h, s.ram, k), s.ram[k].is,
         NearlyMerged(s.ram, k), Lowest(s.ram, s.lfree), s.ram[s.ram[k].next].used
  PROVE  LET t == PlugPrev(s, k)
         IN Freed(h, t.ram, k) /\ Merged(t.ram) /\ Lowest(t.ram, t.lfree)
<1>. DEFINE g == s.ram
            l == s.lfree
            p == g[k].prev
            m == g[k].next
            t == PlugPrev(s, k)
            f == Swallow(g, p)
<1>1. ChainOK(g) /\ g[k].is /\ ~g[k].used /\ NearlyMerged(g, k) /\ Lowest(g, l) /\ g[m].used
  BY DEF Freed
<1>2. \A j \in Offsets : g[j].is /\ ~g[j].used /\ g[j].next = k => j = p
  <2>. SUFFICES ASSUME NEW j \in Offsets, g[j].is, ~g[j].used, g[j].next = k
                PROVE  j = p
    OBVIOUS
  <2>1. j # ram_end
    BY <1>1 DEF ChainOK
  <2>. QED
    BY <1>1, <2>1 DEF ChainOK, NextOK
<1>3. CASE ~MergePrev(g, k)
  <2>1. t = s
    BY <1>3, Zenon DEF PlugPrev
  <2>2. Merged(g)
    <3>. SUFFICES ASSUME NEW j \in Offsets, g[j].is, ~g[j].used
                  PROVE  g[g[j].next].used
      BY DEF Merged
    <3>1. j # k => g[j].next # k
      BY <1>2, <1>3 DEF MergePrev
    <3>. QED
      BY <1>1, <3>1 DEF NearlyMerged
  <2>. QED
    BY <1>1, <2>1, <2>2
<1>4. CASE MergePrev(g, k)
  <2>1. t.ram = f /\ t.lfree = IF l = k THEN p ELSE l
    <3>1. t = [ram |-> f, lfree |-> IF l = k THEN p ELSE l]
      BY <1>4, Zenon DEF PlugPrev
    <3>. HIDE DEF t, f, l, p
    <3>. QED
      BY <3>1, Zenon
  <2>2. p # k /\ ~g[p].used
    BY <1>4 DEF MergePrev
  <2>3. k # 0
    BY <1>1, <2>2 DEF ChainOK
  <2>4. p \in Offsets /\ p < k /\ p # ram_end /\ g[p].is /\ g[p].next = k
    BY <1>1, <2>3, Neighbours DEF ChainOK, PrevOK
  <2>5. SwallowOf(g, f, p)
    <3>. HIDE DEF p, g
    <3>. QED
      BY <1>1, <2>4, SwallowFields
  <2>6. ChainOK(f)
    <3>. HIDE DEF g, f, p
    <3>. QED
      BY <1>1, <2>4, <2>5, SwallowOK
  <2>7. \A j \in Offsets :
          /\ f[j].is <=> (g[j].is /\ j # k)
          /\ f[j].used <=> (g[j].used /\ j # k)
          /\ j # k => f[j].next = IF j = p THEN m ELSE g[j].next
    BY <2>4, <2>5 DEF SwallowOf
  <2>8. \A j \in Offsets : /\ g[j].is => h[j].is
                           /\ g[j].used <=> (h[j].used /\ j # k)
                           /\ h[j].used /\ j # k => g[j].next = h[j].next
    BY DEF Freed
  <2>9. m \in Offsets
    BY <1>1 DEF ChainOK, Headers
  <2>. HIDE DEF p, m, g, f, l
  <2>10. Freed(h, f, k)
    <3>1. ASSUME NEW j \in Offsets
          PROVE  /\ f[j].is => h[j].is
                 /\ f[j].used <=> (h[j].used /\ j # k)
                 /\ h[j].used /\ j # k => f[j].next = h[j].next
      BY <2>2, <2>7, <2>8
    <3>. QED
      BY <2>6, <3>1 DEF Freed
  <2>11. Merged(f)
    <3>. SUFFICES ASSUME NEW j \in Offsets, f[j].is, ~f[j].used
                  PROVE  f[f[j].next].used
      BY DEF Merged
    <3>1. g[j].is /\ ~g[j].used /\ j # k
      BY <2>7
    <3>2. CASE j = p
      BY <1>1, <2>7, <2>9, <3>1, <3>2
    <3>3. CASE j # p
      <4>1. g[j].next # k /\ g[j].next \in Offsets
        BY <1>1, <1>2, <3>1, <3>3 DEF ChainOK, Headers
      <4>2. g[g[j].next].used
        BY <1>1, <3>1, <4>1 DEF NearlyMerged
      <4>. QED
        BY <2>7, <3>1, <3>3, <4>1, <4>2
    <3>. QED
      BY <3>2, <3>3
  <2>12. t.lfree = l /\ Lowest(f, l)
    <3>1. l \in Offsets /\ l <= p
      BY <1>1, <2>2, <2>4 DEF Lowest, Available
    <3>2. l # k
      <4>1. l \in Nat /\ p \in Nat /\ k \in Nat
        BY <2>4, <3>1, HeapNumbers, Zenon
      <4>. QED
        BY <2>4, <3>1, <4>1, SMT
    <3>3. \A j \in Offsets : Available(f, j) => Available(g, j)
      BY <1>1, <2>7 DEF Available
    <3>4. Available(f, l)
      BY <1>1, <2>7, <3>1, <3>2 DEF Lowest, Available
    <3>. QED
      BY <1>1, <2>1, <3>1, <3>2, <3>3, <3>4 DEF Lowest
  <2>. HIDE DEF t
  <2>. QED
    BY <2>1, <2>10, <2>11, <2>12 DEF t
<1>. QED
  BY <1>3, <1>4

\* mem_free: the block and its free neighbours become one.
LEMMA FreeKeepsInv ==
  ASSUME HeapInv, NEW k \in Offsets, mem_free(k)
  PROVE  HeapInv'
<1>. DEFINE g == MarkFree(ram, k)
            l == IF k < lfree THEN k ELSE lfree
            s == [ram |-> g, lfree |-> l]
            t == PlugNext(s, k)
            u == PlugPrev(t, k)
<1>1. /\ held[k] > 0 /\ trim.ptr # k /\ ram' = u.ram /\ lfree' = u.lfree
      /\ held' = [held EXCEPT ![k] = 0] /\ refused' = 0 /\ trim' = trim
  BY Zenon DEF mem_free, plug_holes, MarkFree
<1>2. ChainOK(ram) /\ Merged(ram) /\ Lowest(ram, lfree) /\ HoldOK(ram, held) /\ TrimOK(ram, held, trim)
  BY DEF HeapInv
<1>3. k # ram_end /\ ram[k].used /\ ram[k].is
  <2>1. k # ram_end
    BY <1>1, <1>2, HeapNumbers DEF HoldOK
  <2>. QED
    BY <1>1, <1>2, <2>1 DEF HoldOK, ChainOK
<1>4. s.ram = g /\ s.lfree = l
  <2>. HIDE DEF g, l
  <2>. QED
    BY Zenon
<1>5. Marked(ram, g, k) /\ ~g[k].used
  BY <1>2, MarkFields DEF ChainOK
<1>. HIDE DEF s, g
<1>6. Freed(ram, g, k) /\ g[k].is
  <2>1. ChainOK(g)
    BY <1>2, <1>3, <1>5, UseOK
  <2>. QED
    BY <1>3, <1>5, <2>1 DEF Freed, Marked
<1>7. NearlyMerged(g, k)
  <2>. SUFFICES ASSUME NEW j \in Offsets, g[j].is, ~g[j].used, j # k, g[j].next # k
                PROVE  g[g[j].next].used
    BY DEF NearlyMerged
  <2>1. ram[j].is /\ ~ram[j].used /\ g[j].next = ram[j].next
    BY <1>5 DEF Marked
  <2>2. ram[ram[j].next].used /\ ram[j].next \in Offsets
    BY <1>2, <2>1 DEF Merged, ChainOK, Headers
  <2>. QED
    BY <1>5, <2>1, <2>2 DEF Marked
<1>8. Lowest(g, l)
  <2>1. lfree \in Offsets /\ lfree \in Nat /\ k \in Nat /\ l \in Offsets
    BY <1>2, HeapNumbers DEF Lowest
  <2>2. \A j \in Offsets : Available(g, j) <=> Available(ram, j) \/ j = k
    BY <1>3, <1>5 DEF Available, Marked
  <2>3. Available(g, l)
    BY <1>2, <2>1, <2>2 DEF Lowest
  <2>4. ASSUME NEW j \in Offsets, Available(g, j)
        PROVE  l <= j
    <3>1. j \in Nat /\ (j = k \/ lfree <= j)
      BY <1>2, <2>2, <2>4, HeapNumbers DEF Lowest
    <3>. QED
      BY <2>1, <3>1
  <2>. QED
    BY <2>1, <2>3, <2>4 DEF Lowest
<1>. HIDE DEF l
<1>9. /\ Freed(ram, t.ram, k) /\ t.ram[k].is
      /\ NearlyMerged(t.ram, k) /\ Lowest(t.ram, t.lfree)
      /\ t.ram[t.ram[k].next].used
  BY <1>3, <1>4, <1>6, <1>7, <1>8, PlugNextOK
<1>. HIDE DEF t
<1>10. Freed(ram, u.ram, k) /\ Merged(u.ram) /\ Lowest(u.ram, u.lfree)
  BY <1>3, <1>9, PlugPrevOK
<1>. HIDE DEF u
<1>11. Freed(ram, ram', k) /\ Merged(ram') /\ Lowest(ram', lfree')
  BY <1>1, <1>10
<1>12. held' \in [Offsets -> Nat] /\ held'[k] = 0 /\ \A j \in Offsets : j # k => held'[j] = held[j]
  BY <1>1, <1>2 DEF HoldOK
<1>13. HoldOK(ram', held') /\ TrimOK(ram', held', trim)
  <2>1. /\ ~ram'[k].used
        /\ \A j \in Offsets : j # k => (ram'[j].used <=> ram[j].used)
    BY <1>11 DEF Freed
  <2>2. \A j \in Offsets : ram[j].used /\ j # k => Room(ram', j) = Room(ram, j)
    BY <1>11 DEF Freed, Room
  <2>3. held'[k] > 0 <=> ram'[k].used
    BY <1>12, <2>1
  <2>4. held'[k] > 0 => Room(ram', k) >= held'[k]
    BY <1>12
  <2>5. trim.ptr # k
    BY <1>1
  <2>. QED
    BY <1>2, <1>3, <1>12, <2>1, <2>2, <2>3, <2>4, <2>5, HoldersStay
<1>. QED
  BY <1>1, <1>11, <1>13 DEF HeapInv, RefusedOnlyWhenFull, Freed

\* mem_trim before the mutex: the size read is that of the block.
LEMMA TrimBeginsKeepsInv ==
  ASSUME HeapInv, NEW k \in Offsets, NEW asked \in TrimSizes, TrimBegins(k, asked)
  PROVE  HeapInv'
<1>. DEFINE r == Room(ram, k)
            z == AtLeastMin(asked)
<1>1. /\ held[k] > 0 /\ 0 < asked /\ asked <= held[k] /\ z < r
      /\ trim' = [ptr |-> k, newsize |-> z, size |-> r]
      /\ held' = [held EXCEPT ![k] = asked] /\ refused' = 0 /\ ram' = ram /\ lfree' = lfree
  BY DEF TrimBegins
<1>2. ChainOK(ram) /\ Merged(ram) /\ Lowest(ram, lfree) /\ HoldOK(ram, held)
  BY DEF HeapInv
<1>3. k # ram_end /\ ram[k].used
  <2>1. k # ram_end
    BY <1>1, <1>2, HeapNumbers DEF HoldOK
  <2>. QED
    BY <1>1, <1>2, <2>1 DEF HoldOK
<1>4. asked \in Nat /\ z \in Nat /\ z >= MIN_SIZE_ALIGNED /\ z >= asked
  <2>1. asked \in Nat
    BY HeapAssumption
  <2>. QED
    BY <2>1, HeapNumbers DEF AtLeastMin
<1>5. r \in Int /\ r = Room(ram, k)
  BY <1>2, RoomIsInt
<1>. HIDE DEF z, r
<1>6. held' \in [Offsets -> Nat] /\ held'[k] = asked /\ \A j \in Offsets : j # k => held'[j] = held[j]
  BY <1>1, <1>2, <1>4 DEF HoldOK
<1>7. HoldOK(ram, held')
  <2>1. held'[k] > 0 <=> ram[k].used
    BY <1>1, <1>3, <1>6
  <2>2. Room(ram, k) >= held'[k]
    BY <1>1, <1>4, <1>5, <1>6
  <2>. QED
    BY <1>2, <1>3, <1>6, <2>1, <2>2, HoldersStay
<1>8. TrimOK(ram, held', trim')
  <2>1. trim' \in Trims /\ trim'.ptr = k /\ trim'.newsize = z /\ trim'.size = r
    BY <1>1, <1>4, <1>5 DEF Trims
  <2>2. held'[k] > 0 /\ z >= held'[k]
    BY <1>1, <1>4, <1>6
  <2>. QED
    BY <1>1, <1>3, <1>4, <1>5, <2>1, <2>2 DEF TrimOK
<1>. QED
  BY <1>1, <1>2, <1>7, <1>8 DEF HeapInv, RefusedOnlyWhenFull

\* mem_trim under the mutex.  Nobody else changed the room of the block in between, so that the rest
\* of it begins before the block behind.
LEMMA TrimEndsKeepsInv ==
  ASSUME HeapInv, TrimEnds
  PROVE  HeapInv'
<1>. DEFINE k == trim.ptr
            n == ram[k].next
            z == trim.newsize
            k2 == k + SIZEOF_STRUCT_MEM + z
<1>1. ChainOK(ram) /\ Merged(ram) /\ Lowest(ram, lfree) /\ HoldOK(ram, held) /\ TrimOK(ram, held, trim)
  BY DEF HeapInv
<1>2. trim # NotTrimming /\ trim' = NotTrimming /\ refused' = 0 /\ held' = held
  BY DEF TrimEnds
<1>3. IF ~ram[n].used
        THEN /\ ram' = Split([ram EXCEPT ![n] = NoHeader], k, k2, ram[n].next)
             /\ lfree' = IF lfree = n THEN k2 ELSE lfree
      ELSE IF SplitsOff(trim.size, z)
        THEN ram' = Split(ram, k, k2, n) /\ lfree' = IF k2 < lfree THEN k2 ELSE lfree
      ELSE ram' = ram /\ lfree' = lfree
  BY DEF TrimEnds, TrimmedEnd, MovedLfree
<1>4. /\ k \in Offsets /\ k # ram_end /\ held[k] > 0 /\ z \in Nat /\ z >= held[k] /\ z >= MIN_SIZE_ALIGNED
      /\ z < trim.size /\ trim.size = Room(ram, k)
  BY <1>1, <1>2 DEF TrimOK, Trims
<1>5. ram[k].used /\ ram[k].is
  BY <1>1, <1>4 DEF HoldOK, ChainOK
<1>6. n \in Offsets /\ Room(ram, k) = n - (k + SIZEOF_STRUCT_MEM) /\ ram[n].is
  BY <1>1, <1>4, <1>5, Neighbours DEF Room, ChainOK, NextOK
<1>7. n = ram[k].next /\ k2 = k + SIZEOF_STRUCT_MEM + z /\ k = trim.ptr /\ z = trim.newsize
  OBVIOUS
<1>8. held \in [Offsets -> Nat] /\ held[k] \in Nat
  BY <1>1, <1>4 DEF HoldOK
<1>. HIDE DEF n, k, z
<1>9. /\ k2 \in Nat /\ k2 < n /\ k < k2 /\ k2 >= k + SIZEOF_STRUCT_MEM + MIN_SIZE_ALIGNED
      /\ k2 - (k + SIZEOF_STRUCT_MEM) = z
  BY <1>4, <1>6, HeapNumbers
<1>. HIDE DEF k2
<1>10. k2 \in Offsets
  <2>1. n \in Nat /\ n <= MEM_SIZE_ALIGNED /\ MEM_SIZE_ALIGNED \in Nat
    BY <1>6, HeapNumbers, HeapAssumption DEF ram_end
  <2>. QED
    BY <1>9, <2>1 DEF Offsets
<1>11. TrimOK(ram', held', trim')
  <2>1. trim' = NotTrimming /\ NotTrimming \in Trims /\ NotTrimming.ptr = ram_end
    BY <1>2, HeapNumbers DEF NotTrimming, Trims
  <2>. QED
    BY <2>1 DEF TrimOK
<1>12. ASSUME ChainOK(ram'), Merged(ram'), Lowest(ram', lfree'), Room(ram', k) >= z,
              \A j \in Offsets : ram'[j].used <=> ram[j].used,
              \A j \in Offsets : ram[j].used /\ j # k => Room(ram', j) = Room(ram, j)
       PROVE  HeapInv'
  <2>1. Room(ram', k) >= held[k]
    <3>1. Room(ram', k) \in Int
      BY <1>4, <1>12, RoomIsInt
    <3>. QED
      BY <1>4, <1>8, <1>12, <3>1
  <2>2. HoldOK(ram', held')
    <3>1. held[k] > 0 <=> ram'[k].used
      BY <1>4, <1>5, <1>12
    <3>2. held' = held
      BY <1>2
    <3>3. HoldOK(ram', held)
      BY <1>1, <1>4, <1>8, <1>12, <2>1, <3>1, HoldersStay
    <3>. QED
      BY <3>2, <3>3
  <2>. QED
    BY <1>2, <1>11, <1>12, <2>2 DEF HeapInv, RefusedOnlyWhenFull
<1>13. CASE ~ram[n].used
  <2>1. ram' = Split([ram EXCEPT ![n] = NoHeader], k, k2, ram[n].next)
        /\ lfree' = IF lfree = n THEN k2 ELSE lfree
    BY <1>3, <1>13
  <2>2. n # ram_end
    BY <1>1, <1>13 DEF ChainOK
  <2>. DEFINE f == Moved(ram, k, k2)
  <2>3. /\ ChainOK(f) /\ ~ram[k2].is /\ k2 # ram_end
        /\ \A j \in Offsets :
             /\ f[j].is <=> ((ram[j].is /\ j # n) \/ j = k2)
             /\ f[j].used <=> (ram[j].used /\ j # n /\ j # k2)
             /\ f[j].is => f[j].next = IF j = k THEN k2 ELSE IF j = k2 THEN ram[n].next ELSE ram[j].next
    BY <1>1, <1>4, <1>5, <1>7, <1>9, <1>10, <2>2, MoveOK
  <2>. HIDE DEF f
  <2>4. ram' = f
    BY <1>7, <2>1, Zenon DEF f, Moved
  <2>5. ~ram[k2].used
    BY <1>1, <1>10, <2>3 DEF ChainOK
  <2>6. \A j \in Offsets : f[j].used <=> ram[j].used
    BY <1>13, <2>3, <2>5
  <2>7. ASSUME NEW j \in Offsets, ram[j].used, j # k
        PROVE  Room(f, j) = Room(ram, j)
    <3>1. ram[j].is /\ j # n /\ j # k2
      BY <1>1, <1>13, <2>3, <2>7 DEF ChainOK
    <3>2. f[j].next = ram[j].next
      BY <2>3, <2>7, <3>1
    <3>. QED
      BY <3>2 DEF Room
  <2>8. Room(f, k) >= z
    <3>1. f[k].next = k2
      BY <1>4, <1>5, <1>9, <1>6, <2>3, <1>13
    <3>2. Room(f, k) = z
      BY <1>9, <3>1 DEF Room
    <3>. QED
      BY <1>4, <3>2
  <2>9. Merged(f)
    <3>. SUFFICES ASSUME NEW j \in Offsets, f[j].is, ~f[j].used
                  PROVE  f[f[j].next].used
      BY DEF Merged
    <3>1. j # k
      BY <1>5, <2>6
    <3>2. CASE j = k2
      <4>1. ram[ram[n].next].used /\ ram[n].next \in Offsets
        BY <1>1, <1>6, <1>13 DEF Merged, ChainOK, Headers
      <4>. QED
        BY <2>3, <2>6, <3>1, <3>2, <4>1
    <3>3. CASE j # k2
      <4>1. ram[j].is /\ ~ram[j].used /\ f[j].next = ram[j].next
        BY <2>3, <2>6, <3>1, <3>3
      <4>2. ram[ram[j].next].used /\ ram[j].next \in Offsets
        BY <1>1, <4>1 DEF Merged, ChainOK, Headers
      <4>. QED
        BY <2>6, <4>1, <4>2
    <3>. QED
      BY <3>2, <3>3
  <2>10. Lowest(f, lfree')
    <3>1. lfree \in Offsets /\ lfree \in Nat /\ n \in Nat /\ k2 \in Nat /\ lfree <= n
      BY <1>1, <1>6, <1>9, <1>13, HeapNumbers DEF Lowest, Available
    <3>2. \A j \in Offsets : Available(f, j) <=> (Available(ram, j) /\ j # n) \/ j = k2
      BY <1>10, <2>2, <2>3, <2>6, <2>5 DEF Available
    <3>3. \A j \in Offsets : Available(ram, j) => lfree <= j
      BY <1>1 DEF Lowest
    <3>4. \A j \in Offsets : k < j /\ j < n => ~ram[j].is
      BY <1>1, <1>4, <1>5, <1>7 DEF ChainOK, NextOK
    <3>5. CASE lfree = n
      <4>1. \A j \in Offsets : Available(f, j) => k2 <= j
        <5>. SUFFICES ASSUME NEW j \in Offsets, Available(f, j), j # k2
                      PROVE  k2 <= j
          BY <1>9
        <5>1. n <= j /\ j \in Nat
          BY <3>2, <3>3, <3>5, HeapNumbers
        <5>. QED
          BY <1>9, <3>1, <5>1
      <4>2. lfree' = k2
        BY <2>1, <3>5
      <4>. QED
        BY <1>10, <3>2, <4>1, <4>2 DEF Lowest
    <3>6. CASE lfree # n
      <4>1. lfree' = lfree
        BY <2>1, <3>6
      <4>2. Available(ram, lfree) /\ ram[lfree].is /\ lfree # k
        BY <1>1, <1>4, <1>5 DEF Lowest, Available
      <4>3. lfree < k2
        <5>1. ~(k < lfree /\ lfree < n)
          BY <3>1, <3>4, <4>2
        <5>2. k \in Nat
          BY <1>4, HeapNumbers
        <5>. QED
          BY <1>9, <3>1, <3>6, <4>2, <5>1, <5>2
      <4>4. \A j \in Offsets : Available(f, j) => lfree <= j
        BY <3>1, <3>2, <3>3, <4>3
      <4>. QED
        BY <3>1, <3>2, <3>6, <4>1, <4>2, <4>4 DEF Lowest
    <3>. QED
      BY <3>5, <3>6
  <2>. QED
    BY <1>12, <2>3, <2>4, <2>6, <2>7, <2>8, <2>9, <2>10
<1>14. CASE ram[n].used /\ SplitsOff(trim.size, z)
  <2>1. ram' = Split(ram, k, k2, n) /\ lfree' = IF k2 < lfree THEN k2 ELSE lfree
    BY <1>3, <1>14
  <2>. DEFINE f == Split(ram, k, k2, n)
  <2>2. SplitsOff(Room(ram, k), z)
    BY <1>4, <1>14
  <2>3. /\ Took(ram, f, k, z)
        /\ \A l \in Offsets : Available(ram, l) => Available(f, l)
        /\ Available(f, k2)
        /\ \A j \in Offsets : f[j].is /\ ~ram[j].is => j = k2
    BY <1>1, <1>4, <1>5, <1>7, <2>2, SplitTakes DEF k2
  <2>. HIDE DEF f
  <2>4. ram' = f
    BY <2>1 DEF f
  <2>5. /\ ChainOK(f) /\ Room(f, k) >= z
        /\ \A j \in Offsets : f[j].used <=> ram[j].used
    BY <1>5, <2>3 DEF Took
  <2>6. Merged(f) /\ \A j \in Offsets : ram[j].used /\ j # k => Room(f, j) = Room(ram, j)
    <3>1. ram[ram[k].next].used
      BY <1>7, <1>14
    <3>2. Took(ram, f, k, z)
      BY <2>3
    <3>. QED
      BY <1>1, <1>4, <1>5, <3>1, <3>2, TookKeeps
  <2>7. Lowest(f, lfree')
    <3>1. lfree \in Offsets /\ lfree \in Nat /\ Available(ram, lfree)
      BY <1>1, HeapNumbers DEF Lowest
    <3>2. lfree' \in Offsets /\ Available(f, lfree') /\ lfree' <= k2 /\ lfree' <= lfree /\ lfree' \in Nat
      BY <1>9, <1>10, <2>1, <2>3, <3>1
    <3>3. ASSUME NEW j \in Offsets, Available(f, j), j # k2
          PROVE  lfree <= j
      <4>1. ram[j].is /\ (~ram[j].used \/ j = ram_end)
        BY <2>3, <2>5, <3>3 DEF Available
      <4>. QED
        BY <1>1, <4>1 DEF Lowest, Available
    <3>4. ASSUME NEW j \in Offsets, Available(f, j)
          PROVE  lfree' <= j
      <4>1. j \in Nat /\ (j = k2 \/ lfree <= j)
        BY <3>3, <3>4, HeapNumbers
      <4>. QED
        BY <3>1, <3>2, <4>1
    <3>. QED
      BY <3>2, <3>4 DEF Lowest
  <2>. QED
    BY <1>12, <2>4, <2>5, <2>6, <2>7
<1>15. CASE ram[n].used /\ ~SplitsOff(trim.size, z)
  <2>1. ram' = ram /\ lfree' = lfree
    BY <1>3, <1>15
  <2>2. Room(ram, k) >= z
    <3>. DEFINE r == Room(ram, k)
    <3>1. r \in Int /\ z < r
      BY <1>1, <1>4, RoomIsInt
    <3>. HIDE DEF r
    <3>2. r >= z
      BY <1>4, <3>1
    <3>. QED
      BY <3>2 DEF r
  <2>. QED
    BY <1>1, <1>12, <2>1, <2>2
<1>. QED
  BY <1>13, <1>14, <1>15

\* Every operation keeps the invariant.
LEMMA HeapInvNext == HeapInv /\ [HeapNext]_heapVars => HeapInv'
<1>. SUFFICES ASSUME HeapInv, [HeapNext]_heapVars PROVE HeapInv'
  OBVIOUS
<1>1. CASE UNCHANGED heapVars
  BY <1>1 DEF heapVars, HeapInv, RefusedOnlyWhenFull
<1>2. ASSUME NEW n \in MallocSizes, mem_malloc(n)
      PROVE  HeapInv'
  BY <1>2, MallocKeepsInv
<1>3. ASSUME NEW k \in Offsets, mem_free(k)
      PROVE  HeapInv'
  BY <1>3, FreeKeepsInv
<1>4. ASSUME NEW k \in Offsets, NEW n \in TrimSizes, TrimBegins(k, n)
      PROVE  HeapInv'
  BY <1>4, TrimBeginsKeepsInv
<1>5. CASE TrimEnds
  BY <1>5, TrimEndsKeepsInv
<1>. QED
  BY <1>1, <1>2, <1>3, <1>4, <1>5 DEF HeapNext

\* mem.c keeps its heap: whatever is allocated, freed and trimmed in whatever order, and with the size
\* mem_trim read before it had the mutex, the blocks cover the heap without gap or overlap, free
\* neighbours are merged, lfree is the lowest free block, mem_malloc refuses only what no free block
\* could serve, and whoever holds a block has the room he asked for; for every size of heap, header
\* and request.
THEOREM HeapIsSound == HeapSpec => []HeapSound
<1>1. HeapInv => HeapSound
  <2>. SUFFICES ASSUME HeapInv PROVE HeapSound
    OBVIOUS
  <2>1. ChainOK(ram) /\ Merged(ram) /\ Lowest(ram, lfree) /\ HoldOK(ram, held)
    BY DEF HeapInv
  <2>2. HeapTypeOK
    BY <2>1 DEF HeapInv, HeapTypeOK, ChainOK, Headers, Lowest, HoldOK
  <2>3. HeapIsChained
    <3>. SUFFICES ASSUME NEW k \in Offsets, ram[k].is, k # ram_end
                  PROVE  /\ ram[ram[k].next].is /\ Room(ram, k) >= MIN_SIZE_ALIGNED
                         /\ ~\E j \in k + 1..ram[k].next - 1 : ram[j].is
                         /\ ram[k].next # ram_end => ram[ram[k].next].prev = k
      BY DEF HeapIsChained
    <3>. DEFINE x == ram[k].next
    <3>1. NextOK(ram, k) /\ x \in Offsets
      BY <2>1, Neighbours DEF ChainOK
    <3>2. \A j \in Offsets : k < j /\ j < x => ~ram[j].is
      BY <3>1 DEF NextOK
    <3>3. ASSUME NEW j \in k + 1..x - 1
          PROVE  ~ram[j].is
      <4>. HIDE DEF x
      <4>1. x \in Nat /\ x <= MEM_SIZE_ALIGNED /\ MEM_SIZE_ALIGNED \in Nat /\ k \in Nat
        BY <3>1, HeapNumbers, HeapAssumption DEF ram_end
      <4>2. j \in 0..MEM_SIZE_ALIGNED /\ k < j /\ j < x
        BY <3>3, <4>1
      <4>. QED
        BY <3>2, <4>2 DEF Offsets
    <3>. QED
      BY <3>1, <3>3 DEF NextOK
  <2>4. FreeBlocksMerged
    <3>1. Lowest(ram, NextFree(ram, 0))
      <4>1. 0 \in Offsets /\ \A k \in Offsets : k >= 0
        BY HeapNumbers
      <4>. QED
        BY <2>1, <4>1, NextFreeIsLowest
    <3>. DEFINE f == NextFree(ram, 0)
    <3>2. f \in Offsets /\ lfree \in Offsets /\ f <= lfree /\ lfree <= f
      BY <2>1, <3>1 DEF Lowest
    <3>. HIDE DEF f
    <3>3. lfree = f
      BY <3>2, HeapNumbers
    <3>. QED
      BY <2>1, <3>3 DEF FreeBlocksMerged, Merged, f
  <2>5. HoldersHaveRoom
    <3>. SUFFICES ASSUME NEW k \in Offsets
                  PROVE  /\ held[k] > 0 => ram[k].is /\ ram[k].used /\ Room(ram, k) >= held[k]
                         /\ ram[k].is /\ ram[k].used /\ k # ram_end => held[k] > 0
      BY DEF HoldersHaveRoom
    <3>1. held[k] > 0 => k # ram_end
      BY <2>1, HeapNumbers DEF HoldOK
    <3>. QED
      BY <2>1, <3>1 DEF HoldOK, ChainOK
  <2>. QED
    BY <2>2, <2>3, <2>4, <2>5 DEF HeapSound, HeapInv
<1>. QED
  BY <1>1, HeapInvInit, HeapInvNext, PTL DEF HeapSpec

-----------------------------------------------------------------------------
(* The sockets: select against event_callback.                             *)

SockRecord ==
  [conn : NConns \cup {0}, rcvevent : Int, sendevent : BOOLEAN, select_waiting : Nat, lastdata : BOOLEAN]
ConnRecord == [live : BOOLEAN, socket : Int, mbox : Nat]
SelPcs == {"idle", "scan1", "register", "mark", "scan2", "wait", "unmark", "scan3"}
SelRecord ==
  [pc : SelPcs, set : SUBSET ({"read", "write"} \X Sk), at : Int, end : Int, nready : Int, sem : BOOLEAN, marked : SUBSET Sk]
OwnerRecord == [pc : {"idle", "alloc", "adopt", "free"}, s : Int, c : Int]
EventKinds == {"none", "RCVPLUS", "RCVMINUS", "SENDPLUS", "SENDMINUS"}
EventRecord ==
  [pc : {"idle", "update", "loop"}, c : Int, evt : EventKinds, cb : Int, stale : BOOLEAN]

SocketTypes ==
  /\ sock \in [Sk -> SockRecord] /\ nconn \in [NConns -> ConnRecord] /\ sel \in [Selectors -> SelRecord]
  /\ owner \in OwnerRecord /\ event \in [Callers -> EventRecord] /\ cbList \in Seq(Selectors)

\* A netconn that is not live is as new; one that has a socket is the socket's.
ConnsBound ==
  /\ nconn[1].live /\ nconn[1].socket = 1
  /\ \A c \in NConns :
       /\ ~nconn[c].live => nconn[c] = NoSockConn
       /\ nconn[c].socket # 0 /\ nconn[c].socket <= NUM_SOCKETS /\ nconn[c].mbox <= SockMboxSize
       /\ nconn[c].socket > 0 => sock[nconn[c].socket].conn = c

\* A socket that is in use is its netconn's, or the owner is about to make it so or to free it.
SocketsBound ==
  \A s \in Sk : sock[s].conn # 0 =>
    \/ nconn[sock[s].conn].socket = s
    \/ owner.s = s /\ owner.pc = "adopt" /\ owner.c = sock[s].conn
    \/ owner.s = s /\ owner.pc = "free"

\* Where the owner is in its calls: a connection that waits for its socket, a socket nobody selects for
\* before it is adopted, a socket whose connection is gone.
OwnerBound ==
  /\ owner.pc \in {"alloc", "adopt"} =>
       owner.c \in NConns \ {1} /\ nconn[owner.c].live /\ nconn[owner.c].socket < 0
  /\ owner.pc = "adopt" =>
       /\ owner.s \in Sk /\ sock[owner.s].conn = owner.c /\ sock[owner.s].rcvevent = 0
       /\ \A t \in Selectors : owner.s \notin sel[t].marked
  /\ owner.pc = "free" =>
       owner.s \in Sk /\ sock[owner.s].conn # 0 /\ ~nconn[sock[owner.s].conn].live

\* A callback under way is about a live connection; the owner takes from one that has a socket, and
\* tcpip_thread never takes.
EventsBound ==
  \A u \in Callers : event[u].pc # "idle" =>
    /\ event[u].c \in NConns /\ nconn[event[u].c].live
    /\ u = Owner => event[u].evt = "RCVMINUS" /\ nconn[event[u].c].socket > 0
    /\ u = "tcpip" => event[u].evt \in {"RCVPLUS", "SENDPLUS", "SENDMINUS"}
    /\ event[u].pc = "loop" =>
         nconn[event[u].c].socket > 0 /\ event[u].cb >= 1 /\ (event[u].stale \/ event[u].cb <= Len(cbList))

\* What a callback under way will still count.
Plus(c) ==
  IF event["tcpip"].pc = "update" /\ event["tcpip"].c = c /\ event["tcpip"].evt = "RCVPLUS" THEN 1 ELSE 0
Minus(c) == IF event[Owner].pc = "update" /\ event[Owner].c = c THEN 1 ELSE 0

\* The counts of events, in the socket or below -1.
CountsExact ==
  /\ \A c \in NConns : nconn[c].live => Counted(c) = nconn[c].mbox - Plus(c) + Minus(c)
  /\ \A s \in Sk : sock[s].rcvevent \in -1..(SockMboxSize + 1)

\* What a select has marked, by where it is: all it asks for, up to where it is while it marks, from
\* there on while it gives back; behind it only sockets that are gone stay marked.
MarksOf(r) ==
  /\ r.pc \in {"idle", "scan1", "register", "scan3"} => r.marked = {}
  /\ \A s \in r.marked : Asked(r.set, s)
  /\ r.pc \in {"mark", "scan2"} => r.at \in Sk
  /\ r.pc \in {"mark", "scan2", "wait"} => r.end = NUM_SOCKETS + 1
  /\ r.pc = "mark" => \A s \in Sk : s \in r.marked <=> s < r.at /\ Asked(r.set, s)
  /\ r.pc \in {"scan2", "wait"} => \A s \in Sk : Asked(r.set, s) => s \in r.marked
  /\ r.pc = "unmark" =>
       /\ 1 <= r.at /\ r.at <= r.end /\ r.end <= NUM_SOCKETS + 1
       /\ \A s \in Sk : Asked(r.set, s) /\ r.at <= s /\ s < r.end => s \in r.marked
       /\ \A s \in r.marked : s < r.end /\ (s < r.at => sock[s].conn = 0)
  /\ r.pc \in {"scan1", "register", "mark", "scan2"} => r.nready >= 0

Marks ==
  \A t \in Selectors :
    /\ MarksOf(sel[t])
    /\ sel[t].pc \in {"scan1", "register", "mark"} => \A s \in Sk : Asked(sel[t].set, s) => Known(s)

\* select_waiting of a socket in use is exact; that of one that is gone may be left over, and then
\* keeps alloc_socket from it.
Markers(s) == {t \in Selectors : s \in sel[t].marked}
Waits ==
  \A s \in Sk :
    /\ Cardinality(Markers(s)) <= sock[s].select_waiting /\ sock[s].select_waiting <= Cardinality(Selectors)
    /\ sock[s].conn # 0 => sock[s].select_waiting = Cardinality(Markers(s))

\* The list has an entry for every select that has registered, and no other.
ListExact ==
  /\ \A n, m \in 1..Len(cbList) : cbList[n] = cbList[m] => n = m
  /\ \A t \in Selectors :
       sel[t].pc \in {"mark", "scan2", "wait", "unmark"} <=> \E n \in 1..Len(cbList) : cbList[n] = t

\* A callback for socket s has yet to come to the entry of t.
ComesTo(u, t, s) ==
  /\ event[u].pc = "loop" /\ nconn[event[u].c].socket = s
  /\ event[u].stale \/ \E n \in 1..Len(cbList) : cbList[n] = t /\ n > event[u].cb

\* The scan that decides to wait has passed socket s without finding it ready, or has decided.
Relies(t, s) == sel[t].pc = "wait" \/ (sel[t].pc = "scan2" /\ sel[t].nready = 0 /\ s < sel[t].at)

Wakeups ==
  \A t \in Selectors, s \in Sk :
    Relies(t, s) /\ sock[s].conn # 0 /\ Wakes(sock[s], s, sel[t].set)
      => sel[t].sem \/ \E u \in Callers : ComesTo(u, t, s)

\* The inductive invariant of the sockets.
SocketsInv ==
  /\ SocketTypes /\ ConnsBound /\ SocketsBound /\ OwnerBound /\ EventsBound /\ CountsExact
  /\ Marks /\ Waits /\ ListExact /\ Wakeups


-----------------------------------------------------------------------------
(* What the invariant says of a state.                                     *)

\* The constants, and the two callers of event_callback.
LEMMA SocketConstants ==
  /\ NUM_SOCKETS \in Nat /\ NUM_SOCKETS >= 1 /\ NumConns \in Nat /\ NumConns >= 1 /\ SockMboxSize \in Nat
  /\ 1 \in Sk /\ 1 \in NConns /\ Sk \subseteq Nat /\ 0 \notin Sk /\ 0 \notin NConns
  /\ \A x : x \in Sk <=> x \in Int /\ 1 <= x /\ x <= NUM_SOCKETS
  /\ Owner \in Selectors /\ Owner \in Callers /\ "tcpip" \in Callers /\ Owner # "tcpip"
  /\ \A u \in Callers : u = Owner \/ u = "tcpip"
  /\ IsFiniteSet(Selectors)
<1>1. /\ NUM_SOCKETS \in Nat \ {0} /\ NumConns \in Nat \ {0} /\ SockMboxSize \in Nat
      /\ IsFiniteSet(Selectors) /\ Owner \in Selectors /\ "tcpip" \notin Selectors
  BY SocketsAssumption, Zenon
<1>2. /\ NUM_SOCKETS \in Nat /\ NUM_SOCKETS >= 1 /\ NumConns \in Nat /\ NumConns >= 1
      /\ 1 \in Sk /\ 1 \in NConns /\ Sk \subseteq Nat /\ 0 \notin Sk /\ 0 \notin NConns
      /\ \A x : x \in Sk <=> x \in Int /\ 1 <= x /\ x <= NUM_SOCKETS
  BY <1>1, SMT DEF Sk, NConns
<1>3. Owner # "tcpip"
  BY <1>1, Zenon
<1>. QED
  BY <1>1, <1>2, <1>3, Zenon DEF Callers

\* The cardinality of a set that holds at most one thing.
LEMMA OneOrNone ==
  ASSUME NEW S, NEW x, S \subseteq {x}
  PROVE  /\ x \in S => Cardinality(S) = 1
         /\ x \notin S => Cardinality(S) = 0
<1>1. x \in S => S = {x}
  OBVIOUS
<1>2. x \notin S => S = {}
  OBVIOUS
<1>. QED
  BY <1>1, <1>2, FS_Singleton, FS_EmptySet

\* Only tcpip_thread announces what it posts, only the owner what it takes.
LEMMA UnderWayCounts ==
  ASSUME EventsBound, SocketTypes, NEW c \in NConns
  PROVE  UnderWay(c, "RCVPLUS") = Plus(c) /\ UnderWay(c, "RCVMINUS") = Minus(c)
<1>. DEFINE P == {t \in Callers : event[t].pc = "update" /\ event[t].c = c /\ event[t].evt = "RCVPLUS"}
            M == {t \in Callers : event[t].pc = "update" /\ event[t].c = c /\ event[t].evt = "RCVMINUS"}
<1>1. ASSUME NEW u \in Callers, event[u].pc = "update"
      PROVE  (u = Owner => event[u].evt = "RCVMINUS") /\ (u = "tcpip" => event[u].evt # "RCVMINUS")
  BY <1>1, Zenon DEF EventsBound
<1>2. P \subseteq {"tcpip"}
  BY <1>1, SocketConstants, Zenon
<1>3. M \subseteq {Owner}
  BY <1>1, SocketConstants, Zenon
<1>4. "tcpip" \in P <=> event["tcpip"].pc = "update" /\ event["tcpip"].c = c /\ event["tcpip"].evt = "RCVPLUS"
  BY SocketConstants, Zenon
<1>5. Owner \in M <=> event[Owner].pc = "update" /\ event[Owner].c = c
  BY <1>1, SocketConstants, Zenon
<1>6. /\ "tcpip" \in P => Cardinality(P) = 1
      /\ "tcpip" \notin P => Cardinality(P) = 0
  BY <1>2, OneOrNone, Zenon
<1>7. /\ Owner \in M => Cardinality(M) = 1
      /\ Owner \notin M => Cardinality(M) = 0
  BY <1>3, OneOrNone, Zenon
<1>8. Cardinality(P) = Plus(c)
  BY <1>4, <1>6, Zenon DEF Plus
<1>9. Cardinality(M) = Minus(c)
  BY <1>5, <1>7, Zenon DEF Minus
<1>. QED
  BY <1>8, <1>9, Zenon DEF UnderWay

\* The invariant is what SelectSound says, and more.
LEMMA SocketsInvSound == SocketsInv => SelectSound
<1>. SUFFICES ASSUME SocketsInv PROVE SelectSound
  OBVIOUS
<1>0. /\ SocketTypes /\ ConnsBound /\ SocketsBound /\ OwnerBound /\ EventsBound /\ CountsExact
      /\ Marks /\ Waits /\ ListExact /\ Wakeups
  BY Zenon DEF SocketsInv
<1>1. RcvEventExact
  <2>1. ASSUME NEW c \in NConns, nconn[c].live
        PROVE  Counted(c) = nconn[c].mbox - UnderWay(c, "RCVPLUS") + UnderWay(c, "RCVMINUS")
    <3>1. Counted(c) = nconn[c].mbox - Plus(c) + Minus(c)
      BY <1>0, <2>1, Zenon DEF CountsExact
    <3>2. UnderWay(c, "RCVPLUS") = Plus(c) /\ UnderWay(c, "RCVMINUS") = Minus(c)
      BY <1>0, UnderWayCounts, Zenon
    <3>. QED
      BY <3>1, <3>2, Zenon
  <2>. QED
    BY <2>1, Zenon DEF RcvEventExact
<1>2. NoLostWakeup
  <2>1. ASSUME NEW t \in Selectors, NEW s \in Sk, sel[t].pc = "wait", sock[s].conn # 0,
               Wakes(sock[s], s, sel[t].set)
        PROVE  \/ sel[t].sem
               \/ \E u \in Callers : event[u].pc = "loop" /\ nconn[event[u].c].socket = s
    <3>1. Relies(t, s)
      BY <2>1, Zenon DEF Relies
    <3>2. sel[t].sem \/ \E u \in Callers : ComesTo(u, t, s)
      BY <1>0, <2>1, <3>1, Zenon DEF Wakeups
    <3>3. \A u \in Callers : ComesTo(u, t, s) => event[u].pc = "loop" /\ nconn[event[u].c].socket = s
      BY Zenon DEF ComesTo
    <3>. QED
      BY <3>2, <3>3, Zenon
  <2>. QED
    BY <2>1, Zenon DEF NoLostWakeup
<1>3. SelectWaitingExact
  BY <1>0, Zenon DEF Waits, SelectWaitingExact, Markers
<1>4. EntryInList
  BY <1>0, Zenon DEF EventsBound, EntryInList
<1>5. SocketsTypeOK
  <2>1. ASSUME NEW s \in Sk
        PROVE  /\ sock[s].conn \in NConns \cup {0} /\ sock[s].select_waiting \in 0..Cardinality(Selectors)
               /\ sock[s].rcvevent \in -1..(SockMboxSize + 1)
    <3>1. sock[s] \in SockRecord
      BY <1>0, <2>1, Zenon DEF SocketTypes
    <3>2. sock[s].conn \in NConns \cup {0} /\ sock[s].select_waiting \in Nat
      BY <3>1, SMT DEF SockRecord
    <3>3. sock[s].select_waiting <= Cardinality(Selectors) /\ sock[s].rcvevent \in -1..(SockMboxSize + 1)
      BY <1>0, <2>1, Zenon DEF Waits, CountsExact
    <3>4. Cardinality(Selectors) \in Nat
      BY SocketConstants, FS_CardinalityType, Zenon
    <3>. QED
      BY <3>2, <3>3, <3>4, SMT
  <2>2. ASSUME NEW c \in NConns
        PROVE  nconn[c].mbox \in 0..SockMboxSize /\ nconn[c].socket \in -(SockMboxSize + 1)..NUM_SOCKETS
    <3>1. nconn[c] \in ConnRecord
      BY <1>0, <2>2, Zenon DEF SocketTypes
    <3>2. nconn[c].mbox \in Nat /\ nconn[c].socket \in Int
      BY <3>1, SMT DEF ConnRecord
    <3>3. nconn[c].mbox <= SockMboxSize /\ nconn[c].socket <= NUM_SOCKETS
      BY <1>0, <2>2, Zenon DEF ConnsBound
    <3>4. CASE nconn[c].live /\ nconn[c].socket < 0
      <4>1. -1 - nconn[c].socket = nconn[c].mbox - Plus(c) + Minus(c)
        BY <1>0, <2>2, <3>4, Zenon DEF CountsExact, Counted
      <4>2. Plus(c) \in {0, 1}
        BY Zenon DEF Plus
      <4>3. ~(nconn[c].socket > 0)
        BY <3>2, <3>4, SMT
      <4>4. Owner \in Callers
        BY SocketConstants, Zenon
      <4>5. ~(event[Owner].pc = "update" /\ event[Owner].c = c)
        <5>1. "update" # "idle"
          OBVIOUS
        <5>. QED
          BY <1>0, <4>3, <4>4, <5>1, Zenon DEF EventsBound
      <4>6. Minus(c) = 0
        BY <4>5, Zenon DEF Minus
      <4>. QED
        BY <3>2, <3>3, <3>4, <4>1, <4>2, <4>6, SocketConstants, SMT
    <3>5. CASE ~nconn[c].live
      <4>1. nconn[c].socket = -1
        BY <1>0, <2>2, <3>5, SMT DEF ConnsBound, NoSockConn
      <4>. QED
        BY <3>2, <3>3, <4>1, SocketConstants, SMT
    <3>6. CASE nconn[c].socket >= 0
      BY <3>2, <3>3, <3>6, SocketConstants, SMT
    <3>. QED
      BY <3>2, <3>4, <3>5, <3>6, SMT
  <2>3. \A n, m \in 1..Len(cbList) : cbList[n] = cbList[m] => n = m
    BY <1>0, Zenon DEF ListExact
  <2>. QED
    BY <2>1, <2>2, <2>3, Zenon DEF SocketsTypeOK
<1>. QED
  BY <1>1, <1>2, <1>3, <1>4, <1>5, Zenon DEF SelectSound


\* Assigning to a field keeps a record in its type.
LEMMA SelUpdates ==
  ASSUME NEW r \in SelRecord
  PROVE  /\ \A x \in SelPcs : [r EXCEPT !.pc = x] \in SelRecord
         /\ \A x \in Int : [r EXCEPT !.at = x] \in SelRecord
         /\ \A x \in Int : [r EXCEPT !.end = x] \in SelRecord
         /\ \A x \in Int : [r EXCEPT !.nready = x] \in SelRecord
         /\ \A x \in BOOLEAN : [r EXCEPT !.sem = x] \in SelRecord
         /\ \A x \in SUBSET Sk : [r EXCEPT !.marked = x] \in SelRecord
         /\ \A x \in SUBSET ({"read", "write"} \X Sk) : [r EXCEPT !.set = x] \in SelRecord
<1>1. \A x \in SelPcs : [r EXCEPT !.pc = x] \in SelRecord
  BY SMT DEF SelRecord
<1>2. \A x \in Int : [r EXCEPT !.at = x] \in SelRecord
  BY SMT DEF SelRecord
<1>3. \A x \in Int : [r EXCEPT !.end = x] \in SelRecord
  BY SMT DEF SelRecord
<1>4. \A x \in Int : [r EXCEPT !.nready = x] \in SelRecord
  BY SMT DEF SelRecord
<1>5. \A x \in BOOLEAN : [r EXCEPT !.sem = x] \in SelRecord
  BY SMT DEF SelRecord
<1>6. \A x \in SUBSET Sk : [r EXCEPT !.marked = x] \in SelRecord
  BY SMT DEF SelRecord
<1>7. \A x \in SUBSET ({"read", "write"} \X Sk) : [r EXCEPT !.set = x] \in SelRecord
  BY SMT DEF SelRecord
<1>. QED
  BY <1>1, <1>2, <1>3, <1>4, <1>5, <1>6, <1>7, Zenon

LEMMA SockUpdates ==
  ASSUME NEW r \in SockRecord
  PROVE  /\ \A x \in NConns \cup {0} : [r EXCEPT !.conn = x] \in SockRecord
         /\ \A x \in Int : [r EXCEPT !.rcvevent = x] \in SockRecord
         /\ \A x \in BOOLEAN : [r EXCEPT !.sendevent = x] \in SockRecord
         /\ \A x \in Nat : [r EXCEPT !.select_waiting = x] \in SockRecord
         /\ \A x \in BOOLEAN : [r EXCEPT !.lastdata = x] \in SockRecord
<1>1. \A x \in NConns \cup {0} : [r EXCEPT !.conn = x] \in SockRecord
  BY SMT DEF SockRecord
<1>2. \A x \in Int : [r EXCEPT !.rcvevent = x] \in SockRecord
  BY SMT DEF SockRecord
<1>3. \A x \in BOOLEAN : [r EXCEPT !.sendevent = x] \in SockRecord
  BY SMT DEF SockRecord
<1>4. \A x \in Nat : [r EXCEPT !.select_waiting = x] \in SockRecord
  BY SMT DEF SockRecord
<1>5. \A x \in BOOLEAN : [r EXCEPT !.lastdata = x] \in SockRecord
  BY SMT DEF SockRecord
<1>. QED
  BY <1>1, <1>2, <1>3, <1>4, <1>5, Zenon

LEMMA ConnUpdates ==
  ASSUME NEW r \in ConnRecord
  PROVE  /\ \A x \in BOOLEAN : [r EXCEPT !.live = x] \in ConnRecord
         /\ \A x \in Int : [r EXCEPT !.socket = x] \in ConnRecord
         /\ \A x \in Nat : [r EXCEPT !.mbox = x] \in ConnRecord
<1>1. \A x \in BOOLEAN : [r EXCEPT !.live = x] \in ConnRecord
  BY SMT DEF ConnRecord
<1>2. \A x \in Int : [r EXCEPT !.socket = x] \in ConnRecord
  BY SMT DEF ConnRecord
<1>3. \A x \in Nat : [r EXCEPT !.mbox = x] \in ConnRecord
  BY SMT DEF ConnRecord
<1>. QED
  BY <1>1, <1>2, <1>3, Zenon

LEMMA EventUpdates ==
  ASSUME NEW r \in EventRecord
  PROVE  /\ \A x \in {"idle", "update", "loop"} : [r EXCEPT !.pc = x] \in EventRecord
         /\ \A x \in Int : [r EXCEPT !.c = x] \in EventRecord
         /\ \A x \in EventKinds : [r EXCEPT !.evt = x] \in EventRecord
         /\ \A x \in Int : [r EXCEPT !.cb = x] \in EventRecord
         /\ \A x \in BOOLEAN : [r EXCEPT !.stale = x] \in EventRecord
<1>1. \A x \in {"idle", "update", "loop"} : [r EXCEPT !.pc = x] \in EventRecord
  BY SMT DEF EventRecord
<1>2. \A x \in Int : [r EXCEPT !.c = x] \in EventRecord
  BY SMT DEF EventRecord
<1>3. \A x \in EventKinds : [r EXCEPT !.evt = x] \in EventRecord
  BY SMT DEF EventRecord
<1>4. \A x \in Int : [r EXCEPT !.cb = x] \in EventRecord
  BY SMT DEF EventRecord
<1>5. \A x \in BOOLEAN : [r EXCEPT !.stale = x] \in EventRecord
  BY SMT DEF EventRecord
<1>. QED
  BY <1>1, <1>2, <1>3, <1>4, <1>5, Zenon

\* The records that calls begin and end with.
LEMMA EmptyRecords ==
  /\ FreeSock \in SockRecord /\ NoSockConn \in ConnRecord /\ NoSelect \in SelRecord /\ NoEvent \in EventRecord
  /\ NoSelect.pc = "idle" /\ NoSelect.marked = {} /\ NoSelect.nready = 0 /\ NoSelect.set = {}
  /\ NoSockConn.socket = -1 /\ NoSockConn.mbox = 0 /\ ~NoSockConn.live
  /\ NoEvent.pc = "idle"
<1>1. FreeSock \in SockRecord
  BY SMT DEF FreeSock, SockRecord
<1>2. NoSockConn \in ConnRecord /\ NoSockConn.socket = -1 /\ NoSockConn.mbox = 0
  BY SMT DEF NoSockConn, ConnRecord
<1>3. ~NoSockConn.live
  BY SMT DEF NoSockConn
<1>4. NoSelect \in SelRecord
  BY SMT DEF NoSelect, SelRecord, SelPcs
<1>5. NoSelect.pc = "idle" /\ NoSelect.marked = {} /\ NoSelect.nready = 0 /\ NoSelect.set = {}
  BY SMT DEF NoSelect
<1>6. NoEvent \in EventRecord /\ NoEvent.pc = "idle"
  BY SMT DEF NoEvent, EventRecord, EventKinds
<1>. QED
  BY <1>1, <1>2, <1>3, <1>4, <1>5, <1>6, Zenon

\* The fields of the records.
LEMMA SocketFields ==
  ASSUME SocketTypes
  PROVE  /\ \A s \in Sk : /\ sock[s] \in SockRecord /\ sock[s].conn \in NConns \cup {0} /\ sock[s].rcvevent \in Int
                          /\ sock[s].sendevent \in BOOLEAN /\ sock[s].select_waiting \in Nat
         /\ \A c \in NConns : /\ nconn[c] \in ConnRecord /\ nconn[c].live \in BOOLEAN /\ nconn[c].socket \in Int
                              /\ nconn[c].mbox \in Nat
         /\ \A t \in Selectors : /\ sel[t] \in SelRecord /\ sel[t].pc \in SelPcs /\ sel[t].at \in Int
                                 /\ sel[t].end \in Int /\ sel[t].nready \in Int /\ sel[t].sem \in BOOLEAN
                                 /\ sel[t].marked \in SUBSET Sk
         /\ \A u \in Callers : /\ event[u] \in EventRecord /\ event[u].pc \in {"idle", "update", "loop"}
                               /\ event[u].c \in Int /\ event[u].cb \in Int /\ event[u].stale \in BOOLEAN
<1>1. ASSUME NEW s \in Sk
      PROVE  /\ sock[s] \in SockRecord /\ sock[s].conn \in NConns \cup {0} /\ sock[s].rcvevent \in Int
             /\ sock[s].sendevent \in BOOLEAN /\ sock[s].select_waiting \in Nat
  <2>1. sock[s] \in SockRecord
    BY <1>1, Zenon DEF SocketTypes
  <2>. QED
    BY <2>1, SMT DEF SockRecord
<1>2. ASSUME NEW c \in NConns
      PROVE  /\ nconn[c] \in ConnRecord /\ nconn[c].live \in BOOLEAN /\ nconn[c].socket \in Int
             /\ nconn[c].mbox \in Nat
  <2>1. nconn[c] \in ConnRecord
    BY <1>2, Zenon DEF SocketTypes
  <2>. QED
    BY <2>1, SMT DEF ConnRecord
<1>3. ASSUME NEW t \in Selectors
      PROVE  /\ sel[t] \in SelRecord /\ sel[t].pc \in SelPcs /\ sel[t].at \in Int
             /\ sel[t].end \in Int /\ sel[t].nready \in Int /\ sel[t].sem \in BOOLEAN
             /\ sel[t].marked \in SUBSET Sk
  <2>1. sel[t] \in SelRecord
    BY <1>3, Zenon DEF SocketTypes
  <2>. QED
    BY <2>1, SMT DEF SelRecord
<1>4. ASSUME NEW u \in Callers
      PROVE  /\ event[u] \in EventRecord /\ event[u].pc \in {"idle", "update", "loop"}
             /\ event[u].c \in Int /\ event[u].cb \in Int /\ event[u].stale \in BOOLEAN
  <2>1. event[u] \in EventRecord
    BY <1>4, Zenon DEF SocketTypes
  <2>. QED
    BY <2>1, SMT DEF EventRecord
<1>. QED
  BY <1>1, <1>2, <1>3, <1>4, Zenon


\* The initial states.
LEMMA SocketsInvInit == SocketsInit => SocketsInv
<1>. SUFFICES ASSUME SocketsInit PROVE SocketsInv
  OBVIOUS
<1>0. /\ sock = [s \in Sk |-> IF s = 1 THEN [FreeSock EXCEPT !.conn = 1] ELSE FreeSock]
      /\ nconn = [c \in NConns |-> IF c = 1 THEN [NoSockConn EXCEPT !.live = TRUE, !.socket = 1] ELSE NoSockConn]
      /\ sel = [t \in Selectors |-> NoSelect]
      /\ owner = [pc |-> "idle", s |-> 0, c |-> 0]
      /\ event = [t \in Callers |-> NoEvent]
      /\ cbList = <<>>
  BY Zenon DEF SocketsInit
<1>1. LET k == [FreeSock EXCEPT !.conn = 1]
          n == [NoSockConn EXCEPT !.live = TRUE, !.socket = 1]
      IN /\ k.conn = 1 /\ k.rcvevent = 0 /\ k.select_waiting = 0 /\ k \in SockRecord
         /\ n.live /\ n.socket = 1 /\ n.mbox = 0 /\ n \in ConnRecord
  <2>. DEFINE k == [FreeSock EXCEPT !.conn = 1]
              m == [NoSockConn EXCEPT !.live = TRUE]
              n == [NoSockConn EXCEPT !.live = TRUE, !.socket = 1]
  <2>0. FreeSock \in SockRecord /\ NoSockConn \in ConnRecord
    BY SMT DEF FreeSock, NoSockConn, SockRecord, ConnRecord
  <2>1. 1 \in NConns \cup {0} /\ 1 \in Int /\ TRUE \in BOOLEAN
    BY SocketConstants, SMT
  <2>2. k.conn = 1 /\ k.rcvevent = 0 /\ k.select_waiting = 0
    BY SMT DEF FreeSock
  <2>3. k \in SockRecord
    BY <2>0, <2>1, SockUpdates, Zenon
  <2>4. m \in ConnRecord
    BY <2>0, <2>1, ConnUpdates, Zenon
  <2>5. n \in ConnRecord
    BY <2>1, <2>4, ConnUpdates, Zenon
  <2>6. n.socket = 1 /\ n.mbox = 0
    BY SMT DEF NoSockConn
  <2>7. n.live
    BY Zenon DEF NoSockConn
  <2>. QED
    BY <2>2, <2>3, <2>5, <2>6, <2>7, Zenon
<1>2. ASSUME NEW s \in Sk
      PROVE  /\ sock[s] \in SockRecord /\ sock[s].conn = IF s = 1 THEN 1 ELSE 0
             /\ sock[s].rcvevent = 0 /\ sock[s].select_waiting = 0
  <2>1. CASE s = 1
    <3>1. sock[s] = [FreeSock EXCEPT !.conn = 1]
      BY <1>0, <1>2, <2>1, Zenon
    <3>. QED
      BY <1>1, <2>1, <3>1, Zenon
  <2>2. CASE s # 1
    <3>1. sock[s] = [conn |-> 0, rcvevent |-> 0, sendevent |-> FALSE, select_waiting |-> 0, lastdata |-> FALSE]
      BY <1>0, <1>2, <2>2, SMT DEF FreeSock
    <3>. QED
      BY <2>2, <3>1, SMT DEF SockRecord
  <2>. QED
    BY <2>1, <2>2
<1>3. ASSUME NEW c \in NConns
      PROVE  /\ nconn[c] \in ConnRecord
             /\ nconn[c].live <=> c = 1
             /\ nconn[c].socket = IF c = 1 THEN 1 ELSE -1
             /\ nconn[c].mbox = 0
             /\ ~nconn[c].live => nconn[c] = NoSockConn
  <2>1. CASE c = 1
    <3>1. nconn[c] = [NoSockConn EXCEPT !.live = TRUE, !.socket = 1]
      BY <1>0, <1>3, <2>1, Zenon
    <3>. QED
      BY <1>1, <2>1, <3>1, Zenon
  <2>2. CASE c # 1
    <3>1. nconn[c] = [live |-> FALSE, socket |-> -1, mbox |-> 0] /\ nconn[c] = NoSockConn
      BY <1>0, <1>3, <2>2, SMT DEF NoSockConn
    <3>2. nconn[c].live = FALSE /\ nconn[c].socket = -1 /\ nconn[c].mbox = 0 /\ nconn[c] \in ConnRecord
      BY <3>1, SMT DEF ConnRecord
    <3>. QED
      BY <2>2, <3>1, <3>2, Zenon
  <2>. QED
    BY <2>1, <2>2
<1>4. ASSUME NEW t \in Selectors
      PROVE  sel[t] = NoSelect /\ sel[t].pc = "idle" /\ sel[t].marked = {} /\ sel[t] \in SelRecord
  BY <1>0, <1>4, EmptyRecords, Zenon
<1>5. ASSUME NEW u \in Callers
      PROVE  event[u].pc = "idle" /\ event[u] \in EventRecord
  BY <1>0, <1>5, EmptyRecords, Zenon
<1>6. SocketTypes
  <2>1. \A s \in Sk : sock[s] \in SockRecord
    BY <1>2, Zenon
  <2>2. \A c \in NConns : nconn[c] \in ConnRecord
    BY <1>3, Zenon
  <2>3. owner \in OwnerRecord /\ cbList \in Seq(Selectors)
    BY <1>0, SMT DEF OwnerRecord
  <2>4. sock \in [Sk -> SockRecord]
    BY <1>0, <2>1, SMT
  <2>5. nconn \in [NConns -> ConnRecord]
    BY <1>0, <2>2, SMT
  <2>6. sel \in [Selectors -> SelRecord] /\ event \in [Callers -> EventRecord]
    BY <1>0, <1>4, <1>5, SMT
  <2>. QED
    BY <2>3, <2>4, <2>5, <2>6 DEF SocketTypes
<1>7. ConnsBound
  <2>1. ASSUME NEW c \in NConns
        PROVE  /\ nconn[c].socket # 0 /\ nconn[c].socket <= NUM_SOCKETS /\ nconn[c].mbox <= SockMboxSize
               /\ nconn[c].socket > 0 => sock[nconn[c].socket].conn = c
    <3>1. nconn[c].socket = (IF c = 1 THEN 1 ELSE -1) /\ nconn[c].mbox = 0
      BY <1>3, <2>1, Zenon
    <3>2. sock[1].conn = 1
      BY <1>2, SocketConstants, Zenon
    <3>3. NUM_SOCKETS \in Nat /\ NUM_SOCKETS >= 1 /\ SockMboxSize \in Nat
      BY SocketConstants, Zenon
    <3>. QED
      BY <3>1, <3>2, <3>3, SMT
  <2>2. nconn[1].live /\ nconn[1].socket = 1
    BY <1>3, SocketConstants, Zenon
  <2>. QED
    BY <1>3, <2>1, <2>2, Zenon DEF ConnsBound
<1>8. SocketsBound
  <2>1. ASSUME NEW s \in Sk, sock[s].conn # 0 PROVE nconn[sock[s].conn].socket = s
    <3>1. s = 1 /\ sock[s].conn = 1
      BY <1>2, <2>1, Zenon
    <3>2. nconn[1].socket = 1
      BY <1>3, SocketConstants, Zenon
    <3>. QED
      BY <3>1, <3>2, Zenon
  <2>. QED
    BY <2>1, Zenon DEF SocketsBound
<1>9. OwnerBound
  BY <1>0, SMT DEF OwnerBound
<1>10. EventsBound
  BY <1>5, Zenon DEF EventsBound
<1>11. CountsExact
  <2>1. ASSUME NEW c \in NConns PROVE Plus(c) = 0 /\ Minus(c) = 0
    BY <1>5, SocketConstants, SMT DEF Plus, Minus
  <2>2. ASSUME NEW c \in NConns, nconn[c].live PROVE Counted(c) = nconn[c].mbox - Plus(c) + Minus(c)
    <3>1. c = 1 /\ nconn[c].socket = 1 /\ nconn[c].mbox = 0
      BY <1>3, <2>2, Zenon
    <3>2. sock[1].rcvevent = 0
      BY <1>2, SocketConstants, Zenon
    <3>. QED
      BY <2>1, <3>1, <3>2, SMT DEF Counted
  <2>3. 0 \in -1..(SockMboxSize + 1)
    <3>1. SockMboxSize \in Nat
      BY SocketConstants, Zenon
    <3>. QED
      BY <3>1, SMT
  <2>. QED
    BY <1>2, <2>2, <2>3, Zenon DEF CountsExact
<1>12. Marks
  BY <1>4, SMT DEF Marks, MarksOf
<1>13. Waits
  <2>1. \A s \in Sk : Markers(s) = {}
    BY <1>4, SMT DEF Markers
  <2>2. Cardinality({}) = 0 /\ Cardinality(Selectors) \in Nat
    BY FS_EmptySet, FS_CardinalityType, SocketConstants
  <2>3. ASSUME NEW s \in Sk
        PROVE  /\ Cardinality(Markers(s)) <= sock[s].select_waiting
               /\ sock[s].select_waiting <= Cardinality(Selectors)
               /\ sock[s].select_waiting = Cardinality(Markers(s))
    <3>1. Markers(s) = {} /\ sock[s].select_waiting = 0
      BY <1>2, <2>1, <2>3, Zenon
    <3>. QED
      BY <2>2, <3>1, SMT
  <2>. QED
    BY <2>3, Zenon DEF Waits
<1>14. ListExact
  BY <1>0, <1>4, SMT DEF ListExact
<1>15. Wakeups
  BY <1>4, SMT DEF Wakeups, Relies
<1>. QED
  BY <1>6, <1>7, <1>8, <1>9, <1>10, <1>11, <1>12, <1>13, <1>14, <1>15, Zenon DEF SocketsInv


-----------------------------------------------------------------------------
(* What a step leaves alone.                                               *)

\* No select moves; at most semaphores are signalled.
SameSelects ==
  \A t \in Selectors :
    /\ sel'[t].pc = sel[t].pc /\ sel'[t].set = sel[t].set /\ sel'[t].at = sel[t].at /\ sel'[t].end = sel[t].end
    /\ sel'[t].nready = sel[t].nready /\ sel'[t].marked = sel[t].marked /\ (sel[t].sem => sel'[t].sem)

\* A socket that a select has marked is not given to another connection, and has no new event.
MarkedStay ==
  \A s \in Sk :
    \/ \A t \in Selectors : s \notin sel[t].marked
    \/ sock'[s].conn = 0
    \/ /\ sock'[s].conn = sock[s].conn /\ sock'[s].rcvevent = sock[s].rcvevent
       /\ sock'[s].sendevent = sock[s].sendevent

\* A marked socket that is gone is not taken into use.
GoneStay ==
  \A s \in Sk : (\E t \in Selectors : s \in sel[t].marked) /\ sock[s].conn = 0 => sock'[s].conn = 0

\* The loops under way go on where they are.
LoopsStay ==
  /\ cbList' = cbList
  /\ \A u \in Callers : event[u].pc = "loop" =>
       event'[u] = event[u] /\ nconn'[event[u].c].socket = nconn[event[u].c].socket

\* The sockets that a select is about to mark stay known.
KnownStay ==
  \A t \in Selectors, s \in Sk :
    sel[t].pc \in {"scan1", "register", "mark"} /\ Asked(sel[t].set, s) /\ Known(s) => Known(s)'

\* No socket is taken into use, and none is marked or unmarked.
WaitsStay ==
  \A s \in Sk : sock'[s].select_waiting = sock[s].select_waiting /\ (sock'[s].conn # 0 => sock[s].conn # 0)

LEMMA MarksKept ==
  ASSUME Marks, SocketTypes, SameSelects, GoneStay, KnownStay
  PROVE  Marks'
<1>1. ASSUME NEW t \in Selectors
      PROVE  MarksOf(sel[t])'
  <2>. DEFINE r == sel[t]  q == sel'[t]
  <2>1. /\ q.pc = r.pc /\ q.set = r.set /\ q.at = r.at /\ q.end = r.end
        /\ q.nready = r.nready /\ q.marked = r.marked
    BY <1>1, Zenon DEF SameSelects
  <2>2. MarksOf(r)
    BY <1>1, Zenon DEF Marks
  <2>3. \A s \in r.marked : sock[s].conn = 0 => sock'[s].conn = 0
    <3>1. r.marked \subseteq Sk
      BY <1>1, SocketFields, Zenon
    <3>. QED
      BY <1>1, <3>1, Zenon DEF GoneStay
  <2>. HIDE DEF r, q
  <2>4. /\ q.pc \in {"idle", "scan1", "register", "scan3"} => q.marked = {}
        /\ \A s \in q.marked : Asked(q.set, s)
        /\ q.pc \in {"mark", "scan2"} => q.at \in Sk
        /\ q.pc \in {"mark", "scan2", "wait"} => q.end = NUM_SOCKETS + 1
        /\ q.pc = "mark" => \A s \in Sk : s \in q.marked <=> s < q.at /\ Asked(q.set, s)
        /\ q.pc \in {"scan2", "wait"} => \A s \in Sk : Asked(q.set, s) => s \in q.marked
        /\ q.pc \in {"scan1", "register", "mark", "scan2"} => q.nready >= 0
    BY <2>1, <2>2, Zenon DEF MarksOf
  <2>5. q.pc = "unmark" =>
          /\ 1 <= q.at /\ q.at <= q.end /\ q.end <= NUM_SOCKETS + 1
          /\ \A s \in Sk : Asked(q.set, s) /\ q.at <= s /\ s < q.end => s \in q.marked
          /\ \A s \in q.marked : s < q.end /\ (s < q.at => sock'[s].conn = 0)
    <3>1. SUFFICES ASSUME q.pc = "unmark"
                   PROVE  /\ 1 <= q.at /\ q.at <= q.end /\ q.end <= NUM_SOCKETS + 1
                          /\ \A s \in Sk : Asked(q.set, s) /\ q.at <= s /\ s < q.end => s \in q.marked
                          /\ \A s \in q.marked : s < q.end /\ (s < q.at => sock'[s].conn = 0)
      OBVIOUS
    <3>2. /\ 1 <= r.at /\ r.at <= r.end /\ r.end <= NUM_SOCKETS + 1
          /\ \A s \in Sk : Asked(r.set, s) /\ r.at <= s /\ s < r.end => s \in r.marked
          /\ \A s \in r.marked : s < r.end /\ (s < r.at => sock[s].conn = 0)
      BY <2>1, <2>2, <3>1, Zenon DEF MarksOf
    <3>. QED
      BY <2>1, <2>3, <3>2, Zenon
  <2>. QED
    BY <2>4, <2>5, Zenon DEF MarksOf, q
<1>2. ASSUME NEW t \in Selectors, NEW s \in Sk, sel'[t].pc \in {"scan1", "register", "mark"},
             Asked(sel'[t].set, s)
      PROVE  Known(s)'
  <2>1. sel[t].pc \in {"scan1", "register", "mark"} /\ Asked(sel[t].set, s)
    BY <1>2, Zenon DEF SameSelects
  <2>2. Known(s)
    BY <1>2, <2>1, Zenon DEF Marks
  <2>. QED
    BY <1>2, <2>1, <2>2, Zenon DEF KnownStay
<1>. QED
  BY <1>1, <1>2, Zenon DEF Marks

LEMMA WaitsKept ==
  ASSUME Waits, SameSelects, WaitsStay
  PROVE  Waits'
<1>1. \A s : Markers(s)' = Markers(s)
  BY Zenon DEF Markers, SameSelects
<1>. QED
  BY <1>1, Zenon DEF Waits, WaitsStay

LEMMA ListKept ==
  ASSUME ListExact, SameSelects, cbList' = cbList
  PROVE  ListExact'
<1>1. \A t \in Selectors : sel'[t].pc = sel[t].pc
  BY Zenon DEF SameSelects
<1>. QED
  BY <1>1, Zenon DEF ListExact

LEMMA WakeupsKept ==
  ASSUME Wakeups, Marks, SameSelects, MarkedStay, LoopsStay
  PROVE  Wakeups'
<1>1. ASSUME NEW t \in Selectors, NEW s \in Sk, Relies(t, s)', sock'[s].conn # 0,
             Wakes(sock'[s], s, sel'[t].set)
      PROVE  sel'[t].sem \/ \E u \in Callers : ComesTo(u, t, s)'
  <2>1. /\ sel'[t].pc = sel[t].pc /\ sel'[t].set = sel[t].set /\ sel'[t].at = sel[t].at
        /\ sel'[t].nready = sel[t].nready /\ (sel[t].sem => sel'[t].sem)
    BY <1>1, Zenon DEF SameSelects
  <2>2. Relies(t, s)
    BY <1>1, <2>1, Zenon DEF Relies
  <2>3. Asked(sel[t].set, s)
    BY <1>1, <2>1, Zenon DEF Wakes, Asked
  <2>4. s \in sel[t].marked
    <3>1. sel[t].pc \in {"scan2", "wait"}
      BY <2>2, Zenon DEF Relies
    <3>. QED
      BY <1>1, <2>3, <3>1, Zenon DEF Marks, MarksOf
  <2>5. /\ sock'[s].conn = sock[s].conn /\ sock'[s].rcvevent = sock[s].rcvevent
        /\ sock'[s].sendevent = sock[s].sendevent
    BY <1>1, <2>4, Zenon DEF MarkedStay
  <2>6. sock[s].conn # 0 /\ Wakes(sock[s], s, sel[t].set)
    BY <1>1, <2>1, <2>5, Zenon DEF Wakes
  <2>7. sel[t].sem \/ \E u \in Callers : ComesTo(u, t, s)
    BY <1>1, <2>2, <2>6, Zenon DEF Wakeups
  <2>8. ASSUME NEW u \in Callers, ComesTo(u, t, s)
        PROVE  ComesTo(u, t, s)'
    <3>1. event'[u] = event[u] /\ nconn'[event[u].c].socket = nconn[event[u].c].socket /\ cbList' = cbList
      BY <2>8, Zenon DEF ComesTo, LoopsStay
    <3>. QED
      BY <2>8, <3>1, Zenon DEF ComesTo
  <2>. QED
    BY <2>1, <2>7, <2>8, Zenon
<1>. QED
  BY <1>1, Zenon DEF Wakeups

\* A step that leaves the connections alone: of a callback it may only end the loop.
ConnsStay ==
  /\ nconn' = nconn /\ owner' = owner
  /\ \A s \in Sk : sock'[s].conn = sock[s].conn /\ sock'[s].rcvevent = sock[s].rcvevent
  /\ owner.pc = "adopt" => \A t \in Selectors : owner.s \notin sel'[t].marked
  /\ \A u \in Callers :
       /\ event'[u].pc = "update" <=> event[u].pc = "update"
       /\ event[u].pc = "update" => event'[u].c = event[u].c /\ event'[u].evt = event[u].evt

LEMMA ConnsKept ==
  ASSUME SocketTypes, ConnsBound, SocketsBound, OwnerBound, CountsExact, ConnsStay
  PROVE  ConnsBound' /\ SocketsBound' /\ OwnerBound' /\ CountsExact'
<1>0. /\ nconn' = nconn /\ owner' = owner
      /\ \A s \in Sk : sock'[s].conn = sock[s].conn /\ sock'[s].rcvevent = sock[s].rcvevent
  BY Zenon DEF ConnsStay
<1>1. \A c \in NConns : nconn[c].socket > 0 => nconn[c].socket \in Sk
  <2>1. ASSUME NEW c \in NConns, nconn[c].socket > 0 PROVE nconn[c].socket \in Sk
    <3>1. nconn[c].socket \in Int /\ nconn[c].socket <= NUM_SOCKETS
      BY <2>1, SocketFields, Zenon DEF ConnsBound
    <3>2. nconn[c].socket >= 1
      BY <2>1, <3>1, SMT
    <3>. QED
      BY <3>1, <3>2, SMT DEF Sk
  <2>. QED
    BY <2>1
<1>2. ConnsBound'
  BY <1>0, <1>1, Zenon DEF ConnsBound
<1>3. SocketsBound'
  <2>1. ASSUME NEW s \in Sk, sock'[s].conn # 0
        PROVE  \/ nconn'[sock'[s].conn].socket = s
               \/ owner'.s = s /\ owner'.pc = "adopt" /\ owner'.c = sock'[s].conn
               \/ owner'.s = s /\ owner'.pc = "free"
    <3>1. sock'[s].conn = sock[s].conn
      BY <1>0, <2>1, Zenon
    <3>. QED
      BY <1>0, <2>1, <3>1, Zenon DEF SocketsBound
  <2>. QED
    BY <2>1, Zenon DEF SocketsBound
<1>4. OwnerBound'
  <2>1. owner.pc = "adopt" => \A t \in Selectors : owner.s \notin sel'[t].marked
    BY Zenon DEF ConnsStay
  <2>2. owner.pc \in {"adopt", "free"} =>
          owner.s \in Sk /\ sock'[owner.s].conn = sock[owner.s].conn /\ sock'[owner.s].rcvevent = sock[owner.s].rcvevent
    BY <1>0, Zenon DEF OwnerBound
  <2>. QED
    BY <1>0, <2>1, <2>2, Zenon DEF OwnerBound
<1>5. CountsExact'
  <2>1. ASSUME NEW c \in NConns PROVE Plus(c)' = Plus(c) /\ Minus(c)' = Minus(c)
    <3>1. Owner \in Callers /\ "tcpip" \in Callers
      BY SocketConstants, Zenon
    <3>. QED
      BY <3>1, Zenon DEF ConnsStay, Plus, Minus
  <2>2. ASSUME NEW c \in NConns PROVE Counted(c)' = Counted(c)
    <3>1. CASE nconn[c].socket < 0
      BY <1>0, <3>1, Zenon DEF Counted
    <3>2. CASE ~(nconn[c].socket < 0)
      <4>1. nconn[c].socket > 0
        <5>1. nconn[c].socket # 0 /\ nconn[c].socket \in Int
          BY <2>2, SocketFields, Zenon DEF ConnsBound
        <5>. QED
          BY <3>2, <5>1, SMT
      <4>2. nconn[c].socket \in Sk
        BY <1>1, <2>2, <4>1, Zenon
      <4>. QED
        BY <1>0, <3>2, <4>2, Zenon DEF Counted
    <3>. QED
      BY <3>1, <3>2
  <2>. QED
    BY <1>0, <2>1, <2>2, Zenon DEF CountsExact
<1>. QED
  BY <1>2, <1>3, <1>4, <1>5


-----------------------------------------------------------------------------
(* lwip_select.                                                            *)

Registered == {"mark", "scan2", "wait", "unmark"}

\* A step of one select that changes nothing else, neither its marks nor its place in the list.
SelectMoves(t) ==
  /\ sel' = [sel EXCEPT ![t] = sel'[t]] /\ sel'[t] \in SelRecord /\ OnlySelect
  /\ sel'[t].marked = sel[t].marked /\ MarksOf(sel[t])'
  /\ sel'[t].pc \in {"scan1", "register", "mark"} => \A s \in Sk : Asked(sel'[t].set, s) => Known(s)
  /\ sel'[t].pc \in Registered <=> sel[t].pc \in Registered
  /\ \A s \in Sk : Relies(t, s)' /\ sock[s].conn # 0 /\ Wakes(sock[s], s, sel'[t].set)
       => sel'[t].sem \/ \E u \in Callers : ComesTo(u, t, s)

\* The conjuncts of the invariant.
LEMMA SocketsInvParts ==
  SocketsInv <=>
    /\ SocketTypes /\ ConnsBound /\ SocketsBound /\ OwnerBound /\ EventsBound /\ CountsExact
    /\ Marks /\ Waits /\ ListExact /\ Wakeups
BY Zenon DEF SocketsInv

LEMMA SelectMovesKeeps ==
  ASSUME SocketsInv, NEW t \in Selectors, SelectMoves(t)
  PROVE  SocketsInv'
<1>0. /\ SocketTypes /\ ConnsBound /\ SocketsBound /\ OwnerBound /\ EventsBound /\ CountsExact
      /\ Marks /\ Waits /\ ListExact /\ Wakeups
  BY SocketsInvParts, Zenon
<1>1. sock' = sock /\ nconn' = nconn /\ owner' = owner /\ event' = event /\ cbList' = cbList
  BY Zenon DEF SelectMoves, OnlySelect
<1>2. /\ sel' = [sel EXCEPT ![t] = sel'[t]] /\ sel'[t] \in SelRecord /\ sel'[t].marked = sel[t].marked
  BY Zenon DEF SelectMoves
<1>3. \A u \in Selectors : u # t => sel'[u] = sel[u]
  BY <1>0, <1>2, Zenon DEF SocketTypes
<1>4. \A u \in Selectors : sel'[u].marked = sel[u].marked
  BY <1>2, <1>3, Zenon
<1>5. SocketTypes'
  <2>1. sel' \in [Selectors -> SelRecord]
    BY <1>0, <1>2, Zenon DEF SocketTypes
  <2>. QED
    BY <1>0, <1>1, <2>1, Zenon DEF SocketTypes
<1>6. ConnsBound' /\ SocketsBound' /\ OwnerBound' /\ CountsExact'
  <2>1. ConnsStay
    BY <1>0, <1>1, <1>4, Zenon DEF ConnsStay, OwnerBound
  <2>. QED
    BY <1>0, <2>1, ConnsKept, Zenon
<1>7. EventsBound'
  BY <1>0, <1>1, Zenon DEF EventsBound
<1>8. Marks'
  <2>1. ASSUME NEW u \in Selectors, u # t
        PROVE  MarksOf(sel[u])'
    <3>1. MarksOf(sel[u])
      BY <1>0, Zenon DEF Marks
    <3>. QED
      BY <1>1, <1>3, <2>1, <3>1, Zenon DEF MarksOf
  <2>2. \A s : Known(s)' <=> Known(s)
    BY <1>1, Zenon DEF Known
  <2>3. ASSUME NEW u \in Selectors, sel'[u].pc \in {"scan1", "register", "mark"}, NEW s \in Sk, Asked(sel'[u].set, s)
        PROVE  Known(s)'
    <3>1. CASE u = t
      BY <2>2, <2>3, <3>1, Zenon DEF SelectMoves
    <3>2. CASE u # t
      BY <1>0, <1>3, <2>2, <2>3, <3>2, Zenon DEF Marks
    <3>. QED
      BY <3>1, <3>2
  <2>4. MarksOf(sel[t])'
    BY Zenon DEF SelectMoves
  <2>5. \A u \in Selectors : MarksOf(sel[u])'
    BY <2>1, <2>4, Zenon
  <2>. QED
    BY <2>3, <2>5, Zenon DEF Marks
<1>9. Waits'
  <2>1. \A s : Markers(s)' = Markers(s)
    BY <1>4, Zenon DEF Markers
  <2>. QED
    BY <1>0, <1>1, <2>1, Zenon DEF Waits
<1>10. ListExact'
  <2>1. \A u \in Selectors : sel'[u].pc \in Registered <=> sel[u].pc \in Registered
    BY <1>3, Zenon DEF SelectMoves
  <2>. QED
    BY <1>0, <1>1, <2>1, Zenon DEF ListExact, Registered
<1>11. Wakeups'
  <2>1. \A u, v, s : ComesTo(u, v, s)' <=> ComesTo(u, v, s)
    BY <1>1, Zenon DEF ComesTo
  <2>2. ASSUME NEW v \in Selectors, NEW s \in Sk, Relies(v, s)', sock'[s].conn # 0,
               Wakes(sock'[s], s, sel'[v].set)
        PROVE  sel'[v].sem \/ \E u \in Callers : ComesTo(u, v, s)'
    <3>1. CASE v = t
      BY <1>1, <2>1, <2>2, <3>1, Zenon DEF SelectMoves
    <3>2. CASE v # t
      <4>1. sel'[v] = sel[v]
        BY <1>3, <2>2, <3>2, Zenon
      <4>2. Relies(v, s)
        BY <2>2, <4>1, Zenon DEF Relies
      <4>3. sel[v].sem \/ \E u \in Callers : ComesTo(u, v, s)
        BY <1>0, <1>1, <2>2, <4>1, <4>2, Zenon DEF Wakeups
      <4>. QED
        BY <2>1, <4>1, <4>3, Zenon
    <3>. QED
      BY <3>1, <3>2
  <2>. QED
    BY <2>2, Zenon DEF Wakeups
<1>. QED
  BY <1>5, <1>6, <1>7, <1>8, <1>9, <1>10, <1>11, SocketsInvParts, Zenon DEF SocketsInv

\* A select that ends without having marked anything.
LEMMA SelectEnds ==
  ASSUME SocketsInv, NEW t \in Selectors, sel[t].pc \in {"scan1", "register", "scan3"}, Sets(t, NoSelect), OnlySelect
  PROVE  SocketsInv'
<1>0. SocketTypes /\ Marks
  BY SocketsInvParts, Zenon
<1>1. sel' = [sel EXCEPT ![t] = NoSelect] /\ sel'[t] = NoSelect
  BY <1>0, Zenon DEF Sets, SocketTypes
<1>2. /\ sel'[t] \in SelRecord /\ sel'[t].pc = "idle" /\ sel'[t].marked = {}
  BY <1>1, EmptyRecords, Zenon
<1>3. sel[t].marked = {}
  BY <1>0, Zenon DEF Marks, MarksOf
<1>4. MarksOf(sel[t])'
  BY <1>2, Zenon DEF MarksOf
<1>5. \A s : ~Relies(t, s)'
  BY <1>2, Zenon DEF Relies
<1>6. "idle" \notin Registered /\ sel[t].pc \notin Registered /\ "idle" \notin {"scan1", "register", "mark"}
  BY Zenon DEF Registered
<1>7. SelectMoves(t)
  BY <1>1, <1>2, <1>3, <1>4, <1>5, <1>6, Zenon DEF SelectMoves
<1>. QED
  BY <1>7, SelectMovesKeeps, Zenon


\* The call.
LEMMA SelectKeeps ==
  ASSUME SocketsInv, NEW t \in Selectors, NEW want \in Interests, Select(t, want)
  PROVE  SocketsInv'
<1>0. SocketTypes /\ Marks
  BY SocketsInvParts, Zenon
<1>. DEFINE q1 == [NoSelect EXCEPT !.pc = "scan1"]  q2 == [NoSelect EXCEPT !.pc = "scan1", !.set = want]
            q == [NoSelect EXCEPT !.pc = "scan1", !.set = want, !.at = 1]
<1>1. /\ sel' = [sel EXCEPT ![t] = q] /\ sel[t].pc = "idle" /\ OnlySelect
      /\ \A s \in Sk : Asked(want, s) => Known(s)
  BY Zenon DEF Sets, Select
<1>2. sel'[t] = q
  BY <1>0, <1>1, Zenon DEF SocketTypes
<1>3. q \in SelRecord
  <2>1. "scan1" \in SelPcs /\ 1 \in Int /\ want \in SUBSET ({"read", "write"} \X Sk)
    BY SocketsAssumption DEF SelPcs, Sk
  <2>2. q1 \in SelRecord
    BY <2>1, EmptyRecords, SelUpdates, Zenon
  <2>3. q2 \in SelRecord
    BY <2>1, <2>2, SelUpdates, Zenon
  <2>. QED
    BY <2>1, <2>3, SelUpdates, Zenon
<1>4. q.pc = "scan1" /\ q.marked = {} /\ q.set = want /\ q.nready >= 0
  BY SMT DEF NoSelect
<1>. HIDE DEF q1, q2, q
<1>5. sel[t].marked = {}
  BY <1>0, <1>1, Zenon DEF Marks, MarksOf
<1>6. MarksOf(sel[t])'
  BY <1>2, <1>4, Zenon DEF MarksOf
<1>7. \A s : ~Relies(t, s)'
  BY <1>2, <1>4, Zenon DEF Relies
<1>8. "idle" \notin Registered /\ "scan1" \notin Registered
  BY Zenon DEF Registered
<1>9. SelectMoves(t)
  BY <1>1, <1>2, <1>3, <1>4, <1>5, <1>6, <1>7, <1>8, Zenon DEF SelectMoves
<1>. QED
  BY <1>9, SelectMovesKeeps, Zenon

\* The first scan, the last one, and no time to wait.
LEMMA FirstScanKeeps ==
  ASSUME SocketsInv, NEW t \in Selectors, FirstScan(t)
  PROVE  SocketsInv'
<1>1. sel[t].pc = "scan1" /\ OnlySelect
  BY Zenon DEF FirstScan
<1>2. CASE Sets(t, NoSelect)
  BY <1>1, <1>2, SelectEnds, Zenon
<1>3. CASE Sets(t, [sel[t] EXCEPT !.pc = "register"])
  <2>0. SocketTypes /\ Marks /\ sel[t] \in SelRecord
    BY SocketsInvParts, SocketFields, Zenon
  <2>. DEFINE q == [sel[t] EXCEPT !.pc = "register"]
  <2>1. sel' = [sel EXCEPT ![t] = q] /\ sel'[t] = q
    BY <1>3, <2>0, Zenon DEF Sets, SocketTypes
  <2>2. "register" \in SelPcs
    BY DEF SelPcs
  <2>3. q \in SelRecord
    BY <2>0, <2>2, SelUpdates, Zenon
  <2>4. q.pc = "register" /\ q.marked = sel[t].marked /\ q.set = sel[t].set /\ q.nready = sel[t].nready
    BY <2>0, SMT DEF SelRecord
  <2>. HIDE DEF q
  <2>5. sel[t].marked = {} /\ sel[t].nready >= 0
    BY <1>1, <2>0, Zenon DEF Marks, MarksOf
  <2>6. MarksOf(sel[t])'
    BY <2>1, <2>4, <2>5, Zenon DEF MarksOf
  <2>7. \A s : ~Relies(t, s)'
    BY <2>1, <2>4, Zenon DEF Relies
  <2>8. "register" \notin Registered /\ "scan1" \notin Registered
    BY Zenon DEF Registered
  <2>9. \A s \in Sk : Asked(sel[t].set, s) => Known(s)
    BY <1>1, <2>0, Zenon DEF Marks
  <2>10. SelectMoves(t)
    BY <1>1, <2>1, <2>3, <2>4, <2>6, <2>7, <2>8, <2>9, Zenon DEF SelectMoves
  <2>. QED
    BY <2>10, SelectMovesKeeps, Zenon
<1>. QED
  BY <1>2, <1>3, Zenon DEF FirstScan

LEMMA LastScanKeeps ==
  ASSUME SocketsInv, NEW t \in Selectors, LastScan(t) \/ Poll(t)
  PROVE  SocketsInv'
<1>1. sel[t].pc \in {"scan1", "register", "scan3"} /\ Sets(t, NoSelect) /\ OnlySelect
  BY Zenon DEF LastScan, Poll
<1>. QED
  BY <1>1, SelectEnds, Zenon

\* One socket of the scan that decides: if it is not ready, nothing can wake for it yet.
LEMMA ScanKeeps ==
  ASSUME SocketsInv, NEW t \in Selectors, Scan(t)
  PROVE  SocketsInv'
<1>0. SocketTypes /\ Marks /\ Wakeups /\ sel[t] \in SelRecord
  BY SocketsInvParts, SocketFields, Zenon
<1>. DEFINE r == sel[t]
            n == r.nready + (IF Ready(r.at, r.set) THEN 1 ELSE 0)
            a == [r EXCEPT !.nready = n, !.at = r.at + 1]
            p == IF n > 0 THEN "unmark" ELSE "wait"
            b == [r EXCEPT !.nready = n, !.pc = p, !.at = 1]
            q == IF r.at < NUM_SOCKETS THEN a ELSE b
<1>1. r.pc = "scan2" /\ sel' = [sel EXCEPT ![t] = q] /\ OnlySelect
  BY Zenon DEF Sets, Scan
<1>2. sel'[t] = q
  BY <1>0, <1>1, Zenon DEF SocketTypes
<1>3. r \in SelRecord /\ r.at \in Int /\ r.nready \in Int
  BY <1>0, SocketFields, Zenon
<1>4. n \in Int /\ n >= r.nready /\ (n = r.nready => ~Ready(r.at, r.set))
  BY <1>3, SMT
<1>5. MarksOf(r)
  BY <1>0, Zenon DEF Marks
<1>6. /\ \A s \in r.marked : Asked(r.set, s)
      /\ r.at \in Sk /\ r.end = NUM_SOCKETS + 1 /\ r.nready >= 0
      /\ \A s \in Sk : Asked(r.set, s) => s \in r.marked
  BY <1>1, <1>5, Zenon DEF MarksOf
<1>7. r.marked \in SUBSET Sk
  BY <1>0, SocketFields, Zenon
<1>. HIDE DEF n
<1>8. /\ a.nready = n /\ a.at = r.at + 1 /\ a.pc = r.pc /\ a.set = r.set /\ a.end = r.end /\ a.marked = r.marked
      /\ a.sem = r.sem
  BY <1>3, SMT DEF SelRecord
<1>9. /\ b.nready = n /\ b.at = 1 /\ b.pc = p /\ b.set = r.set /\ b.end = r.end /\ b.marked = r.marked
      /\ b.sem = r.sem
  BY <1>3, Zenon DEF SelRecord
<1>10. a \in SelRecord /\ b \in SelRecord
  <2>1. [r EXCEPT !.nready = n] \in SelRecord
    BY <1>3, <1>4, SelUpdates, Zenon
  <2>2. r.at + 1 \in Int /\ 1 \in Int /\ p \in SelPcs
    BY <1>3, SMT DEF SelPcs
  <2>3. a \in SelRecord
    BY <2>1, <2>2, SelUpdates, Zenon
  <2>4. [r EXCEPT !.nready = n, !.pc = p] \in SelRecord
    BY <2>1, <2>2, SelUpdates, Zenon
  <2>5. b \in SelRecord
    BY <2>2, <2>4, SelUpdates, Zenon
  <2>. QED
    BY <2>3, <2>5
<1>11. q \in SelRecord /\ q.marked = r.marked /\ q.set = r.set /\ q.nready = n /\ q.sem = r.sem /\ q.end = r.end
  BY <1>8, <1>9, <1>10, Zenon
<1>12. q.pc \in {"scan2", "wait", "unmark"}
  BY <1>1, <1>8, <1>9, Zenon
<1>13. q.pc = "scan2" => q.at \in Sk /\ q.at = r.at + 1
  <2>1. r.at < NUM_SOCKETS => r.at + 1 \in Sk
    BY <1>6, SocketConstants, SMT DEF Sk
  <2>2. p # "scan2"
    BY Zenon
  <2>. QED
    BY <1>8, <1>9, <2>1, <2>2, Zenon
<1>14. q.pc = "unmark" => q.at = 1
  BY <1>1, <1>8, <1>9, Zenon
<1>15. q.pc \in {"scan2", "wait"} /\ n = 0 => ~Ready(r.at, r.set) /\ r.nready = 0
  BY <1>3, <1>4, <1>6, SMT
<1>16. q.pc = "wait" => n = 0 /\ r.at = NUM_SOCKETS
  <2>0. "scan2" # "wait" /\ "unmark" # "wait"
    OBVIOUS
  <2>1. q.pc = "wait" => ~(r.at < NUM_SOCKETS) /\ ~(n > 0)
    <3>1. r.at < NUM_SOCKETS => q.pc = "scan2"
      BY <1>1, <1>8, Zenon
    <3>2. ~(r.at < NUM_SOCKETS) => q.pc = p
      BY <1>9, Zenon
    <3>3. n > 0 => p = "unmark"
      BY Zenon
    <3>. HIDE DEF q, p
    <3>. QED
      BY <2>0, <3>1, <3>2, <3>3, Zenon
  <2>2. n >= 0
    BY <1>3, <1>4, <1>6, SMT
  <2>3. r.at <= NUM_SOCKETS
    BY <1>6, SocketConstants, SMT
  <2>. QED
    BY <1>3, <1>4, <2>1, <2>2, <2>3, SocketConstants, SMT
<1>. HIDE DEF a, b, p, q, r
<1>17. MarksOf(sel[t])'
  <2>1. /\ q.pc \in {"scan2", "wait", "unmark"} /\ q.marked = r.marked /\ q.set = r.set /\ q.end = NUM_SOCKETS + 1
        /\ \A s \in q.marked : Asked(q.set, s)
        /\ \A s \in Sk : Asked(q.set, s) => s \in q.marked
    BY <1>6, <1>11, <1>12, Zenon
  <2>2. q.nready >= 0
    BY <1>3, <1>4, <1>6, <1>11, SMT
  <2>3. q.pc = "unmark" =>
          /\ 1 <= q.at /\ q.at <= q.end /\ q.end <= NUM_SOCKETS + 1
          /\ \A s \in q.marked : s < q.end /\ (s < q.at => sock'[s].conn = 0)
    <3>1. \A s \in q.marked : s \in Int /\ s >= 1 /\ s <= NUM_SOCKETS
      BY <1>7, <2>1, SMT DEF Sk
    <3>2. NUM_SOCKETS \in Nat
      BY SocketConstants, Zenon
    <3>. QED
      BY <1>14, <2>1, <3>1, <3>2, SMT
  <2>4. /\ q.pc \notin {"idle", "scan1", "register", "scan3"} /\ q.pc # "mark"
    BY <2>1, Zenon
  <2>. QED
    BY <1>2, <1>13, <2>1, <2>2, <2>3, <2>4, Zenon DEF MarksOf
<1>18. ASSUME NEW s \in Sk, Relies(t, s)', sock[s].conn # 0, Wakes(sock[s], s, sel'[t].set)
       PROVE  sel'[t].sem \/ \E u \in Callers : ComesTo(u, t, s)
  <2>1. /\ Wakes(sock[s], s, r.set)
        /\ q.pc = "wait" \/ (q.pc = "scan2" /\ n = 0 /\ s < q.at)
    BY <1>2, <1>11, <1>18, Zenon DEF Relies
  <2>2. n = 0 /\ ~Ready(r.at, r.set) /\ r.nready = 0
    BY <1>15, <1>16, <2>1, Zenon
  <2>3. s <= r.at
    <3>1. s \in Int /\ s <= NUM_SOCKETS
      BY SMT DEF Sk
    <3>. QED
      BY <1>3, <1>13, <1>16, <2>1, <3>1, SMT
  <2>4. CASE s = r.at
    <3>1. Ready(s, r.set)
      BY <1>18, <2>1, Zenon DEF Wakes, Ready
    <3>. QED
      BY <2>2, <2>4, <3>1, Zenon
  <2>5. CASE s < r.at
    <3>1. Relies(t, s)
      BY <1>1, <2>2, <2>5, Zenon DEF Relies, r
    <3>2. sel[t].sem \/ \E u \in Callers : ComesTo(u, t, s)
      BY <1>0, <1>18, <2>1, <3>1, Zenon DEF Wakeups, r
    <3>. QED
      BY <1>2, <1>11, <3>2, Zenon DEF r
  <2>. QED
    BY <1>3, <2>3, <2>4, <2>5, SMT DEF Sk
<1>19. q.pc \in Registered /\ r.pc \in Registered /\ q.pc \notin {"scan1", "register", "mark"}
  BY <1>1, <1>12, Zenon DEF Registered
<1>20. SelectMoves(t)
  BY <1>1, <1>2, <1>11, <1>17, <1>18, <1>19, Zenon DEF SelectMoves, r
<1>. QED
  BY <1>20, SelectMovesKeeps, Zenon

\* The semaphore, or the time is over.
LEMMA WakeKeeps ==
  ASSUME SocketsInv, NEW t \in Selectors, NEW timeout \in BOOLEAN, Wake(t, timeout)
  PROVE  SocketsInv'
<1>0. SocketTypes /\ Marks /\ sel[t] \in SelRecord
  BY SocketsInvParts, SocketFields, Zenon
<1>. DEFINE r == sel[t]
            m == IF timeout THEN r.sem ELSE FALSE
            n == IF timeout THEN 0 ELSE 1
            q == [r EXCEPT !.pc = "unmark", !.at = 1, !.sem = m, !.nready = n]
<1>1. r.pc = "wait" /\ sel' = [sel EXCEPT ![t] = q] /\ OnlySelect
  BY Zenon DEF Sets, Wake
<1>2. sel'[t] = q
  BY <1>0, <1>1, Zenon DEF SocketTypes
<1>3. r \in SelRecord /\ r.marked \in SUBSET Sk /\ m \in BOOLEAN /\ n \in Int
  <2>1. r.sem \in BOOLEAN /\ FALSE \in BOOLEAN /\ r.marked \in SUBSET Sk
    BY <1>0, SocketFields, Zenon
  <2>2. m \in BOOLEAN
    BY <2>1, Zenon
  <2>3. n \in Int
    BY SMT
  <2>. QED
    BY <1>0, <2>1, <2>2, <2>3, Zenon
<1>4. MarksOf(r)
  BY <1>0, Zenon DEF Marks
<1>5. /\ \A s \in r.marked : Asked(r.set, s)
      /\ r.end = NUM_SOCKETS + 1
      /\ \A s \in Sk : Asked(r.set, s) => s \in r.marked
  BY <1>1, <1>4, Zenon DEF MarksOf
<1>. HIDE DEF m, n
<1>6. q.pc = "unmark" /\ q.at = 1 /\ q.set = r.set /\ q.end = r.end /\ q.marked = r.marked
  BY <1>3, Zenon DEF SelRecord
<1>7. q \in SelRecord
  <2>1. "unmark" \in SelPcs /\ 1 \in Int
    BY DEF SelPcs
  <2>2. [r EXCEPT !.pc = "unmark"] \in SelRecord
    BY <1>3, <2>1, SelUpdates, Zenon
  <2>3. [r EXCEPT !.pc = "unmark", !.at = 1] \in SelRecord
    BY <2>1, <2>2, SelUpdates, Zenon
  <2>4. [r EXCEPT !.pc = "unmark", !.at = 1, !.sem = m] \in SelRecord
    BY <1>3, <2>3, SelUpdates, Zenon
  <2>. QED
    BY <1>3, <2>4, SelUpdates, Zenon
<1>. HIDE DEF q, r
<1>8. MarksOf(sel[t])'
  <2>1. \A s \in q.marked : s < q.end /\ ~(s < q.at)
    <3>1. \A s \in q.marked : s \in Int /\ s >= 1 /\ s <= NUM_SOCKETS
      BY <1>3, <1>6, SMT DEF Sk
    <3>2. NUM_SOCKETS \in Nat
      BY SocketConstants, Zenon
    <3>. QED
      BY <1>5, <1>6, <3>1, <3>2, SMT
  <2>2. 1 <= q.at /\ q.at <= q.end /\ q.end <= NUM_SOCKETS + 1
    BY <1>5, <1>6, SocketConstants, SMT
  <2>. QED
    BY <1>2, <1>5, <1>6, <2>1, <2>2, Zenon DEF MarksOf
<1>9. \A s : ~Relies(t, s)'
  BY <1>2, <1>6, Zenon DEF Relies
<1>10. q.pc \in Registered /\ r.pc \in Registered /\ q.pc \notin {"scan1", "register", "mark"}
  BY <1>1, <1>6, Zenon DEF Registered
<1>11. SelectMoves(t)
  BY <1>1, <1>2, <1>6, <1>7, <1>8, <1>9, <1>10, Zenon DEF SelectMoves, r
<1>. QED
  BY <1>11, SelectMovesKeeps, Zenon


\* How many have marked a socket, when one select changes its marks.
LEMMA MarkersCount ==
  ASSUME SocketTypes, NEW t \in Selectors, sel' = [sel EXCEPT ![t] = sel'[t]], NEW s
  PROVE  /\ Cardinality(Markers(s)) \in Nat /\ Cardinality(Markers(s)') \in Nat /\ Cardinality(Selectors) \in Nat
         /\ Cardinality(Markers(s)') <= Cardinality(Selectors)
         /\ (s \in sel'[t].marked <=> s \in sel[t].marked) => Cardinality(Markers(s)') = Cardinality(Markers(s))
         /\ s \in sel'[t].marked /\ s \notin sel[t].marked
              => Cardinality(Markers(s)') = Cardinality(Markers(s)) + 1
         /\ s \notin sel'[t].marked /\ s \in sel[t].marked
              => Cardinality(Markers(s)') = Cardinality(Markers(s)) - 1
<1>. DEFINE M == Markers(s)  N == {u \in Selectors : s \in sel'[u].marked}
<1>1. \A u \in Selectors : u # t => sel'[u] = sel[u]
  BY Zenon DEF SocketTypes
<1>2. M \in SUBSET Selectors /\ N \in SUBSET Selectors
  BY Zenon DEF Markers
<1>3. IsFiniteSet(Selectors)
  BY SocketConstants, Zenon
<1>4. IsFiniteSet(M) /\ IsFiniteSet(N) /\ Cardinality(N) <= Cardinality(Selectors)
  BY <1>2, <1>3, FS_Subset, Zenon
<1>5. Cardinality(M) \in Nat /\ Cardinality(N) \in Nat /\ Cardinality(Selectors) \in Nat
  BY <1>3, <1>4, FS_CardinalityType, Zenon
<1>6. (s \in sel'[t].marked <=> s \in sel[t].marked) => N = M
  BY <1>1, SMT DEF Markers
<1>7. s \in sel'[t].marked /\ s \notin sel[t].marked => N = M \cup {t} /\ t \notin M
  BY <1>1, SMT DEF Markers
<1>8. s \notin sel'[t].marked /\ s \in sel[t].marked => N = M \ {t} /\ t \in M
  BY <1>1, SMT DEF Markers
<1>9. t \notin M => Cardinality(M \cup {t}) = Cardinality(M) + 1
  BY <1>4, FS_AddElement
<1>10. t \in M => Cardinality(M \ {t}) = Cardinality(M) - 1
  BY <1>4, FS_RemoveElement
<1>11. Markers(s)' = N
  BY Zenon DEF Markers
<1>. HIDE DEF M, N
<1>12. /\ (s \in sel'[t].marked <=> s \in sel[t].marked) => Cardinality(N) = Cardinality(M)
       /\ s \in sel'[t].marked /\ s \notin sel[t].marked => Cardinality(N) = Cardinality(M) + 1
       /\ s \notin sel'[t].marked /\ s \in sel[t].marked => Cardinality(N) = Cardinality(M) - 1
  BY <1>6, <1>7, <1>8, <1>9, <1>10, Zenon
<1>. QED
  BY <1>4, <1>5, <1>11, <1>12, Zenon DEF M

\* A step of one select that marks or unmarks a socket.
MarkMoves(t) ==
  /\ sel' = [sel EXCEPT ![t] = sel'[t]] /\ sel'[t] \in SelRecord /\ UNCHANGED <<nconn, owner, event, cbList>>
  /\ sock' \in [Sk -> SockRecord]
  /\ \A s \in Sk : /\ sock'[s].conn = sock[s].conn /\ sock'[s].rcvevent = sock[s].rcvevent
                   /\ sock'[s].sendevent = sock[s].sendevent
  /\ sel[t].pc \in Registered /\ sel'[t].pc \in Registered /\ MarksOf(sel[t])'
  /\ sel'[t].pc \in {"scan1", "register", "mark"} => \A s \in Sk : Asked(sel'[t].set, s) => Known(s)
  /\ \A s \in Sk : ~Relies(t, s)'
  /\ owner.pc = "adopt" => owner.s \notin sel'[t].marked

LEMMA MarkMovesKeeps ==
  ASSUME SocketsInv, NEW t \in Selectors, MarkMoves(t), Waits'
  PROVE  SocketsInv'
<1>0. /\ SocketTypes /\ ConnsBound /\ SocketsBound /\ OwnerBound /\ EventsBound /\ CountsExact
      /\ Marks /\ Waits /\ ListExact /\ Wakeups
  BY SocketsInvParts, Zenon
<1>1. nconn' = nconn /\ owner' = owner /\ event' = event /\ cbList' = cbList
  BY Zenon DEF MarkMoves
<1>2. /\ sel' = [sel EXCEPT ![t] = sel'[t]] /\ sel'[t] \in SelRecord
      /\ \A s \in Sk : /\ sock'[s].conn = sock[s].conn /\ sock'[s].rcvevent = sock[s].rcvevent
                       /\ sock'[s].sendevent = sock[s].sendevent
  BY Zenon DEF MarkMoves
<1>3. \A u \in Selectors : u # t => sel'[u] = sel[u]
  BY <1>0, <1>2, Zenon DEF SocketTypes
<1>5. SocketTypes'
  <2>1. sel' \in [Selectors -> SelRecord]
    BY <1>0, <1>2, Zenon DEF SocketTypes
  <2>2. sock' \in [Sk -> SockRecord]
    BY Zenon DEF MarkMoves
  <2>. QED
    BY <1>0, <1>1, <2>1, <2>2, Zenon DEF SocketTypes
<1>6. ConnsBound' /\ SocketsBound' /\ OwnerBound' /\ CountsExact'
  <2>1. owner.pc = "adopt" => \A u \in Selectors : owner.s \notin sel'[u].marked
    BY <1>0, <1>3, Zenon DEF OwnerBound, MarkMoves
  <2>2. ConnsStay
    BY <1>1, <1>2, <2>1, Zenon DEF ConnsStay
  <2>. QED
    BY <1>0, <2>2, ConnsKept, Zenon
<1>7. EventsBound'
  BY <1>0, <1>1, Zenon DEF EventsBound
<1>8. Marks'
  <2>1. ASSUME NEW u \in Selectors, u # t
        PROVE  MarksOf(sel[u])'
    <3>1. MarksOf(sel[u])
      BY <1>0, Zenon DEF Marks
    <3>2. sel[u].marked \subseteq Sk
      BY <1>0, SocketFields, Zenon
    <3>3. \A s \in sel[u].marked : sock'[s].conn = sock[s].conn
      BY <1>2, <3>2, Zenon
    <3>. QED
      BY <1>3, <2>1, <3>1, <3>3, Zenon DEF MarksOf
  <2>2. \A s \in Sk : Known(s)' <=> Known(s)
    BY <1>1, <1>2, Zenon DEF Known
  <2>3. ASSUME NEW u \in Selectors, sel'[u].pc \in {"scan1", "register", "mark"}, NEW s \in Sk, Asked(sel'[u].set, s)
        PROVE  Known(s)'
    <3>1. CASE u = t
      BY <2>2, <2>3, <3>1, Zenon DEF MarkMoves
    <3>2. CASE u # t
      BY <1>0, <1>3, <2>2, <2>3, <3>2, Zenon DEF Marks
    <3>. QED
      BY <3>1, <3>2
  <2>4. MarksOf(sel[t])'
    BY Zenon DEF MarkMoves
  <2>5. \A u \in Selectors : MarksOf(sel[u])'
    BY <2>1, <2>4, Zenon
  <2>. QED
    BY <2>3, <2>5, Zenon DEF Marks
<1>10. ListExact'
  <2>1. \A u \in Selectors : sel'[u].pc \in Registered <=> sel[u].pc \in Registered
    BY <1>3, Zenon DEF MarkMoves
  <2>. QED
    BY <1>0, <1>1, <2>1, Zenon DEF ListExact, Registered
<1>11. Wakeups'
  <2>1. \A u, v, s : ComesTo(u, v, s)' <=> ComesTo(u, v, s)
    BY <1>1, Zenon DEF ComesTo
  <2>2. ASSUME NEW v \in Selectors, NEW s \in Sk, Relies(v, s)', sock'[s].conn # 0,
               Wakes(sock'[s], s, sel'[v].set)
        PROVE  sel'[v].sem \/ \E u \in Callers : ComesTo(u, v, s)'
    <3>1. v # t
      BY <2>2, Zenon DEF MarkMoves
    <3>2. sel'[v] = sel[v]
      BY <1>3, <2>2, <3>1, Zenon
    <3>3. Relies(v, s)
      BY <2>2, <3>2, Zenon DEF Relies
    <3>4. sock[s].conn # 0 /\ Wakes(sock[s], s, sel[v].set)
      BY <1>2, <2>2, <3>2, Zenon DEF Wakes
    <3>5. sel[v].sem \/ \E u \in Callers : ComesTo(u, v, s)
      BY <1>0, <2>2, <3>3, <3>4, Zenon DEF Wakeups
    <3>. QED
      BY <2>1, <3>2, <3>5, Zenon
  <2>. QED
    BY <2>2, Zenon DEF Wakeups
<1>. QED
  BY <1>5, <1>6, <1>7, <1>8, <1>10, <1>11, SocketsInvParts, Zenon DEF SocketsInv

\* select_waiting of a socket is set to n.
LEMMA WaitingSet ==
  ASSUME SocketTypes, NEW s \in Sk, NEW n \in Nat, sock' = [sock EXCEPT ![s].select_waiting = n]
  PROVE  /\ sock' \in [Sk -> SockRecord] /\ sock'[s].select_waiting = n
         /\ \A x \in Sk : /\ sock'[x].conn = sock[x].conn /\ sock'[x].rcvevent = sock[x].rcvevent
                          /\ sock'[x].sendevent = sock[x].sendevent
                          /\ x # s => sock'[x].select_waiting = sock[x].select_waiting
<1>1. sock' = [sock EXCEPT ![s] = [sock[s] EXCEPT !.select_waiting = n]]
  BY Zenon
<1>. DEFINE k == [sock[s] EXCEPT !.select_waiting = n]
<1>2. sock[s] \in SockRecord
  BY SocketFields, Zenon
<1>3. k \in SockRecord
  BY <1>2, SockUpdates, Zenon
<1>4. k.conn = sock[s].conn /\ k.rcvevent = sock[s].rcvevent /\ k.sendevent = sock[s].sendevent /\ k.select_waiting = n
  BY <1>2, Zenon DEF SockRecord
<1>. HIDE DEF k
<1>5. sock'[s] = k /\ \A x \in Sk : x # s => sock'[x] = sock[x]
  BY <1>1, Zenon DEF SocketTypes, k
<1>6. sock' \in [Sk -> SockRecord]
  BY <1>1, <1>3, Zenon DEF SocketTypes, k
<1>. QED
  BY <1>4, <1>5, <1>6, Zenon


\* select_waiting up: the socket is known, for it cannot be closed before it is marked.
LEMMA MarkKeeps ==
  ASSUME SocketsInv, NEW t \in Selectors, Mark(t)
  PROVE  SocketsInv'
<1>0. SocketTypes /\ Marks /\ Waits /\ OwnerBound /\ sel[t] \in SelRecord
  BY SocketsInvParts, SocketFields, Zenon
<1>. DEFINE r == sel[t]
            mine == Asked(r.set, r.at)
            M == IF mine THEN r.marked \cup {r.at} ELSE r.marked
            p == IF r.at < NUM_SOCKETS THEN "mark" ELSE "scan2"
            a == IF r.at < NUM_SOCKETS THEN r.at + 1 ELSE 1
            q == [r EXCEPT !.marked = M, !.pc = p, !.at = a]
<1>1. r.pc = "mark" /\ UNCHANGED <<nconn, owner, event, cbList>>
  BY Zenon DEF Mark
<1>2. /\ MarksOf(r) /\ r.marked \in SUBSET Sk /\ r.at \in Int
      /\ \A s \in Sk : Asked(r.set, s) => Known(s)
  BY <1>0, <1>1, SocketFields, Zenon DEF Marks
<1>3. /\ \A s \in r.marked : Asked(r.set, s)
      /\ r.at \in Sk /\ r.end = NUM_SOCKETS + 1
      /\ \A s \in Sk : s \in r.marked <=> s < r.at /\ Asked(r.set, s)
  BY <1>1, <1>2, Zenon DEF MarksOf
<1>4. mine => sock[r.at].conn # 0 /\ Known(r.at)
  BY <1>2, <1>3, Zenon DEF Known
<1>5. /\ sock' = IF mine THEN [sock EXCEPT ![r.at].select_waiting = @ + 1] ELSE sock
      /\ sel' = [sel EXCEPT ![t] = q]
  <2>1. /\ sock' = IF mine /\ ~(mine /\ sock[r.at].conn = 0) THEN [sock EXCEPT ![r.at].select_waiting = @ + 1] ELSE sock
        /\ sel' = [sel EXCEPT ![t] =
                     IF mine /\ sock[r.at].conn = 0
                       THEN [r EXCEPT !.nready = -1, !.end = r.at, !.pc = "unmark", !.at = 1]
                       ELSE [r EXCEPT !.marked = IF mine /\ ~(mine /\ sock[r.at].conn = 0) THEN @ \cup {r.at} ELSE @,
                                      !.pc = IF r.at < NUM_SOCKETS THEN "mark" ELSE "scan2",
                                      !.at = IF r.at < NUM_SOCKETS THEN @ + 1 ELSE 1]]
    BY Zenon DEF Mark, Sets
  <2>2. ~(mine /\ sock[r.at].conn = 0)
    BY <1>4, Zenon
  <2>. HIDE DEF mine
  <2>. QED
    BY <2>1, <2>2, Zenon
<1>6. sel'[t] = q
  BY <1>0, <1>5, Zenon DEF SocketTypes
<1>7. M \in SUBSET Sk /\ p \in SelPcs /\ a \in Int
  BY <1>2, <1>3, SMT DEF SelPcs
<1>. HIDE DEF mine, p, M, a
<1>8. q.marked = M /\ q.pc = p /\ q.at = a /\ q.set = r.set /\ q.end = r.end /\ q.nready = r.nready
  BY <1>0, Zenon DEF SelRecord
<1>9. q \in SelRecord
  <2>1. [r EXCEPT !.marked = M] \in SelRecord
    BY <1>0, <1>7, SelUpdates, Zenon
  <2>2. [r EXCEPT !.marked = M, !.pc = p] \in SelRecord
    BY <1>7, <2>1, SelUpdates, Zenon
  <2>. QED
    BY <1>7, <2>2, SelUpdates, Zenon
<1>. HIDE DEF q
<1>10. /\ sock' \in [Sk -> SockRecord]
       /\ \A s \in Sk : /\ sock'[s].conn = sock[s].conn /\ sock'[s].rcvevent = sock[s].rcvevent
                        /\ sock'[s].sendevent = sock[s].sendevent
                        /\ s # r.at => sock'[s].select_waiting = sock[s].select_waiting
       /\ sock'[r.at].select_waiting = sock[r.at].select_waiting + IF mine THEN 1 ELSE 0
  <2>1. sock[r.at].select_waiting \in Nat /\ sock[r.at].select_waiting + 1 \in Nat
    BY <1>0, <1>3, SocketFields, SMT
  <2>2. CASE mine
    <3>. DEFINE n == sock[r.at].select_waiting + 1
    <3>1. sock' = [sock EXCEPT ![r.at].select_waiting = n]
      BY <1>5, <2>2, Zenon
    <3>2. n \in Nat
      BY <2>1
    <3>. HIDE DEF n
    <3>3. /\ sock' \in [Sk -> SockRecord] /\ sock'[r.at].select_waiting = n
          /\ \A s \in Sk : /\ sock'[s].conn = sock[s].conn /\ sock'[s].rcvevent = sock[s].rcvevent
                           /\ sock'[s].sendevent = sock[s].sendevent
                           /\ s # r.at => sock'[s].select_waiting = sock[s].select_waiting
      BY <1>0, <1>3, <3>1, <3>2, WaitingSet, Zenon
    <3>. QED
      BY <2>2, <3>3, Zenon DEF n
  <2>3. CASE ~mine
    <3>1. sock' = sock
      BY <1>5, <2>3, Zenon
    <3>2. sock[r.at].select_waiting = sock[r.at].select_waiting + 0
      BY <2>1, SMT
    <3>. QED
      BY <1>0, <2>3, <3>1, <3>2, Zenon DEF SocketTypes
  <2>. QED
    BY <2>2, <2>3
<1>11. r.at \notin r.marked /\ (\A s \in Sk : s # r.at => (s \in q.marked <=> s \in r.marked)) /\ (r.at \in q.marked <=> mine)
  <2>1. ~(r.at < r.at)
    BY <1>2, SMT
  <2>2. r.at \notin r.marked
    BY <1>3, <2>1, Zenon
  <2>. QED
    BY <1>8, <2>2, SMT DEF M
<1>12. Waits'
  <2>1. ASSUME NEW s \in Sk
        PROVE  /\ Cardinality(Markers(s)') <= sock'[s].select_waiting
               /\ sock'[s].select_waiting <= Cardinality(Selectors)
               /\ sock'[s].conn # 0 => sock'[s].select_waiting = Cardinality(Markers(s)')
    <3>1. sel' = [sel EXCEPT ![t] = sel'[t]]
      BY <1>5, <1>6, Zenon
    <3>2. /\ Cardinality(Markers(s)) <= sock[s].select_waiting /\ sock[s].select_waiting <= Cardinality(Selectors)
          /\ sock[s].conn # 0 => sock[s].select_waiting = Cardinality(Markers(s))
      BY <1>0, Zenon DEF Waits
    <3>3. /\ Cardinality(Markers(s)) \in Nat /\ Cardinality(Selectors) \in Nat
          /\ Cardinality(Markers(s)') <= Cardinality(Selectors)
          /\ (s \in q.marked <=> s \in r.marked) => Cardinality(Markers(s)') = Cardinality(Markers(s))
          /\ s \in q.marked /\ s \notin r.marked => Cardinality(Markers(s)') = Cardinality(Markers(s)) + 1
      BY <1>0, <1>6, <3>1, MarkersCount, Zenon
    <3>4. CASE s = r.at /\ mine
      <4>1. Cardinality(Markers(s)') = Cardinality(Markers(s)) + 1 /\ sock[s].conn # 0
        BY <1>4, <1>11, <3>3, <3>4, Zenon
      <4>2. sock'[s].select_waiting = sock[s].select_waiting + 1
        BY <1>10, <3>4, Zenon
      <4>3. sock[s].select_waiting = Cardinality(Markers(s))
        BY <3>2, <4>1, Zenon
      <4>4. sock'[s].select_waiting = Cardinality(Markers(s)')
        BY <4>1, <4>2, <4>3, Zenon
      <4>5. Cardinality(Markers(s)') \in Int
        BY <3>3, <4>1, SMT
      <4>6. Cardinality(Markers(s)') <= Cardinality(Markers(s)')
        BY <4>5, SMT
      <4>. QED
        BY <3>3, <4>4, <4>6, Zenon
    <3>5. CASE ~(s = r.at /\ mine)
      <4>1. Cardinality(Markers(s)') = Cardinality(Markers(s))
        BY <1>11, <3>3, <3>5, Zenon
      <4>2. sock'[s].select_waiting = sock[s].select_waiting
        <5>1. sock[s].select_waiting \in Nat
          BY <1>0, SocketFields, Zenon
        <5>. QED
          BY <1>10, <3>5, <5>1, SMT
      <4>3. sock'[s].conn = sock[s].conn
        BY <1>10, Zenon
      <4>. QED
        BY <3>2, <4>1, <4>2, <4>3, Zenon
    <3>. QED
      BY <3>4, <3>5
  <2>. QED
    BY <2>1, Zenon DEF Waits
<1>13. q.pc \in {"mark", "scan2"} /\ (q.pc = "mark" <=> r.at < NUM_SOCKETS)
  BY <1>8, Zenon DEF p
<1>14. /\ q.pc = "mark" => q.at = r.at + 1
       /\ q.pc = "scan2" => q.at = 1 /\ r.at = NUM_SOCKETS
       /\ q.at \in Sk
  <2>1. r.at <= NUM_SOCKETS /\ r.at >= 1
    BY <1>3, SMT DEF Sk
  <2>2. NUM_SOCKETS \in Nat
    BY SocketConstants, Zenon
  <2>. QED
    BY <1>2, <1>8, <1>13, <2>1, <2>2, SMT DEF a, Sk
<1>15. r.nready >= 0
  BY <1>1, <1>2, Zenon DEF MarksOf
<1>16. \A s \in q.marked : Asked(r.set, s) /\ s \in Sk
  <2>1. q.marked \in SUBSET Sk
    BY <1>7, <1>8, Zenon
  <2>. QED
    BY <1>3, <1>11, <2>1, Zenon DEF mine
<1>17. q.pc = "mark" => \A s \in Sk : s \in q.marked <=> s < q.at /\ Asked(q.set, s)
  <2>1. ASSUME q.pc = "mark", NEW s \in Sk
        PROVE  s \in q.marked <=> s < q.at /\ Asked(q.set, s)
    <3>1. q.at = r.at + 1 /\ s \in Int /\ r.at \in Int
      BY <1>2, <1>14, <2>1, SMT DEF Sk
    <3>2. s < q.at <=> s < r.at \/ s = r.at
      BY <3>1, SMT
    <3>3. ~(r.at < r.at)
      BY <1>2, SMT
    <3>. QED
      BY <1>3, <1>8, <1>11, <3>2, <3>3, Zenon DEF mine
  <2>. QED
    BY <2>1, Zenon
<1>18. q.pc = "scan2" => \A s \in Sk : Asked(q.set, s) => s \in q.marked
  <2>1. ASSUME q.pc = "scan2", NEW s \in Sk, Asked(q.set, s)
        PROVE  s \in q.marked
    <3>1. r.at = NUM_SOCKETS /\ s \in Int /\ s <= NUM_SOCKETS
      BY <1>14, <2>1, SMT DEF Sk
    <3>2. s < r.at \/ s = r.at
      BY <1>2, <3>1, SMT
    <3>. QED
      BY <1>3, <1>8, <1>11, <2>1, <3>2, Zenon DEF mine
  <2>. QED
    BY <2>1, Zenon
<1>19. MarksOf(sel[t])'
  <2>1. q.pc \notin {"idle", "scan1", "register", "scan3", "unmark", "wait"}
    BY <1>13, Zenon
  <2>2. /\ q.end = NUM_SOCKETS + 1 /\ q.nready >= 0 /\ q.at \in Sk
        /\ \A s \in q.marked : Asked(q.set, s)
    BY <1>3, <1>8, <1>14, <1>15, <1>16, Zenon
  <2>. QED
    BY <1>6, <1>17, <1>18, <2>1, <2>2, Zenon DEF MarksOf
<1>20. \A s \in Sk : ~Relies(t, s)'
  <2>1. q.pc # "wait"
    BY <1>13, Zenon
  <2>2. ASSUME q.pc = "scan2", NEW s \in Sk PROVE ~(s < q.at)
    <3>1. q.at = 1 /\ s \in Int /\ s >= 1
      BY <1>14, <2>2, SMT DEF Sk
    <3>. QED
      BY <3>1, SMT
  <2>. QED
    BY <1>6, <2>1, <2>2, Zenon DEF Relies
<1>21. owner.pc = "adopt" => owner.s \notin q.marked
  <2>1. SUFFICES ASSUME owner.pc = "adopt", owner.s \in q.marked PROVE FALSE
    OBVIOUS
  <2>2. owner.s \in Sk /\ Known(owner.s)
    BY <1>2, <1>16, <2>1, Zenon
  <2>3. owner.c \in NConns /\ nconn[owner.c].socket < 0 /\ sock[owner.s].conn = owner.c
    BY <1>0, <2>1, Zenon DEF OwnerBound
  <2>4. nconn[owner.c].socket = owner.s
    BY <2>2, <2>3, Zenon DEF Known
  <2>. QED
    BY <2>2, <2>3, <2>4, SMT DEF Sk
<1>22. \A s \in Sk : Asked(q.set, s) => Known(s)
  BY <1>2, <1>8, Zenon
<1>23. q.pc \in Registered /\ r.pc \in Registered
  BY <1>1, <1>13, Zenon DEF Registered
<1>24. MarkMoves(t)
  BY <1>1, <1>5, <1>6, <1>9, <1>10, <1>19, <1>20, <1>21, <1>22, <1>23, Zenon DEF MarkMoves
<1>. QED
  BY <1>12, <1>24, MarkMovesKeeps, Zenon


\* select_waiting down: what is given back was taken; a socket that is gone keeps the mark.
LEMMA UnmarkKeeps ==
  ASSUME SocketsInv, NEW t \in Selectors, Unmark(t)
  PROVE  SocketsInv'
<1>0. SocketTypes /\ Marks /\ Waits /\ OwnerBound /\ sel[t] \in SelRecord
  BY SocketsInvParts, SocketFields, Zenon
<1>. DEFINE r == sel[t]
            gone == Asked(r.set, r.at) /\ sock[r.at].conn = 0
            mine == Asked(r.set, r.at) /\ ~gone
            M == IF mine THEN r.marked \ {r.at} ELSE r.marked
            a == r.at + 1
            n == IF gone THEN -1 ELSE r.nready
            q == [r EXCEPT !.at = a, !.marked = M, !.nready = n]
            w == GivenBack(sock[r.at].select_waiting)
<1>1. r.pc = "unmark" /\ r.at < r.end /\ UNCHANGED <<nconn, owner, event, cbList>>
  BY Zenon DEF Unmark
<1>2. /\ MarksOf(r) /\ r.marked \in SUBSET Sk /\ r.at \in Int /\ r.end \in Int /\ r.nready \in Int
  BY <1>0, SocketFields, Zenon DEF Marks
<1>3. /\ \A s \in r.marked : Asked(r.set, s)
      /\ 1 <= r.at /\ r.at <= r.end /\ r.end <= NUM_SOCKETS + 1
      /\ \A s \in Sk : Asked(r.set, s) /\ r.at <= s /\ s < r.end => s \in r.marked
      /\ \A s \in r.marked : s < r.end /\ (s < r.at => sock[s].conn = 0)
  BY <1>1, <1>2, Zenon DEF MarksOf
<1>4. r.at \in Sk
  <2>1. NUM_SOCKETS \in Nat
    BY SocketConstants, Zenon
  <2>. QED
    BY <1>1, <1>2, <1>3, <2>1, SMT DEF Sk
<1>5. /\ sock' = IF mine THEN [sock EXCEPT ![r.at].select_waiting = w] ELSE sock
      /\ sel' = [sel EXCEPT ![t] = q]
  BY Zenon DEF Unmark, Sets
<1>6. sel'[t] = q
  BY <1>0, <1>5, Zenon DEF SocketTypes
<1>7. M \in SUBSET Sk /\ a \in Int /\ n \in Int
  <2>1. M \in SUBSET Sk
    BY <1>2, Zenon
  <2>2. a \in Int /\ n \in Int
    BY <1>2, SMT
  <2>. QED
    BY <2>1, <2>2
<1>8. r.at \in r.marked \/ ~mine
  <2>1. r.at <= r.at
    BY <1>2, SMT
  <2>. QED
    BY <1>1, <1>3, <1>4, <2>1, Zenon
<1>9. mine <=> Asked(r.set, r.at) /\ sock[r.at].conn # 0
  BY Zenon
<1>. HIDE DEF mine, gone, M, a, n
<1>10. q.marked = M /\ q.pc = r.pc /\ q.at = a /\ q.set = r.set /\ q.end = r.end
  BY <1>0, Zenon DEF SelRecord
<1>11. q \in SelRecord
  <2>1. [r EXCEPT !.at = a] \in SelRecord
    BY <1>0, <1>7, SelUpdates, Zenon
  <2>2. [r EXCEPT !.at = a, !.marked = M] \in SelRecord
    BY <1>7, <2>1, SelUpdates, Zenon
  <2>. QED
    BY <1>7, <2>2, SelUpdates, Zenon
<1>. HIDE DEF q
<1>12. /\ r.at \in q.marked <=> (r.at \in r.marked /\ ~mine)
       /\ \A s \in Sk : s # r.at => (s \in q.marked <=> s \in r.marked)
       /\ q.marked \subseteq r.marked
  BY <1>10, Zenon DEF M
<1>13. /\ sock' \in [Sk -> SockRecord]
       /\ \A s \in Sk : /\ sock'[s].conn = sock[s].conn /\ sock'[s].rcvevent = sock[s].rcvevent
                        /\ sock'[s].sendevent = sock[s].sendevent
                        /\ s # r.at \/ ~mine => sock'[s].select_waiting = sock[s].select_waiting
       /\ mine => sock'[r.at].select_waiting = w
  <2>1. w \in Nat
    <3>1. sock[r.at].select_waiting \in Nat
      BY <1>0, <1>4, SocketFields, Zenon
    <3>. QED
      BY <3>1, SMT DEF GivenBack
  <2>. HIDE DEF w
  <2>2. CASE mine
    <3>1. sock' = [sock EXCEPT ![r.at].select_waiting = w]
      BY <1>5, <2>2, Zenon
    <3>2. /\ sock' \in [Sk -> SockRecord] /\ sock'[r.at].select_waiting = w
          /\ \A s \in Sk : /\ sock'[s].conn = sock[s].conn /\ sock'[s].rcvevent = sock[s].rcvevent
                           /\ sock'[s].sendevent = sock[s].sendevent
                           /\ s # r.at => sock'[s].select_waiting = sock[s].select_waiting
      BY <1>0, <1>4, <2>1, <3>1, WaitingSet, Zenon
    <3>. QED
      BY <2>2, <3>2, Zenon
  <2>3. CASE ~mine
    BY <1>0, <1>5, <2>3, Zenon DEF SocketTypes
  <2>. QED
    BY <2>2, <2>3
<1>14. Waits'
  <2>1. ASSUME NEW s \in Sk
        PROVE  /\ Cardinality(Markers(s)') <= sock'[s].select_waiting
               /\ sock'[s].select_waiting <= Cardinality(Selectors)
               /\ sock'[s].conn # 0 => sock'[s].select_waiting = Cardinality(Markers(s)')
    <3>1. sel' = [sel EXCEPT ![t] = sel'[t]]
      BY <1>5, <1>6, Zenon
    <3>2. /\ Cardinality(Markers(s)) <= sock[s].select_waiting /\ sock[s].select_waiting <= Cardinality(Selectors)
          /\ sock[s].conn # 0 => sock[s].select_waiting = Cardinality(Markers(s))
      BY <1>0, Zenon DEF Waits
    <3>3. /\ Cardinality(Markers(s)) \in Nat /\ Cardinality(Markers(s)') \in Nat /\ Cardinality(Selectors) \in Nat
          /\ Cardinality(Markers(s)') <= Cardinality(Selectors)
          /\ (s \in q.marked <=> s \in r.marked) => Cardinality(Markers(s)') = Cardinality(Markers(s))
          /\ s \notin q.marked /\ s \in r.marked => Cardinality(Markers(s)') = Cardinality(Markers(s)) - 1
      BY <1>0, <1>6, <3>1, MarkersCount, Zenon
    <3>4. CASE s = r.at /\ mine
      <4>1. Cardinality(Markers(s)') = Cardinality(Markers(s)) - 1 /\ sock[s].conn # 0
        BY <1>8, <1>9, <1>12, <3>3, <3>4, Zenon
      <4>2. sock'[s].select_waiting = GivenBack(sock[s].select_waiting)
        BY <1>13, <3>4, Zenon
      <4>3. sock[s].select_waiting = Cardinality(Markers(s))
        BY <3>2, <4>1, Zenon
      <4>. DEFINE k == Cardinality(Markers(s))  j == Cardinality(Markers(s)')
      <4>4. k \in Nat /\ j \in Nat /\ j = k - 1 /\ j <= Cardinality(Selectors) /\ Cardinality(Selectors) \in Nat
        BY <3>3, <4>1, Zenon
      <4>. HIDE DEF k, j
      <4>5. GivenBack(k) = j
        BY <4>4, SMT DEF GivenBack
      <4>6. j <= j
        BY <4>4, SMT
      <4>7. sock'[s].select_waiting = j
        BY <4>2, <4>3, <4>5, Zenon DEF k
      <4>. QED
        BY <4>4, <4>6, <4>7, Zenon DEF j
    <3>5. CASE ~(s = r.at /\ mine)
      <4>1. Cardinality(Markers(s)') = Cardinality(Markers(s))
        BY <1>12, <3>3, <3>5, Zenon
      <4>2. sock'[s].select_waiting = sock[s].select_waiting /\ sock'[s].conn = sock[s].conn
        BY <1>13, <3>5, Zenon
      <4>. QED
        BY <3>2, <4>1, <4>2, Zenon
    <3>. QED
      BY <3>4, <3>5
  <2>. QED
    BY <2>1, Zenon DEF Waits
<1>15. MarksOf(sel[t])'
  <2>1. 1 <= q.at /\ q.at <= q.end /\ q.end <= NUM_SOCKETS + 1
    BY <1>1, <1>2, <1>3, <1>10, SMT DEF a
  <2>2. ASSUME NEW s \in Sk, Asked(q.set, s), q.at <= s, s < q.end
        PROVE  s \in q.marked
    <3>1. r.at <= s /\ s # r.at
      <4>1. s \in Int
        BY DEF Sk
      <4>. QED
        BY <1>2, <1>10, <2>2, <4>1, SMT DEF a
    <3>. QED
      BY <1>3, <1>10, <1>12, <2>2, <3>1, Zenon
  <2>3. ASSUME NEW s \in q.marked
        PROVE  s < q.end /\ (s < q.at => sock'[s].conn = 0)
    <3>1. s \in r.marked /\ s \in Sk
      BY <1>2, <1>12, Zenon
    <3>2. s < q.end /\ (s < r.at => sock[s].conn = 0)
      BY <1>3, <1>10, <3>1, Zenon
    <3>3. s = r.at => sock[s].conn = 0
      BY <1>3, <1>9, <1>12, <2>3, <3>1, Zenon
    <3>4. s < q.at => s < r.at \/ s = r.at
      <4>1. s \in Int
        BY <3>1 DEF Sk
      <4>. QED
        BY <1>2, <1>10, <4>1, SMT DEF a
    <3>5. sock'[s].conn = sock[s].conn
      BY <1>13, <3>1, Zenon
    <3>. QED
      BY <3>2, <3>3, <3>4, <3>5, Zenon
  <2>4. \A s \in q.marked : Asked(q.set, s)
    BY <1>3, <1>10, <1>12, Zenon
  <2>5. q.pc = "unmark"
    BY <1>1, <1>10, Zenon
  <2>. QED
    BY <1>6, <2>1, <2>2, <2>3, <2>4, <2>5, Zenon DEF MarksOf
<1>16. q.pc = "unmark" /\ q.pc \in Registered /\ r.pc \in Registered /\ q.pc \notin {"scan1", "register", "mark"}
  BY <1>1, <1>10, Zenon DEF Registered
<1>17. \A s \in Sk : ~Relies(t, s)'
  BY <1>6, <1>16, Zenon DEF Relies
<1>18. owner.pc = "adopt" => owner.s \notin q.marked
  BY <1>0, <1>12, Zenon DEF OwnerBound
<1>19. MarkMoves(t)
  BY <1>1, <1>5, <1>6, <1>11, <1>13, <1>15, <1>16, <1>17, <1>18, Zenon DEF MarkMoves
<1>. QED
  BY <1>14, <1>19, MarkMovesKeeps, Zenon


\* A step of one select that enters the list or leaves it.
ListMoves(t) ==
  /\ sel' = [sel EXCEPT ![t] = sel'[t]] /\ sel'[t] \in SelRecord /\ UNCHANGED <<sock, nconn, owner>>
  /\ cbList' \in Seq(Selectors) /\ ListChanges(cbList')
  /\ MarksOf(sel[t])' /\ sel'[t].marked = {}
  /\ sel'[t].pc \in {"scan1", "register", "mark"} => \A s \in Sk : Asked(sel'[t].set, s) => Known(s)
  /\ sel'[t].pc \notin {"scan2", "wait"}
  /\ \A s \in sel[t].marked : sock[s].conn = 0

\* The loops under way begin again.
LEMMA ListChangesLoops ==
  ASSUME SocketTypes, ListChanges(cbList'), NEW u \in Callers
  PROVE  /\ event'[u] \in EventRecord /\ event' \in [Callers -> EventRecord]
         /\ event'[u].pc = event[u].pc /\ event'[u].c = event[u].c /\ event'[u].evt = event[u].evt
         /\ event'[u].cb = event[u].cb
         /\ event[u].pc = "loop" => event'[u].stale
<1>1. event' = [v \in Callers |-> IF event[v].pc = "loop" THEN [event[v] EXCEPT !.stale = TRUE] ELSE event[v]]
  BY Zenon DEF ListChanges
<1>2. ASSUME NEW v \in Callers
      PROVE  /\ event'[v] \in EventRecord
             /\ event'[v].pc = event[v].pc /\ event'[v].c = event[v].c /\ event'[v].evt = event[v].evt
             /\ event'[v].cb = event[v].cb
             /\ event[v].pc = "loop" => event'[v].stale
  <2>. DEFINE e == [event[v] EXCEPT !.stale = TRUE]
  <2>1. event[v] \in EventRecord
    BY <1>2, SocketFields, Zenon
  <2>2. e \in EventRecord
    BY <2>1, EventUpdates, Zenon
  <2>3. e.pc = event[v].pc /\ e.c = event[v].c /\ e.evt = event[v].evt /\ e.cb = event[v].cb /\ e.stale
    BY <2>1, Zenon DEF EventRecord
  <2>4. event'[v] = IF event[v].pc = "loop" THEN e ELSE event[v]
    BY <1>1, <1>2, Zenon
  <2>. HIDE DEF e
  <2>. QED
    BY <2>1, <2>2, <2>3, <2>4, Zenon
<1>3. event' \in [Callers -> EventRecord]
  <2>1. \A v \in Callers : (IF event[v].pc = "loop" THEN [event[v] EXCEPT !.stale = TRUE] ELSE event[v]) \in EventRecord
    BY <1>1, <1>2, Zenon
  <2>. QED
    BY <1>1, <2>1, Zenon
<1>. QED
  BY <1>2, <1>3, Zenon

LEMMA ListMovesKeeps ==
  ASSUME SocketsInv, NEW t \in Selectors, ListMoves(t), ListExact'
  PROVE  SocketsInv'
<1>0. /\ SocketTypes /\ ConnsBound /\ SocketsBound /\ OwnerBound /\ EventsBound /\ CountsExact
      /\ Marks /\ Waits /\ ListExact /\ Wakeups
  BY SocketsInvParts, Zenon
<1>1. sock' = sock /\ nconn' = nconn /\ owner' = owner
  BY Zenon DEF ListMoves
<1>2. /\ sel' = [sel EXCEPT ![t] = sel'[t]] /\ sel'[t] \in SelRecord /\ sel'[t].marked = {}
  BY Zenon DEF ListMoves
<1>3. \A u \in Selectors : u # t => sel'[u] = sel[u]
  BY <1>0, <1>2, Zenon DEF SocketTypes
<1>4. /\ event' \in [Callers -> EventRecord]
      /\ \A u \in Callers :
           /\ event'[u].pc = event[u].pc /\ event'[u].c = event[u].c /\ event'[u].evt = event[u].evt
           /\ event'[u].cb = event[u].cb
           /\ event[u].pc = "loop" => event'[u].stale
  <2>1. ListChanges(cbList') /\ Owner \in Callers
    BY SocketConstants, Zenon DEF ListMoves
  <2>. QED
    BY <1>0, <2>1, ListChangesLoops, Zenon
<1>5. SocketTypes'
  <2>1. sel' \in [Selectors -> SelRecord]
    BY <1>0, <1>2, Zenon DEF SocketTypes
  <2>2. cbList' \in Seq(Selectors)
    BY Zenon DEF ListMoves
  <2>. QED
    BY <1>0, <1>1, <1>4, <2>1, <2>2, Zenon DEF SocketTypes
<1>6. ConnsBound' /\ SocketsBound' /\ OwnerBound' /\ CountsExact'
  <2>1. owner.pc = "adopt" => \A u \in Selectors : owner.s \notin sel'[u].marked
    BY <1>0, <1>2, <1>3, Zenon DEF OwnerBound
  <2>2. ConnsStay
    BY <1>1, <1>4, <2>1, Zenon DEF ConnsStay
  <2>. QED
    BY <1>0, <2>2, ConnsKept, Zenon
<1>7. EventsBound'
  <2>1. ASSUME NEW u \in Callers, event'[u].pc # "idle"
        PROVE  /\ event'[u].c \in NConns /\ nconn'[event'[u].c].live
               /\ u = Owner => event'[u].evt = "RCVMINUS" /\ nconn'[event'[u].c].socket > 0
               /\ u = "tcpip" => event'[u].evt \in {"RCVPLUS", "SENDPLUS", "SENDMINUS"}
               /\ event'[u].pc = "loop" =>
                    /\ nconn'[event'[u].c].socket > 0 /\ event'[u].cb >= 1
                    /\ event'[u].stale \/ event'[u].cb <= Len(cbList')
    BY <1>0, <1>1, <1>4, <2>1, Zenon DEF EventsBound
  <2>. QED
    BY <2>1, Zenon DEF EventsBound
<1>8. Marks'
  <2>1. ASSUME NEW u \in Selectors, u # t
        PROVE  MarksOf(sel[u])'
    <3>1. MarksOf(sel[u])
      BY <1>0, Zenon DEF Marks
    <3>. QED
      BY <1>1, <1>3, <2>1, <3>1, Zenon DEF MarksOf
  <2>2. \A s : Known(s)' <=> Known(s)
    BY <1>1, Zenon DEF Known
  <2>3. ASSUME NEW u \in Selectors, sel'[u].pc \in {"scan1", "register", "mark"}, NEW s \in Sk, Asked(sel'[u].set, s)
        PROVE  Known(s)'
    <3>1. CASE u = t
      BY <2>2, <2>3, <3>1, Zenon DEF ListMoves
    <3>2. CASE u # t
      BY <1>0, <1>3, <2>2, <2>3, <3>2, Zenon DEF Marks
    <3>. QED
      BY <3>1, <3>2
  <2>4. MarksOf(sel[t])'
    BY Zenon DEF ListMoves
  <2>5. \A u \in Selectors : MarksOf(sel[u])'
    BY <2>1, <2>4, Zenon
  <2>. QED
    BY <2>3, <2>5, Zenon DEF Marks
<1>9. Waits'
  <2>1. ASSUME NEW s \in Sk
        PROVE  /\ Cardinality(Markers(s)') <= sock'[s].select_waiting
               /\ sock'[s].select_waiting <= Cardinality(Selectors)
               /\ sock'[s].conn # 0 => sock'[s].select_waiting = Cardinality(Markers(s)')
    <3>1. /\ Cardinality(Markers(s)) <= sock[s].select_waiting /\ sock[s].select_waiting <= Cardinality(Selectors)
          /\ sock[s].conn # 0 => sock[s].select_waiting = Cardinality(Markers(s))
      BY <1>0, Zenon DEF Waits
    <3>2. /\ Cardinality(Markers(s)) \in Nat /\ Cardinality(Markers(s)') \in Nat
          /\ (s \in sel'[t].marked <=> s \in sel[t].marked) => Cardinality(Markers(s)') = Cardinality(Markers(s))
          /\ s \notin sel'[t].marked /\ s \in sel[t].marked
               => Cardinality(Markers(s)') = Cardinality(Markers(s)) - 1
      BY <1>0, <1>2, MarkersCount, Zenon
    <3>3. s \notin sel'[t].marked /\ sock[s].select_waiting \in Nat
      BY <1>0, <1>2, SocketFields, Zenon
    <3>4. CASE s \in sel[t].marked
      <4>1. sock[s].conn = 0
        BY <3>4, Zenon DEF ListMoves
      <4>2. Cardinality(Markers(s)') <= sock[s].select_waiting
        BY <3>1, <3>2, <3>3, <3>4, SMT
      <4>. QED
        BY <1>1, <3>1, <4>1, <4>2, Zenon
    <3>5. CASE s \notin sel[t].marked
      BY <1>1, <3>1, <3>2, <3>3, <3>5, Zenon
    <3>. QED
      BY <3>4, <3>5
  <2>. QED
    BY <2>1, Zenon DEF Waits
<1>11. Wakeups'
  <2>2. ASSUME NEW v \in Selectors, NEW s \in Sk, Relies(v, s)', sock'[s].conn # 0,
               Wakes(sock'[s], s, sel'[v].set)
        PROVE  sel'[v].sem \/ \E u \in Callers : ComesTo(u, v, s)'
    <3>1. v # t
      BY <2>2, Zenon DEF Relies, ListMoves
    <3>2. sel'[v] = sel[v]
      BY <1>3, <2>2, <3>1, Zenon
    <3>3. Relies(v, s)
      BY <2>2, <3>2, Zenon DEF Relies
    <3>4. sel[v].sem \/ \E u \in Callers : ComesTo(u, v, s)
      BY <1>0, <1>1, <2>2, <3>2, <3>3, Zenon DEF Wakeups
    <3>5. ASSUME NEW u \in Callers, ComesTo(u, v, s)
          PROVE  ComesTo(u, v, s)'
      <4>1. event[u].pc = "loop" /\ nconn[event[u].c].socket = s
        BY <3>5, Zenon DEF ComesTo
      <4>. QED
        BY <1>1, <1>4, <4>1, Zenon DEF ComesTo
    <3>. QED
      BY <3>2, <3>4, <3>5, Zenon
  <2>. QED
    BY <2>2, Zenon DEF Wakeups
<1>. QED
  BY <1>5, <1>6, <1>7, <1>8, <1>9, <1>11, SocketsInvParts, Zenon DEF SocketsInv

\* The entry goes to the head of the list.
LEMMA RegisterKeeps ==
  ASSUME SocketsInv, NEW t \in Selectors, Register(t)
  PROVE  SocketsInv'
<1>0. SocketTypes /\ Marks /\ ListExact /\ sel[t] \in SelRecord
  BY SocketsInvParts, SocketFields, Zenon
<1>. DEFINE r == sel[t]  e == NUM_SOCKETS + 1
            q == [r EXCEPT !.pc = "mark", !.sem = FALSE, !.at = 1, !.end = e]
            l == <<t>> \o cbList
<1>1. r.pc = "register" /\ sel' = [sel EXCEPT ![t] = q] /\ ListChanges(l) /\ UNCHANGED <<sock, nconn, owner>>
  BY Zenon DEF Register, Sets
<1>2. sel'[t] = q
  BY <1>0, <1>1, Zenon DEF SocketTypes
<1>3. cbList' = l /\ ListChanges(cbList')
  BY <1>1, Zenon DEF ListChanges
<1>4. MarksOf(r) /\ r.marked = {} /\ r.nready >= 0 /\ \A s \in Sk : Asked(r.set, s) => Known(s)
  BY <1>0, <1>1, Zenon DEF Marks, MarksOf
<1>5. e \in Int
  BY SocketConstants, SMT
<1>. HIDE DEF e
<1>6. q.pc = "mark" /\ q.at = 1 /\ q.end = e /\ q.set = r.set /\ q.marked = r.marked /\ q.nready = r.nready
  BY <1>0, Zenon DEF SelRecord
<1>7. q \in SelRecord
  <2>1. "mark" \in SelPcs /\ 1 \in Int /\ FALSE \in BOOLEAN
    BY DEF SelPcs
  <2>2. [r EXCEPT !.pc = "mark"] \in SelRecord
    BY <1>0, <2>1, SelUpdates, Zenon
  <2>3. [r EXCEPT !.pc = "mark", !.sem = FALSE] \in SelRecord
    BY <2>1, <2>2, SelUpdates, Zenon
  <2>4. [r EXCEPT !.pc = "mark", !.sem = FALSE, !.at = 1] \in SelRecord
    BY <2>1, <2>3, SelUpdates, Zenon
  <2>. QED
    BY <1>5, <2>4, SelUpdates, Zenon
<1>. HIDE DEF q
<1>8. MarksOf(sel[t])'
  <2>1. \A s \in Sk : ~(s < 1)
    BY SMT DEF Sk
  <2>2. 1 \in Sk
    BY SocketConstants, Zenon
  <2>. QED
    BY <1>2, <1>4, <1>6, <2>1, <2>2, Zenon DEF MarksOf, e
<1>9. /\ l \in Seq(Selectors) /\ Len(l) = Len(cbList) + 1 /\ l[1] = t
      /\ \A n \in 1..Len(cbList) : l[n + 1] = cbList[n]
      /\ Len(cbList) \in Nat
  <2>1. cbList \in Seq(Selectors)
    BY <1>0, Zenon DEF SocketTypes
  <2>. QED
    BY <2>1, SMT
<1>10. \A n \in 1..Len(cbList) : cbList[n] # t
  <2>1. r.pc \notin {"mark", "scan2", "wait", "unmark"}
    BY <1>1, Zenon
  <2>. QED
    BY <1>0, <2>1, Zenon DEF ListExact
<1>. HIDE DEF l
<1>11. ListExact'
  <2>1. ASSUME NEW n \in 1..Len(l), NEW m \in 1..Len(l), l[n] = l[m] PROVE n = m
    <3>1. /\ n \in Nat /\ (n = 1 \/ (n - 1 \in 1..Len(cbList) /\ n = (n - 1) + 1))
          /\ m \in Nat /\ (m = 1 \/ (m - 1 \in 1..Len(cbList) /\ m = (m - 1) + 1))
      BY <1>9, SMT
    <3>2. CASE n = 1
      BY <1>9, <1>10, <2>1, <3>1, <3>2, Zenon
    <3>3. CASE m = 1
      BY <1>9, <1>10, <2>1, <3>1, <3>3, Zenon
    <3>4. CASE n # 1 /\ m # 1
      <4>1. l[n] = cbList[n - 1] /\ l[m] = cbList[m - 1]
        BY <1>9, <3>1, <3>4, Zenon
      <4>2. n - 1 = m - 1
        BY <1>0, <2>1, <3>1, <3>4, <4>1, Zenon DEF ListExact
      <4>. QED
        BY <3>1, <4>2, SMT
    <3>. QED
      BY <3>2, <3>3, <3>4
  <2>2. ASSUME NEW u \in Selectors
        PROVE  sel'[u].pc \in {"mark", "scan2", "wait", "unmark"} <=> \E n \in 1..Len(l) : l[n] = u
    <3>1. CASE u = t
      <4>1. 1 \in 1..Len(l)
        BY <1>9, SMT
      <4>. QED
        BY <1>2, <1>6, <1>9, <3>1, <4>1, Zenon
    <3>2. CASE u # t
      <4>1. sel'[u] = sel[u]
        BY <1>0, <1>1, <3>2, Zenon DEF SocketTypes
      <4>2. sel[u].pc \in {"mark", "scan2", "wait", "unmark"} <=> \E n \in 1..Len(cbList) : cbList[n] = u
        BY <1>0, Zenon DEF ListExact
      <4>3. \A n \in 1..Len(l) : n = 1 \/ (n - 1 \in 1..Len(cbList) /\ n = (n - 1) + 1)
        BY <1>9, SMT
      <4>4. \A n \in 1..Len(cbList) : n + 1 \in 1..Len(l)
        BY <1>9, SMT
      <4>5. (\E n \in 1..Len(l) : l[n] = u) => \E n \in 1..Len(cbList) : cbList[n] = u
        <5>1. ASSUME NEW n \in 1..Len(l), l[n] = u PROVE \E k \in 1..Len(cbList) : cbList[k] = u
          <6>1. n # 1
            BY <1>9, <3>2, <5>1, Zenon
          <6>2. n - 1 \in 1..Len(cbList) /\ n = (n - 1) + 1
            BY <4>3, <6>1, Zenon
          <6>3. cbList[n - 1] = u
            BY <1>9, <5>1, <6>2, Zenon
          <6>. QED
            BY <6>2, <6>3, Zenon
        <5>. QED
          BY <5>1, Zenon
      <4>6. (\E n \in 1..Len(cbList) : cbList[n] = u) => \E n \in 1..Len(l) : l[n] = u
        BY <1>9, <4>4, Zenon
      <4>. QED
        BY <4>1, <4>2, <4>5, <4>6, Zenon
    <3>. QED
      BY <3>1, <3>2
  <2>. QED
    BY <1>3, <2>1, <2>2, Zenon DEF ListExact
<1>12. ListMoves(t)
  BY <1>1, <1>2, <1>3, <1>4, <1>6, <1>7, <1>8, <1>9, Zenon DEF ListMoves
<1>. QED
  BY <1>11, <1>12, ListMovesKeeps, Zenon

\* The entry leaves the list; what is still marked is gone.
LEMMA UnregisterKeeps ==
  ASSUME SocketsInv, NEW t \in Selectors, Unregister(t)
  PROVE  SocketsInv'
<1>0. SocketTypes /\ Marks /\ ListExact /\ sel[t] \in SelRecord
  BY SocketsInvParts, SocketFields, Zenon
<1>. DEFINE r == sel[t]
            z == [NoSelect EXCEPT !.pc = "scan3"]
            q == IF r.nready <= 0 THEN NoSelect ELSE z
<1>1. r.pc = "unmark" /\ r.at = r.end /\ sel' = [sel EXCEPT ![t] = q] /\ UNCHANGED <<sock, nconn, owner>>
  BY Zenon DEF Unregister, Sets
<1>2. PICK n \in 1..Len(cbList) : cbList[n] = t /\ ListChanges(RemoveAt(cbList, n))
  BY Zenon DEF Unregister
<1>. DEFINE l == RemoveAt(cbList, n)
<1>3. sel'[t] = q
  BY <1>0, <1>1, Zenon DEF SocketTypes
<1>4. cbList' = l /\ ListChanges(cbList')
  BY <1>2, Zenon DEF ListChanges
<1>5. q \in SelRecord /\ q.marked = {} /\ q.pc \in {"idle", "scan3"}
  <2>1. z.pc = "scan3" /\ z.marked = {}
    BY SMT DEF NoSelect
  <2>2. "scan3" \in SelPcs
    BY DEF SelPcs
  <2>3. z \in SelRecord
    BY <2>2, EmptyRecords, SelUpdates, Zenon
  <2>. HIDE DEF z
  <2>. QED
    BY <2>1, <2>3, EmptyRecords, Zenon
<1>. HIDE DEF q, z
<1>6. MarksOf(sel[t])'
  <2>1. q.pc \notin {"mark", "scan2", "wait", "unmark", "scan1", "register"}
    BY <1>5, Zenon
  <2>. QED
    BY <1>3, <1>5, <2>1, Zenon DEF MarksOf
<1>7. \A s \in r.marked : sock[s].conn = 0
  BY <1>0, <1>1, Zenon DEF Marks, MarksOf
<1>8. cbList \in Seq(Selectors) /\ Distinct(cbList)
  BY <1>0, Zenon DEF SocketTypes, ListExact, Distinct
<1>9. /\ l \in Seq(Selectors) /\ Distinct(l) /\ Elements(l) = Elements(cbList) \ {t}
  BY <1>2, <1>8, RemovedAt, RemovedIsGone, Zenon
<1>. HIDE DEF l
<1>10. ListExact'
  <2>1. ASSUME NEW u \in Selectors
        PROVE  sel'[u].pc \in {"mark", "scan2", "wait", "unmark"} <=> \E k \in 1..Len(l) : l[k] = u
    <3>1. (\E k \in 1..Len(l) : l[k] = u) <=> (\E k \in 1..Len(cbList) : cbList[k] = u) /\ u # t
      <4>1. (\E k \in 1..Len(l) : l[k] = u) <=> u \in Elements(l)
        BY Zenon DEF Elements
      <4>2. (\E k \in 1..Len(cbList) : cbList[k] = u) <=> u \in Elements(cbList)
        BY Zenon DEF Elements
      <4>3. u \in Elements(l) <=> u \in Elements(cbList) /\ u # t
        BY <1>9, Zenon
      <4>. QED
        BY <4>1, <4>2, <4>3, Zenon
    <3>2. CASE u = t
      BY <1>3, <1>5, <3>1, <3>2, Zenon
    <3>3. CASE u # t
      <4>1. sel'[u] = sel[u]
        BY <1>0, <1>1, <3>3, Zenon DEF SocketTypes
      <4>. QED
        BY <1>0, <3>1, <3>3, <4>1, Zenon DEF ListExact
    <3>. QED
      BY <3>2, <3>3
  <2>2. \A k, m \in 1..Len(l) : l[k] = l[m] => k = m
    BY <1>9, Zenon DEF Distinct
  <2>. QED
    BY <1>4, <2>1, <2>2, Zenon DEF ListExact
<1>11. q.pc \notin {"scan1", "register", "mark"} /\ q.pc \notin {"scan2", "wait"}
  BY <1>5, Zenon
<1>12. ListMoves(t)
  BY <1>1, <1>3, <1>4, <1>5, <1>6, <1>7, <1>9, <1>11, Zenon DEF ListMoves
<1>. QED
  BY <1>10, <1>12, ListMovesKeeps, Zenon


-----------------------------------------------------------------------------
(* event_callback.                                                         *)

\* The entry at n is looked at: its semaphore is signalled, or the loop has yet to come to it.
LEMMA VisitMoves ==
  ASSUME SocketTypes, NEW t \in Callers, NEW s \in Sk, NEW k, NEW n \in Nat, n >= 1,
         nconn[event[t].c].socket = s, nconn' = nconn, cbList' = cbList, Visit(t, k, s, n)
  PROVE  /\ SameSelects /\ sel' \in [Selectors -> SelRecord] /\ event' \in [Callers -> EventRecord]
         /\ \A u \in Callers : u # t => event'[u] = event[u]
         /\ \/ event'[t] = NoEvent
            \/ /\ event'[t].pc = "loop" /\ event'[t].c = event[t].c /\ event'[t].evt = event[t].evt
               /\ event'[t].cb = n /\ n <= Len(cbList)
         /\ \A v \in Selectors, m \in 1..Len(cbList) :
              cbList[m] = v /\ m >= n /\ Wakes(k, s, sel[v].set) => sel'[v].sem \/ ComesTo(t, v, s)'
<1>0. /\ event[t] \in EventRecord /\ event \in [Callers -> EventRecord] /\ sel \in [Selectors -> SelRecord]
      /\ cbList \in Seq(Selectors)
  BY SocketFields, Zenon DEF SocketTypes
<1>00. Len(cbList) \in Nat
  BY <1>0
<1>1. CASE n > Len(cbList)
  <2>1. event' = [event EXCEPT ![t] = NoEvent] /\ sel' = sel
    BY <1>1, Zenon DEF Visit
  <2>2. event' \in [Callers -> EventRecord] /\ event'[t] = NoEvent /\ \A u \in Callers : u # t => event'[u] = event[u]
    BY <1>0, <2>1, EmptyRecords, Zenon
  <2>3. SameSelects
    BY <2>1, Zenon DEF SameSelects
  <2>4. \A m \in 1..Len(cbList) : ~(m >= n)
    BY <1>00, <1>1, SMT
  <2>. QED
    BY <1>0, <2>1, <2>2, <2>3, <2>4, Zenon
<1>2. CASE ~(n > Len(cbList))
  <2>. DEFINE w == cbList[n]
              b == sel[w].sem \/ Wakes(k, s, sel[w].set)
              r == [sel[w] EXCEPT !.sem = b]
              e == [event[t] EXCEPT !.pc = "loop", !.cb = n, !.stale = FALSE]
  <2>1. event' = [event EXCEPT ![t] = e] /\ sel' = [sel EXCEPT ![w] = r]
    BY <1>2, Zenon DEF Visit
  <2>2. n \in 1..Len(cbList) /\ n <= Len(cbList)
    BY <1>00, <1>2, SMT
  <2>3. w \in Selectors
    BY <1>0, <2>2, ElementOfSeq, Zenon
  <2>4. e \in EventRecord
    <3>1. "loop" \in {"idle", "update", "loop"} /\ n \in Int /\ FALSE \in BOOLEAN
      BY SMT
    <3>2. [event[t] EXCEPT !.pc = "loop"] \in EventRecord
      BY <1>0, <3>1, EventUpdates, Zenon
    <3>3. [event[t] EXCEPT !.pc = "loop", !.cb = n] \in EventRecord
      BY <3>1, <3>2, EventUpdates, Zenon
    <3>. QED
      BY <3>1, <3>3, EventUpdates, Zenon
  <2>5. e.pc = "loop" /\ e.c = event[t].c /\ e.evt = event[t].evt /\ e.cb = n /\ ~e.stale
    BY <1>0, Zenon DEF EventRecord
  <2>6. b \in BOOLEAN /\ sel[w] \in SelRecord
    BY <1>0, <2>3, Zenon
  <2>. HIDE DEF b
  <2>7. r \in SelRecord
    BY <2>6, SelUpdates, Zenon
  <2>8. /\ r.pc = sel[w].pc /\ r.set = sel[w].set /\ r.at = sel[w].at /\ r.end = sel[w].end
        /\ r.nready = sel[w].nready /\ r.marked = sel[w].marked /\ r.sem = b
    BY <2>6, Zenon DEF SelRecord
  <2>. HIDE DEF r, e, w
  <2>9. /\ event' \in [Callers -> EventRecord] /\ event'[t] = e /\ \A u \in Callers : u # t => event'[u] = event[u]
        /\ sel' \in [Selectors -> SelRecord] /\ sel'[w] = r /\ \A v \in Selectors : v # w => sel'[v] = sel[v]
    BY <1>0, <2>1, <2>3, <2>4, <2>7, Zenon
  <2>10. SameSelects
    <3>1. ASSUME NEW v \in Selectors
          PROVE  /\ sel'[v].pc = sel[v].pc /\ sel'[v].set = sel[v].set /\ sel'[v].at = sel[v].at
                 /\ sel'[v].end = sel[v].end /\ sel'[v].nready = sel[v].nready /\ sel'[v].marked = sel[v].marked
                 /\ sel[v].sem => sel'[v].sem
      <4>1. CASE v = w
        BY <2>8, <2>9, <4>1, Zenon DEF b
      <4>2. CASE v # w
        BY <2>9, <4>2, Zenon
      <4>. QED
        BY <4>1, <4>2
    <3>. QED
      BY <3>1, Zenon DEF SameSelects
  <2>11. ASSUME NEW v \in Selectors, NEW m \in 1..Len(cbList), cbList[m] = v, m >= n, Wakes(k, s, sel[v].set)
         PROVE  sel'[v].sem \/ ComesTo(t, v, s)'
    <3>1. CASE m = n
      BY <2>8, <2>9, <2>11, <3>1, Zenon DEF b, w
    <3>2. CASE m # n
      <4>1. m > event'[t].cb
        BY <2>5, <2>9, <2>11, <3>2, SMT
      <4>2. event'[t].pc = "loop" /\ nconn'[event'[t].c].socket = s
        BY <2>5, <2>9, Zenon
      <4>. QED
        BY <2>11, <4>1, <4>2, Zenon DEF ComesTo
    <3>. QED
      BY <3>1, <3>2
  <2>. QED
    BY <2>2, <2>5, <2>9, <2>10, <2>11, Zenon
<1>. QED
  BY <1>1, <1>2

\* A step of a callback at its socket, which goes to an entry of the list or ends.
EventMoves(t) ==
  /\ event[t].pc # "idle" /\ nconn[event[t].c].socket > 0
  /\ SameSelects /\ sel' \in [Selectors -> SelRecord] /\ event' \in [Callers -> EventRecord]
  /\ nconn' = nconn /\ owner' = owner /\ cbList' = cbList
  /\ sock' \in [Sk -> SockRecord]
  /\ \A s \in Sk : sock'[s].conn = sock[s].conn /\ sock'[s].select_waiting = sock[s].select_waiting
  /\ \A u \in Callers : u # t => event'[u] = event[u]
  /\ \/ event'[t] = NoEvent
     \/ /\ event'[t].pc = "loop" /\ event'[t].c = event[t].c /\ event'[t].evt = event[t].evt
        /\ event'[t].cb >= 1 /\ event'[t].cb <= Len(cbList)

LEMMA EventMovesKeeps ==
  ASSUME SocketsInv, NEW t \in Callers, EventMoves(t), OwnerBound', CountsExact', Wakeups'
  PROVE  SocketsInv'
<1>0. /\ SocketTypes /\ ConnsBound /\ SocketsBound /\ OwnerBound /\ EventsBound /\ CountsExact
      /\ Marks /\ Waits /\ ListExact /\ Wakeups
  BY SocketsInvParts, Zenon
<1>1. /\ nconn' = nconn /\ owner' = owner /\ cbList' = cbList
      /\ \A s \in Sk : sock'[s].conn = sock[s].conn /\ sock'[s].select_waiting = sock[s].select_waiting
      /\ SameSelects
  BY Zenon DEF EventMoves
<1>2. SocketTypes'
  BY <1>0, <1>1, Zenon DEF SocketTypes, EventMoves
<1>3. ConnsBound'
  <2>1. ASSUME NEW c \in NConns, nconn[c].socket > 0 PROVE nconn[c].socket \in Sk
    <3>1. nconn[c].socket \in Int /\ nconn[c].socket <= NUM_SOCKETS
      BY <1>0, <2>1, SocketFields, Zenon DEF ConnsBound
    <3>. QED
      BY <2>1, <3>1, SMT DEF Sk
  <2>. QED
    BY <1>0, <1>1, <2>1, Zenon DEF ConnsBound
<1>4. SocketsBound'
  <2>1. ASSUME NEW s \in Sk, sock'[s].conn # 0
        PROVE  \/ nconn'[sock'[s].conn].socket = s
               \/ owner'.s = s /\ owner'.pc = "adopt" /\ owner'.c = sock'[s].conn
               \/ owner'.s = s /\ owner'.pc = "free"
    <3>1. sock'[s].conn = sock[s].conn
      BY <1>1, <2>1, Zenon
    <3>. QED
      BY <1>0, <1>1, <2>1, <3>1, Zenon DEF SocketsBound
  <2>. QED
    BY <2>1, Zenon DEF SocketsBound
<1>5. EventsBound'
  <2>1. ASSUME NEW u \in Callers, event'[u].pc # "idle"
        PROVE  /\ event'[u].c \in NConns /\ nconn'[event'[u].c].live
               /\ u = Owner => event'[u].evt = "RCVMINUS" /\ nconn'[event'[u].c].socket > 0
               /\ u = "tcpip" => event'[u].evt \in {"RCVPLUS", "SENDPLUS", "SENDMINUS"}
               /\ event'[u].pc = "loop" =>
                    /\ nconn'[event'[u].c].socket > 0 /\ event'[u].cb >= 1
                    /\ event'[u].stale \/ event'[u].cb <= Len(cbList')
    <3>1. CASE u # t
      <4>1. event'[u] = event[u]
        BY <3>1, Zenon DEF EventMoves
      <4>. QED
        BY <1>0, <1>1, <2>1, <4>1, Zenon DEF EventsBound
    <3>2. CASE u = t
      <4>1. event'[t] # NoEvent
        BY <2>1, <3>2, EmptyRecords, Zenon
      <4>2. /\ event'[t].pc = "loop" /\ event'[t].c = event[t].c /\ event'[t].evt = event[t].evt
            /\ event'[t].cb >= 1 /\ event'[t].cb <= Len(cbList) /\ event[t].pc # "idle"
            /\ nconn[event[t].c].socket > 0
        BY <4>1, Zenon DEF EventMoves
      <4>. QED
        BY <1>0, <1>1, <3>2, <4>2, Zenon DEF EventsBound
    <3>. QED
      BY <3>1, <3>2
  <2>. QED
    BY <2>1, Zenon DEF EventsBound
<1>6. Marks'
  <2>1. GoneStay
    BY <1>1, Zenon DEF GoneStay
  <2>2. KnownStay
    BY <1>1, Zenon DEF KnownStay, Known
  <2>. QED
    BY <1>0, <1>1, <2>1, <2>2, MarksKept, Zenon
<1>7. Waits'
  <2>1. WaitsStay
    BY <1>1, Zenon DEF WaitsStay
  <2>. QED
    BY <1>0, <1>1, <2>1, WaitsKept, Zenon
<1>8. ListExact'
  BY <1>0, <1>1, ListKept, Zenon
<1>. QED
  BY <1>2, <1>3, <1>4, <1>5, <1>6, <1>7, <1>8, SocketsInvParts, Zenon DEF SocketsInv


\* A select that relies on a socket has marked it and is in the list.
LEMMA ReliesStay ==
  ASSUME Marks, ListExact, SameSelects, NEW v \in Selectors, NEW x \in Sk, Relies(v, x)',
         Wakes(sock'[x], x, sel'[v].set)
  PROVE  /\ Relies(v, x) /\ x \in sel[v].marked /\ sel'[v].set = sel[v].set /\ (sel[v].sem => sel'[v].sem)
         /\ \E m \in 1..Len(cbList) : cbList[m] = v
<1>1. /\ sel'[v].pc = sel[v].pc /\ sel'[v].set = sel[v].set /\ sel'[v].at = sel[v].at
      /\ sel'[v].nready = sel[v].nready /\ (sel[v].sem => sel'[v].sem)
  BY Zenon DEF SameSelects
<1>2. Relies(v, x)
  BY <1>1, Zenon DEF Relies
<1>3. Asked(sel[v].set, x)
  BY <1>1, Zenon DEF Wakes, Asked
<1>4. sel[v].pc \in {"scan2", "wait"}
  BY <1>2, Zenon DEF Relies
<1>5. x \in sel[v].marked
  BY <1>3, <1>4, Zenon DEF Marks, MarksOf
<1>6. \E m \in 1..Len(cbList) : cbList[m] = v
  BY <1>4, Zenon DEF ListExact
<1>. QED
  BY <1>1, <1>2, <1>5, <1>6, Zenon

\* The socket of a callback that is past its update, or about to update a socket.
LEMMA EventSocket ==
  ASSUME SocketTypes, ConnsBound, EventsBound, NEW t \in Callers, event[t].pc # "idle",
         nconn[event[t].c].socket > 0
  PROVE  /\ event[t].c \in NConns /\ nconn[event[t].c].live /\ nconn[event[t].c].socket \in Sk
         /\ sock[nconn[event[t].c].socket].conn = event[t].c /\ event[t].c # 0
<1>1. event[t].c \in NConns /\ nconn[event[t].c].live
  BY Zenon DEF EventsBound
<1>2. /\ nconn[event[t].c].socket \in Int /\ nconn[event[t].c].socket <= NUM_SOCKETS
      /\ sock[nconn[event[t].c].socket].conn = event[t].c
  BY <1>1, SocketFields, Zenon DEF ConnsBound
<1>3. nconn[event[t].c].socket \in Sk
  BY <1>2, SMT DEF Sk
<1>4. event[t].c # 0
  BY <1>1, SocketConstants, Zenon
<1>. QED
  BY <1>1, <1>2, <1>3, <1>4, Zenon

\* One more entry of the list, from the beginning when it was changed.
LEMMA EventLoopKeeps ==
  ASSUME SocketsInv, NEW t \in Callers, EventLoop(t)
  PROVE  SocketsInv'
<1>0. /\ SocketTypes /\ ConnsBound /\ SocketsBound /\ OwnerBound /\ EventsBound /\ CountsExact
      /\ Marks /\ Waits /\ ListExact /\ Wakeups
  BY SocketsInvParts, Zenon
<1>1. /\ event[t].pc = "loop" /\ sock' = sock /\ nconn' = nconn /\ owner' = owner /\ cbList' = cbList
      /\ event[t].pc # "idle"
  BY Zenon DEF EventLoop
<1>2. /\ nconn[event[t].c].socket > 0 /\ event[t].cb >= 1 /\ event[t].cb \in Int
  BY <1>0, <1>1, SocketFields, Zenon DEF EventsBound
<1>3. PICK s \in Sk : nconn[event[t].c].socket = s
  BY <1>0, <1>1, <1>2, EventSocket, Zenon
<1>4. PICK n \in Nat : n = NextEntry(t)
  BY <1>2, SMT DEF NextEntry
<1>5. n >= 1 /\ (event[t].stale => n = 1) /\ (~event[t].stale => n = event[t].cb + 1)
  BY <1>2, <1>4, SMT DEF NextEntry
<1>6. Visit(t, sock[s], s, n)
  BY <1>3, <1>4, Zenon DEF EventLoop
<1>7. /\ SameSelects /\ sel' \in [Selectors -> SelRecord] /\ event' \in [Callers -> EventRecord]
      /\ \A u \in Callers : u # t => event'[u] = event[u]
      /\ \/ event'[t] = NoEvent
         \/ /\ event'[t].pc = "loop" /\ event'[t].c = event[t].c /\ event'[t].evt = event[t].evt
            /\ event'[t].cb = n /\ n <= Len(cbList)
      /\ \A v \in Selectors, m \in 1..Len(cbList) :
           cbList[m] = v /\ m >= n /\ Wakes(sock[s], s, sel[v].set) => sel'[v].sem \/ ComesTo(t, v, s)'
  BY <1>0, <1>1, <1>3, <1>5, <1>6, VisitMoves, Zenon
<1>8. EventMoves(t)
  BY <1>0, <1>1, <1>2, <1>5, <1>7, Zenon DEF EventMoves, SocketTypes
<1>9. OwnerBound' /\ CountsExact'
  <2>1. event'[t].pc # "update"
    BY <1>7, EmptyRecords, Zenon
  <2>2. owner.pc = "adopt" => \A u \in Selectors : owner.s \notin sel'[u].marked
    BY <1>0, <1>7, Zenon DEF OwnerBound, SameSelects
  <2>3. \A u \in Callers :
          /\ event'[u].pc = "update" <=> event[u].pc = "update"
          /\ event[u].pc = "update" => event'[u].c = event[u].c /\ event'[u].evt = event[u].evt
    BY <1>1, <1>7, <2>1, Zenon
  <2>4. ConnsStay
    BY <1>1, <2>2, <2>3, Zenon DEF ConnsStay
  <2>. QED
    BY <1>0, <2>4, ConnsKept, Zenon
<1>10. Wakeups'
  <2>1. ASSUME NEW v \in Selectors, NEW x \in Sk, Relies(v, x)', sock'[x].conn # 0,
               Wakes(sock'[x], x, sel'[v].set)
        PROVE  sel'[v].sem \/ \E u \in Callers : ComesTo(u, v, x)'
    <3>1. /\ Relies(v, x) /\ sel'[v].set = sel[v].set /\ (sel[v].sem => sel'[v].sem)
          /\ \E m \in 1..Len(cbList) : cbList[m] = v
      BY <1>0, <1>7, <2>1, ReliesStay, Zenon
    <3>2. Wakes(sock[x], x, sel[v].set) /\ sock[x].conn # 0
      BY <1>1, <2>1, <3>1, Zenon
    <3>3. sel[v].sem \/ \E u \in Callers : ComesTo(u, v, x)
      BY <1>0, <3>1, <3>2, Zenon DEF Wakeups
    <3>4. ASSUME NEW u \in Callers, u # t, ComesTo(u, v, x)
          PROVE  ComesTo(u, v, x)'
      <4>1. event'[u] = event[u]
        BY <1>7, <3>4, Zenon
      <4>. QED
        BY <1>1, <3>4, <4>1, Zenon DEF ComesTo
    <3>5. ASSUME ComesTo(t, v, x)
          PROVE  sel'[v].sem \/ ComesTo(t, v, x)'
      <4>1. x = s
        BY <1>3, <3>5, Zenon DEF ComesTo
      <4>2. \E m \in 1..Len(cbList) : cbList[m] = v /\ m >= n
        <5>1. CASE event[t].stale
          <6>1. \A m \in 1..Len(cbList) : m >= n
            BY <1>5, <5>1, SMT
          <6>. QED
            BY <3>1, <6>1, Zenon
        <5>2. CASE ~event[t].stale
          <6>1. \A m \in 1..Len(cbList) : m > event[t].cb => m >= n
            BY <1>2, <1>5, <5>2, SMT
          <6>. QED
            BY <3>5, <5>2, <6>1, Zenon DEF ComesTo
        <5>. QED
          BY <5>1, <5>2
      <4>. QED
        BY <1>7, <3>2, <4>1, <4>2, Zenon
    <3>. QED
      BY <3>1, <3>3, <3>4, <3>5, Zenon
  <2>. QED
    BY <2>1, Zenon DEF Wakeups
<1>. QED
  BY <1>8, <1>9, <1>10, EventMovesKeeps, Zenon

\* What a callback counts in the socket.
LEMMA UpdatedCounts ==
  ASSUME NEW k \in SockRecord, NEW evt \in EventKinds, evt # "none"
  PROVE  /\ Updated(k, evt) \in SockRecord /\ Updated(k, evt).conn = k.conn
         /\ Updated(k, evt).select_waiting = k.select_waiting
         /\ evt = "RCVPLUS" => Updated(k, evt).rcvevent = k.rcvevent + 1
         /\ evt = "RCVMINUS" => Updated(k, evt).rcvevent = k.rcvevent - 1
         /\ evt \in {"SENDPLUS", "SENDMINUS"} => Updated(k, evt).rcvevent = k.rcvevent
<1>1. k.rcvevent \in Int /\ k.rcvevent + 1 \in Int /\ k.rcvevent - 1 \in Int
  BY SMT DEF SockRecord
<1>2. CASE evt = "RCVPLUS"
  <2>. DEFINE i == k.rcvevent + 1
  <2>1. Updated(k, evt) = [k EXCEPT !.rcvevent = i]
    BY <1>2, Zenon DEF Updated
  <2>2. i \in Int
    BY <1>1
  <2>. HIDE DEF i
  <2>3. [k EXCEPT !.rcvevent = i] \in SockRecord
    BY <2>2, SockUpdates, Zenon
  <2>4. /\ [k EXCEPT !.rcvevent = i].conn = k.conn /\ [k EXCEPT !.rcvevent = i].select_waiting = k.select_waiting
        /\ [k EXCEPT !.rcvevent = i].rcvevent = i
    BY Zenon DEF SockRecord
  <2>. QED
    BY <1>2, <2>1, <2>3, <2>4, Zenon DEF i
<1>3. CASE evt = "RCVMINUS"
  <2>. DEFINE i == k.rcvevent - 1
  <2>1. Updated(k, evt) = [k EXCEPT !.rcvevent = i]
    BY <1>3, Zenon DEF Updated
  <2>2. i \in Int
    BY <1>1
  <2>. HIDE DEF i
  <2>3. [k EXCEPT !.rcvevent = i] \in SockRecord
    BY <2>2, SockUpdates, Zenon
  <2>4. /\ [k EXCEPT !.rcvevent = i].conn = k.conn /\ [k EXCEPT !.rcvevent = i].select_waiting = k.select_waiting
        /\ [k EXCEPT !.rcvevent = i].rcvevent = i
    BY Zenon DEF SockRecord
  <2>. QED
    BY <1>3, <2>1, <2>3, <2>4, Zenon DEF i
<1>4. ASSUME NEW b \in BOOLEAN, evt \in {"SENDPLUS", "SENDMINUS"}, Updated(k, evt) = [k EXCEPT !.sendevent = b]
      PROVE  /\ Updated(k, evt) \in SockRecord /\ Updated(k, evt).conn = k.conn
             /\ Updated(k, evt).select_waiting = k.select_waiting /\ Updated(k, evt).rcvevent = k.rcvevent
  <2>1. [k EXCEPT !.sendevent = b] \in SockRecord
    BY SockUpdates, Zenon
  <2>2. /\ [k EXCEPT !.sendevent = b].conn = k.conn /\ [k EXCEPT !.sendevent = b].select_waiting = k.select_waiting
        /\ [k EXCEPT !.sendevent = b].rcvevent = k.rcvevent
    BY Zenon DEF SockRecord
  <2>. QED
    BY <1>4, <2>1, <2>2, Zenon
<1>5. CASE evt = "SENDPLUS"
  <2>1. Updated(k, evt) = [k EXCEPT !.sendevent = TRUE]
    BY <1>5, Zenon DEF Updated
  <2>. QED
    BY <1>4, <1>5, <2>1, Zenon
<1>6. CASE evt = "SENDMINUS"
  <2>1. Updated(k, evt) = [k EXCEPT !.sendevent = FALSE]
    BY <1>6, Zenon DEF Updated
  <2>. QED
    BY <1>4, <1>6, <2>1, Zenon
<1>. QED
  BY <1>2, <1>3, <1>5, <1>6, Zenon DEF EventKinds


\* What is still to be counted when a callback has counted.
LEMMA CallbackCounted ==
  ASSUME SocketTypes, EventsBound, NEW t \in Callers, event[t].pc = "update", event'[t].pc # "update",
         \A u \in Callers : u # t => event'[u] = event[u], NEW c \in NConns
  PROVE  /\ Plus(c)' \in {0, 1} /\ Minus(c)' \in {0, 1}
         /\ c # event[t].c => Plus(c)' = Plus(c) /\ Minus(c)' = Minus(c)
         /\ c = event[t].c /\ event[t].evt = "RCVPLUS" => Plus(c)' = 0 /\ Plus(c) = 1 /\ Minus(c)' = Minus(c)
         /\ c = event[t].c /\ event[t].evt = "RCVMINUS" => Plus(c)' = Plus(c) /\ Minus(c) = 1 /\ Minus(c)' = 0
         /\ c = event[t].c /\ event[t].evt \in {"SENDPLUS", "SENDMINUS"} => Plus(c)' = Plus(c) /\ Minus(c)' = Minus(c)
         /\ event[t].evt \in EventKinds /\ event[t].evt # "none"
<1>1. Owner \in Callers /\ "tcpip" \in Callers /\ Owner # "tcpip" /\ (t = Owner \/ t = "tcpip")
  BY SocketConstants, Zenon
<1>2. Plus(c)' \in {0, 1} /\ Minus(c)' \in {0, 1}
  BY Zenon DEF Plus, Minus
<1>3. event[t].pc # "idle"
  OBVIOUS
<1>4. CASE t = Owner
  <2>1. event[t].evt = "RCVMINUS" /\ event'["tcpip"] = event["tcpip"]
    BY <1>1, <1>3, <1>4, Zenon DEF EventsBound
  <2>2. Plus(c)' = Plus(c)
    BY <2>1, Zenon DEF Plus
  <2>3. Minus(c)' = 0 /\ (c = event[t].c => Minus(c) = 1) /\ (c # event[t].c => Minus(c) = 0)
    BY <1>4, Zenon DEF Minus
  <2>. QED
    BY <1>2, <2>1, <2>2, <2>3, Zenon DEF EventKinds
<1>5. CASE t = "tcpip"
  <2>1. event[t].evt \in {"RCVPLUS", "SENDPLUS", "SENDMINUS"} /\ event'[Owner] = event[Owner]
    BY <1>1, <1>3, <1>5, Zenon DEF EventsBound
  <2>2. Minus(c)' = Minus(c)
    BY <2>1, Zenon DEF Minus
  <2>3. /\ Plus(c)' = 0
        /\ c = event[t].c /\ event[t].evt = "RCVPLUS" => Plus(c) = 1
        /\ c # event[t].c \/ event[t].evt # "RCVPLUS" => Plus(c) = 0
    BY <1>5, Zenon DEF Plus
  <2>. QED
    BY <1>2, <2>1, <2>2, <2>3, Zenon DEF EventKinds
<1>. QED
  BY <1>1, <1>4, <1>5

\* A callback that has a socket: it counts, and goes through the list if somebody has marked the socket.
LEMMA EventUpdateKeeps ==
  ASSUME SocketsInv, NEW t \in Callers, EventUpdate(t)
  PROVE  SocketsInv'
<1>0. /\ SocketTypes /\ ConnsBound /\ SocketsBound /\ OwnerBound /\ EventsBound /\ CountsExact
      /\ Marks /\ Waits /\ ListExact /\ Wakeups
  BY SocketsInvParts, Zenon
<1>1. /\ event[t].pc = "update" /\ nconn[event[t].c].socket > 0
      /\ nconn' = nconn /\ owner' = owner /\ cbList' = cbList /\ event[t].pc # "idle"
  BY Zenon DEF EventUpdate
<1>2. /\ event[t].c \in NConns /\ nconn[event[t].c].live /\ nconn[event[t].c].socket \in Sk
      /\ sock[nconn[event[t].c].socket].conn = event[t].c /\ event[t].c # 0
  BY <1>0, <1>1, EventSocket, Zenon
<1>3. PICK s \in Sk : nconn[event[t].c].socket = s
  BY <1>2, Zenon
<1>4. HasSocket(event[t].c)
  BY <1>1, <1>2, Zenon DEF HasSocket
<1>. DEFINE k == Updated(sock[s], event[t].evt)
<1>5. /\ sock' = [sock EXCEPT ![s] = k]
      /\ \/ k.select_waiting = 0 /\ event' = [event EXCEPT ![t] = NoEvent] /\ sel' = sel
         \/ k.select_waiting # 0 /\ Visit(t, k, s, 1)
  BY <1>3, <1>4, Zenon DEF EventUpdate
<1>6. event[t].evt \in EventKinds /\ event[t].evt # "none"
  <2>1. t = Owner \/ t = "tcpip"
    BY SocketConstants, Zenon
  <2>. QED
    BY <1>0, <1>1, <2>1, Zenon DEF EventsBound, EventKinds
<1>7. /\ k \in SockRecord /\ k.conn = sock[s].conn /\ k.select_waiting = sock[s].select_waiting
      /\ event[t].evt = "RCVPLUS" => k.rcvevent = sock[s].rcvevent + 1
      /\ event[t].evt = "RCVMINUS" => k.rcvevent = sock[s].rcvevent - 1
      /\ event[t].evt \in {"SENDPLUS", "SENDMINUS"} => k.rcvevent = sock[s].rcvevent
  <2>1. sock[s] \in SockRecord
    BY <1>0, SocketFields, Zenon
  <2>. QED
    BY <1>6, <2>1, UpdatedCounts, Zenon
<1>. HIDE DEF k
<1>8. /\ sock' \in [Sk -> SockRecord] /\ sock'[s] = k /\ \A x \in Sk : x # s => sock'[x] = sock[x]
  BY <1>0, <1>5, <1>7, Zenon DEF SocketTypes
<1>9. /\ SameSelects /\ sel' \in [Selectors -> SelRecord] /\ event' \in [Callers -> EventRecord]
      /\ \A u \in Callers : u # t => event'[u] = event[u]
      /\ \/ event'[t] = NoEvent
         \/ /\ event'[t].pc = "loop" /\ event'[t].c = event[t].c /\ event'[t].evt = event[t].evt
            /\ event'[t].cb = 1 /\ 1 <= Len(cbList)
      /\ k.select_waiting # 0 => \A v \in Selectors, m \in 1..Len(cbList) :
           cbList[m] = v /\ m >= 1 /\ Wakes(k, s, sel[v].set) => sel'[v].sem \/ ComesTo(t, v, s)'
  <2>1. CASE k.select_waiting = 0 /\ event' = [event EXCEPT ![t] = NoEvent] /\ sel' = sel
    <3>1. SameSelects
      BY <2>1, Zenon DEF SameSelects
    <3>2. sel' \in [Selectors -> SelRecord] /\ event' \in [Callers -> EventRecord] /\ event'[t] = NoEvent
      BY <1>0, <2>1, EmptyRecords, Zenon DEF SocketTypes
    <3>3. \A u \in Callers : u # t => event'[u] = event[u]
      BY <1>0, <2>1, Zenon DEF SocketTypes
    <3>. QED
      BY <2>1, <3>1, <3>2, <3>3, Zenon
  <2>2. CASE k.select_waiting # 0 /\ Visit(t, k, s, 1)
    <3>1. 1 \in Nat /\ 1 >= 1
      OBVIOUS
    <3>. QED
      BY <1>0, <1>1, <1>3, <2>2, <3>1, VisitMoves, Zenon
  <2>. QED
    BY <1>5, <2>1, <2>2, Zenon
<1>10. EventMoves(t)
  <2>1. 1 >= 1
    OBVIOUS
  <2>2. \A x \in Sk : sock'[x].conn = sock[x].conn /\ sock'[x].select_waiting = sock[x].select_waiting
    BY <1>7, <1>8, Zenon
  <2>. QED
    BY <1>1, <1>8, <1>9, <2>1, <2>2, Zenon DEF EventMoves
<1>11. OwnerBound'
  <2>1. owner.pc = "adopt" => owner.s # s
    <3>1. owner.pc = "adopt" => nconn[owner.c].socket < 0 /\ sock[owner.s].conn = owner.c
      BY <1>0, Zenon DEF OwnerBound
    <3>2. ~(nconn[event[t].c].socket < 0)
      BY <1>3, SMT DEF Sk
    <3>. QED
      BY <1>2, <1>3, <3>1, <3>2, Zenon
  <2>2. owner.pc = "adopt" => owner.s \in Sk /\ sock'[owner.s] = sock[owner.s]
    BY <1>0, <1>8, <2>1, Zenon DEF OwnerBound
  <2>3. \A u \in Selectors : sel'[u].marked = sel[u].marked
    BY <1>9, Zenon DEF SameSelects
  <2>4. owner.pc = "free" => owner.s \in Sk /\ sock'[owner.s].conn = sock[owner.s].conn
    BY <1>0, <1>7, <1>8, Zenon DEF OwnerBound
  <2>. QED
    BY <1>0, <1>1, <2>2, <2>3, <2>4, Zenon DEF OwnerBound
<1>12. CountsExact'
  <2>0. event'[t].pc # "update"
    BY <1>9, EmptyRecords, Zenon
  <2>1. ASSUME NEW c \in NConns, nconn'[c].live
        PROVE  Counted(c)' = nconn'[c].mbox - Plus(c)' + Minus(c)'
    <3>1. /\ c # event[t].c => Plus(c)' = Plus(c) /\ Minus(c)' = Minus(c)
          /\ c = event[t].c /\ event[t].evt = "RCVPLUS" => Plus(c)' = 0 /\ Plus(c) = 1 /\ Minus(c)' = Minus(c)
          /\ c = event[t].c /\ event[t].evt = "RCVMINUS" => Plus(c)' = Plus(c) /\ Minus(c) = 1 /\ Minus(c)' = 0
          /\ c = event[t].c /\ event[t].evt \in {"SENDPLUS", "SENDMINUS"} => Plus(c)' = Plus(c) /\ Minus(c)' = Minus(c)
      BY <1>0, <1>1, <1>9, <2>0, CallbackCounted, Zenon
    <3>2. Counted(c) = nconn[c].mbox - Plus(c) + Minus(c)
      BY <1>0, <1>1, <2>1, Zenon DEF CountsExact
    <3>3. CASE c # event[t].c
      <4>1. Counted(c)' = Counted(c)
        <5>1. CASE nconn[c].socket < 0
          BY <1>1, <5>1, Zenon DEF Counted
        <5>2. CASE ~(nconn[c].socket < 0)
          <6>1. nconn[c].socket > 0 /\ nconn[c].socket \in Sk
            <7>1. nconn[c].socket # 0 /\ nconn[c].socket \in Int /\ nconn[c].socket <= NUM_SOCKETS
              BY <1>0, SocketFields, Zenon DEF ConnsBound
            <7>. QED
              BY <5>2, <7>1, SMT DEF Sk
          <6>2. nconn[c].socket # s
            BY <1>0, <1>2, <1>3, <3>3, <6>1, Zenon DEF ConnsBound
          <6>. QED
            BY <1>1, <1>8, <5>2, <6>1, <6>2, Zenon DEF Counted
        <5>. QED
          BY <5>1, <5>2
      <4>. QED
        BY <1>1, <3>1, <3>2, <3>3, <4>1, Zenon
    <3>4. CASE c = event[t].c
      <4>1. ~(nconn[c].socket < 0) /\ nconn[c].socket = s
        BY <1>3, <3>4, SMT DEF Sk
      <4>2. Counted(c) = sock[s].rcvevent /\ Counted(c)' = k.rcvevent
        BY <1>1, <1>8, <4>1, Zenon DEF Counted
      <4>3. sock[s].rcvevent \in Int /\ nconn[c].mbox \in Nat /\ nconn'[c].mbox = nconn[c].mbox
        BY <1>0, <1>1, SocketFields, Zenon
      <4>4. Plus(c) \in {0, 1} /\ Minus(c) \in {0, 1}
        BY Zenon DEF Plus, Minus
      <4>5. event[t].evt \in {"RCVPLUS", "RCVMINUS", "SENDPLUS", "SENDMINUS"}
        BY <1>6, Zenon DEF EventKinds
      <4>. QED
        BY <1>7, <3>1, <3>2, <3>4, <4>2, <4>3, <4>4, <4>5, SMT
    <3>. QED
      BY <3>3, <3>4
  <2>2. ASSUME NEW x \in Sk PROVE sock'[x].rcvevent \in -1..(SockMboxSize + 1)
    <3>1. CASE x # s
      BY <1>0, <1>8, <3>1, Zenon DEF CountsExact
    <3>2. CASE x = s
      <4>. DEFINE c == event[t].c
      <4>1. c \in NConns /\ nconn'[c].live /\ ~(nconn'[c].socket < 0) /\ nconn'[c].socket = s
        BY <1>1, <1>2, <1>3, SMT DEF Sk
      <4>3. \E P, M \in {0, 1} : sock'[s].rcvevent = nconn'[c].mbox - P + M
        <5>1. PICK d \in NConns : d = c
          BY <4>1, Zenon
        <5>. HIDE DEF c
        <5>2. Counted(d)' = nconn'[d].mbox - Plus(d)' + Minus(d)'
          BY <2>1, <4>1, <5>1, Zenon
        <5>3. Plus(d)' \in {0, 1} /\ Minus(d)' \in {0, 1}
          BY Zenon DEF Plus, Minus
        <5>4. Counted(d)' = sock'[s].rcvevent
          BY <4>1, <5>1, Zenon DEF Counted
        <5>. QED
          BY <5>1, <5>2, <5>3, <5>4, Zenon
      <4>4. nconn'[c].mbox \in Nat /\ nconn'[c].mbox <= SockMboxSize /\ SockMboxSize \in Nat
        BY <1>0, <1>1, <1>2, SocketFields, SocketConstants, Zenon DEF ConnsBound
      <4>. HIDE DEF c
      <4>. QED
        BY <3>2, <4>3, <4>4, SMT
    <3>. QED
      BY <3>1, <3>2
  <2>. QED
    BY <2>1, <2>2, Zenon DEF CountsExact
<1>13. Wakeups'
  <2>1. ASSUME NEW v \in Selectors, NEW x \in Sk, Relies(v, x)', sock'[x].conn # 0,
               Wakes(sock'[x], x, sel'[v].set)
        PROVE  sel'[v].sem \/ \E u \in Callers : ComesTo(u, v, x)'
    <3>1. /\ Relies(v, x) /\ x \in sel[v].marked /\ sel'[v].set = sel[v].set /\ (sel[v].sem => sel'[v].sem)
          /\ \E m \in 1..Len(cbList) : cbList[m] = v
      BY <1>0, <1>9, <2>1, ReliesStay, Zenon
    <3>2. CASE x # s
      <4>1. Wakes(sock[x], x, sel[v].set) /\ sock[x].conn # 0
        BY <1>8, <2>1, <3>1, <3>2, Zenon
      <4>2. sel[v].sem \/ \E u \in Callers : ComesTo(u, v, x)
        BY <1>0, <3>1, <4>1, Zenon DEF Wakeups
      <4>3. ASSUME NEW u \in Callers, ComesTo(u, v, x)
            PROVE  ComesTo(u, v, x)'
        <5>1. u # t
          BY <1>1, <4>3, Zenon DEF ComesTo
        <5>2. event'[u] = event[u]
          BY <1>9, <5>1, Zenon
        <5>. QED
          BY <1>1, <4>3, <5>2, Zenon DEF ComesTo
      <4>. QED
        BY <3>1, <4>2, <4>3, Zenon
    <3>3. CASE x = s
      <4>1. k.select_waiting # 0
        <5>1. v \in Markers(s)
          BY <3>1, <3>3, Zenon DEF Markers
        <5>2. Markers(s) \subseteq Selectors /\ IsFiniteSet(Selectors)
          BY SocketConstants, Zenon DEF Markers
        <5>3. IsFiniteSet(Markers(s))
          BY <5>2, FS_Subset, Zenon
        <5>4. Cardinality(Markers(s)) # 0
          BY <5>1, <5>3, FS_EmptySet, Zenon
        <5>5. sock[s].conn # 0
          BY <1>2, <1>3, Zenon
        <5>6. sock[s].select_waiting = Cardinality(Markers(s))
          BY <1>0, <5>5, Zenon DEF Waits
        <5>. QED
          BY <1>7, <5>4, <5>6, Zenon
      <4>2. Wakes(k, s, sel[v].set)
        BY <1>8, <2>1, <3>1, <3>3, Zenon
      <4>3. \A m \in 1..Len(cbList) : m >= 1
        BY SMT
      <4>. QED
        BY <1>9, <3>1, <3>3, <4>1, <4>2, <4>3, Zenon
    <3>. QED
      BY <3>2, <3>3
  <2>. QED
    BY <2>1, Zenon DEF Wakeups
<1>. QED
  BY <1>10, <1>11, <1>12, <1>13, EventMovesKeeps, Zenon


\* A step that leaves the selects and the list alone.
LEMMA CallKeeps ==
  ASSUME SocketsInv, SocketTypes', ConnsBound', SocketsBound', OwnerBound', EventsBound', CountsExact', Waits',
         sel' = sel, MarkedStay, GoneStay, LoopsStay, KnownStay
  PROVE  SocketsInv'
<1>0. SocketTypes /\ Marks /\ ListExact /\ Wakeups
  BY SocketsInvParts, Zenon
<1>1. SameSelects
  BY Zenon DEF SameSelects
<1>2. cbList' = cbList
  BY Zenon DEF LoopsStay
<1>3. Marks'
  BY <1>0, <1>1, MarksKept, Zenon
<1>4. ListExact'
  BY <1>0, <1>1, <1>2, ListKept, Zenon
<1>5. Wakeups'
  BY <1>0, <1>1, WakeupsKept, Zenon
<1>. QED
  BY <1>3, <1>4, <1>5, SocketsInvParts, Zenon DEF SocketsInv

\* Only the connection's count below -1.
LEMMA EventBeforeKeeps ==
  ASSUME SocketsInv, NEW t \in Callers, EventBefore(t)
  PROVE  SocketsInv'
<1>0. /\ SocketTypes /\ ConnsBound /\ SocketsBound /\ OwnerBound /\ EventsBound /\ CountsExact
      /\ Marks /\ Waits /\ ListExact /\ Wakeups
  BY SocketsInvParts, Zenon
<1>. DEFINE c == event[t].c
            i == nconn[c].socket - 1
<1>1. /\ event[t].pc = "update" /\ nconn[c].socket < 0 /\ event[t].pc # "idle"
      /\ sock' = sock /\ sel' = sel /\ owner' = owner /\ cbList' = cbList
      /\ event' = [event EXCEPT ![t] = NoEvent]
      /\ nconn' = IF event[t].evt = "RCVPLUS" THEN [nconn EXCEPT ![c].socket = i] ELSE nconn
  BY Zenon DEF EventBefore
<1>2. c \in NConns /\ nconn[c].live
  BY <1>0, <1>1, Zenon DEF EventsBound
<1>3. nconn[c].socket \in Int /\ i \in Int /\ i < 0
  <2>1. nconn[c].socket \in Int
    BY <1>0, <1>2, SocketFields, Zenon
  <2>. QED
    BY <1>1, <2>1, SMT
<1>4. /\ event' \in [Callers -> EventRecord] /\ event'[t] = NoEvent /\ event'[t].pc = "idle"
      /\ \A u \in Callers : u # t => event'[u] = event[u]
  BY <1>0, <1>1, EmptyRecords, Zenon DEF SocketTypes
<1>. DEFINE n == [nconn[c] EXCEPT !.socket = i]
<1>5. n \in ConnRecord /\ n.socket = i /\ n.live = nconn[c].live /\ n.mbox = nconn[c].mbox
  <2>1. nconn[c] \in ConnRecord
    BY <1>0, <1>2, SocketFields, Zenon
  <2>. HIDE DEF i
  <2>2. n \in ConnRecord
    BY <1>3, <2>1, ConnUpdates, Zenon
  <2>3. n.socket = i /\ n.live = nconn[c].live /\ n.mbox = nconn[c].mbox
    BY <2>1, Zenon DEF ConnRecord
  <2>. QED
    BY <2>2, <2>3
<1>6. /\ nconn' \in [NConns -> ConnRecord] /\ \A x \in NConns : x # c => nconn'[x] = nconn[x]
      /\ event[t].evt = "RCVPLUS" => nconn'[c] = n
      /\ event[t].evt # "RCVPLUS" => nconn'[c] = nconn[c]
  <2>1. event[t].evt = "RCVPLUS" => nconn' = [nconn EXCEPT ![c] = n]
    BY <1>1, Zenon
  <2>. HIDE DEF n, c
  <2>. QED
    BY <1>0, <1>1, <1>2, <1>5, <2>1, Zenon DEF SocketTypes
<1>. HIDE DEF n, c, i
<1>7. \A x \in NConns : nconn'[x].live = nconn[x].live /\ nconn'[x].mbox = nconn[x].mbox
  BY <1>5, <1>6, Zenon
<1>8. nconn'[c].socket < 0 /\ nconn'[c].socket \in Int
  BY <1>1, <1>3, <1>5, <1>6, Zenon
<1>9. \A x \in NConns : nconn'[x].socket > 0 \/ nconn[x].socket > 0 => nconn'[x].socket = nconn[x].socket /\ x # c
  <2>1. ~(nconn[c].socket > 0) /\ ~(nconn'[c].socket > 0)
    BY <1>1, <1>3, <1>8, SMT
  <2>. QED
    BY <1>6, <2>1, Zenon
<1>10. SocketTypes'
  BY <1>0, <1>1, <1>4, <1>6, Zenon DEF SocketTypes
<1>11. ConnsBound'
  <2>1. c # 1
    <3>1. nconn[1].socket = 1 /\ ~(1 < 0)
      BY <1>0, SMT DEF ConnsBound
    <3>. QED
      BY <1>1, <3>1, Zenon
  <2>2. nconn'[1].live /\ nconn'[1].socket = 1
    <3>1. 1 \in NConns
      BY SocketConstants, Zenon
    <3>. QED
      BY <1>0, <1>6, <2>1, <3>1, Zenon DEF ConnsBound
  <2>3. ASSUME NEW x \in NConns
        PROVE  /\ ~nconn'[x].live => nconn'[x] = NoSockConn
               /\ nconn'[x].socket # 0 /\ nconn'[x].socket <= NUM_SOCKETS /\ nconn'[x].mbox <= SockMboxSize
               /\ nconn'[x].socket > 0 => sock'[nconn'[x].socket].conn = x
    <3>1. CASE x # c
      <4>1. nconn'[x] = nconn[x]
        BY <1>6, <3>1, Zenon
      <4>. QED
        BY <1>0, <1>1, <4>1, Zenon DEF ConnsBound
    <3>2. CASE x = c
      <4>1. nconn'[c].socket # 0 /\ nconn'[c].socket <= NUM_SOCKETS /\ ~(nconn'[c].socket > 0)
        <5>1. NUM_SOCKETS \in Nat
          BY SocketConstants, Zenon
        <5>. QED
          BY <1>8, <5>1, SMT
      <4>2. nconn'[c].live /\ nconn'[c].mbox <= SockMboxSize
        BY <1>0, <1>2, <1>7, Zenon DEF ConnsBound
      <4>. QED
        BY <3>2, <4>1, <4>2, Zenon
    <3>. QED
      BY <3>1, <3>2
  <2>. QED
    BY <2>2, <2>3, Zenon DEF ConnsBound
<1>12. \A s \in Sk : Known(s) => Known(s)'
  <2>1. ASSUME NEW s \in Sk, Known(s) PROVE Known(s)'
    <3>1. sock[s].conn # 0 /\ nconn[sock[s].conn].socket = s
      BY <2>1, Zenon DEF Known
    <3>2. sock[s].conn \in NConns
      BY <1>0, <3>1, SocketFields, Zenon
    <3>3. s > 0
      BY SMT DEF Sk
    <3>4. nconn'[sock[s].conn].socket = s
      BY <1>9, <3>1, <3>2, <3>3, Zenon
    <3>. QED
      BY <1>1, <3>1, <3>4, Zenon DEF Known
  <2>. QED
    BY <2>1, Zenon
<1>13. SocketsBound'
  <2>1. ASSUME NEW s \in Sk, sock'[s].conn # 0
        PROVE  \/ nconn'[sock'[s].conn].socket = s
               \/ owner'.s = s /\ owner'.pc = "adopt" /\ owner'.c = sock'[s].conn
               \/ owner'.s = s /\ owner'.pc = "free"
    <3>1. CASE nconn[sock[s].conn].socket = s
      <4>1. Known(s)'
        BY <1>1, <1>12, <2>1, <3>1, Zenon DEF Known
      <4>. QED
        BY <4>1, Zenon DEF Known
    <3>2. CASE nconn[sock[s].conn].socket # s
      BY <1>0, <1>1, <2>1, <3>2, Zenon DEF SocketsBound
    <3>. QED
      BY <3>1, <3>2
  <2>. QED
    BY <2>1, Zenon DEF SocketsBound
<1>14. OwnerBound'
  <2>1. owner.pc \in {"alloc", "adopt"} =>
          owner.c \in NConns \ {1} /\ nconn'[owner.c].live /\ nconn'[owner.c].socket < 0
    <3>1. owner.pc \in {"alloc", "adopt"} =>
            owner.c \in NConns \ {1} /\ nconn[owner.c].live /\ nconn[owner.c].socket < 0
      BY <1>0, Zenon DEF OwnerBound
    <3>. QED
      BY <1>6, <1>7, <1>8, <3>1, Zenon
  <2>2. owner.pc = "free" => owner.s \in Sk /\ sock[owner.s].conn # 0 /\ ~nconn'[sock[owner.s].conn].live
    <3>1. owner.pc = "free" => owner.s \in Sk /\ sock[owner.s].conn # 0 /\ ~nconn[sock[owner.s].conn].live
      BY <1>0, Zenon DEF OwnerBound
    <3>2. \A s \in Sk : sock[s].conn # 0 => sock[s].conn \in NConns
      BY <1>0, SocketFields, Zenon
    <3>. QED
      BY <1>7, <3>1, <3>2, Zenon
  <2>3. owner.pc = "adopt" =>
       /\ owner.s \in Sk /\ sock[owner.s].conn = owner.c /\ sock[owner.s].rcvevent = 0
       /\ \A u \in Selectors : owner.s \notin sel[u].marked
    BY <1>0, Zenon DEF OwnerBound
  <2>. QED
    BY <1>1, <2>1, <2>2, <2>3, Zenon DEF OwnerBound
<1>15. EventsBound'
  <2>1. ASSUME NEW u \in Callers, event'[u].pc # "idle"
        PROVE  /\ event'[u].c \in NConns /\ nconn'[event'[u].c].live
               /\ u = Owner => event'[u].evt = "RCVMINUS" /\ nconn'[event'[u].c].socket > 0
               /\ u = "tcpip" => event'[u].evt \in {"RCVPLUS", "SENDPLUS", "SENDMINUS"}
               /\ event'[u].pc = "loop" =>
                    /\ nconn'[event'[u].c].socket > 0 /\ event'[u].cb >= 1
                    /\ event'[u].stale \/ event'[u].cb <= Len(cbList')
    <3>1. event'[u] = event[u]
      BY <1>4, <2>1, Zenon
    <3>2. event[u].c \in NConns /\ nconn[event[u].c].live
      BY <1>0, <2>1, <3>1, Zenon DEF EventsBound
    <3>3. nconn'[event[u].c].live /\ (nconn[event[u].c].socket > 0 => nconn'[event[u].c].socket > 0)
      BY <1>7, <1>9, <3>2, Zenon
    <3>. QED
      BY <1>0, <1>1, <2>1, <3>1, <3>2, <3>3, Zenon DEF EventsBound
  <2>. QED
    BY <2>1, Zenon DEF EventsBound
<1>16. CountsExact'
  <2>0. event'[t].pc # "update"
    BY <1>4, Zenon
  <2>1. ASSUME NEW x \in NConns, nconn'[x].live
        PROVE  Counted(x)' = nconn'[x].mbox - Plus(x)' + Minus(x)'
    <3>1. /\ x # event[t].c => Plus(x)' = Plus(x) /\ Minus(x)' = Minus(x)
          /\ x = event[t].c /\ event[t].evt = "RCVPLUS" => Plus(x)' = 0 /\ Plus(x) = 1 /\ Minus(x)' = Minus(x)
          /\ x = event[t].c /\ event[t].evt \in {"SENDPLUS", "SENDMINUS"} => Plus(x)' = Plus(x) /\ Minus(x)' = Minus(x)
      BY <1>0, <1>1, <1>4, <2>0, CallbackCounted, Zenon
    <3>2. Counted(x) = nconn[x].mbox - Plus(x) + Minus(x)
      BY <1>0, <1>7, <2>1, Zenon DEF CountsExact
    <3>3. CASE x # c
      <4>1. nconn'[x] = nconn[x]
        BY <1>6, <3>3, Zenon
      <4>2. Counted(x)' = Counted(x)
        <5>1. sock' = sock
          BY <1>1, Zenon
        <5>. QED
          BY <4>1, <5>1, SMT DEF Counted
      <4>. QED
        BY <3>1, <3>2, <3>3, <4>1, <4>2, Zenon DEF c
    <3>4. CASE x = c
      <4>1. event[t].evt \in {"RCVPLUS", "SENDPLUS", "SENDMINUS"}
        <5>1. t # Owner
          <6>1. ~(nconn[c].socket > 0)
            BY <1>1, <1>3, SMT
          <6>. QED
            BY <1>0, <1>1, <6>1, Zenon DEF EventsBound, c
        <5>2. t = "tcpip"
          BY <5>1, SocketConstants, Zenon
        <5>. QED
          BY <1>0, <1>1, <5>2, Zenon DEF EventsBound
      <4>2. Counted(x) = -1 - nconn[c].socket /\ Counted(x)' = -1 - nconn'[c].socket
        <5>1. nconn[x].socket < 0 /\ nconn'[x].socket < 0
          BY <1>1, <1>8, <3>4, Zenon
        <5>2. Counted(x) = -1 - nconn[x].socket /\ Counted(x)' = -1 - nconn'[x].socket
          BY <5>1, Zenon DEF Counted
        <5>. QED
          BY <3>4, <5>2, Zenon
      <4>3. event[t].evt = "RCVPLUS" => nconn'[c].socket = nconn[c].socket - 1
        BY <1>5, <1>6, Zenon DEF i
      <4>4. event[t].evt # "RCVPLUS" => nconn'[c].socket = nconn[c].socket
        BY <1>6, Zenon
      <4>5. Plus(x) \in {0, 1} /\ Minus(x) \in {0, 1} /\ nconn[x].mbox \in Nat /\ nconn'[x].mbox = nconn[x].mbox
        <5>1. Plus(x) \in {0, 1} /\ Minus(x) \in {0, 1}
          BY Zenon DEF Plus, Minus
        <5>. QED
          BY <1>0, <1>7, <5>1, SocketFields, Zenon
      <4>6. x = event[t].c
        BY <3>4, Zenon DEF c
      <4>. QED
        BY <1>3, <3>1, <3>2, <4>1, <4>2, <4>3, <4>4, <4>5, <4>6, SMT
    <3>. QED
      BY <3>3, <3>4
  <2>2. \A s \in Sk : sock'[s].rcvevent \in -1..(SockMboxSize + 1)
    BY <1>0, <1>1, Zenon DEF CountsExact
  <2>. QED
    BY <2>1, <2>2, Zenon DEF CountsExact
<1>17. MarkedStay /\ GoneStay /\ KnownStay
  BY <1>1, <1>12, Zenon DEF MarkedStay, GoneStay, KnownStay
<1>18. LoopsStay
  <2>1. ASSUME NEW u \in Callers, event[u].pc = "loop"
        PROVE  event'[u] = event[u] /\ nconn'[event[u].c].socket = nconn[event[u].c].socket
    <3>1. u # t /\ event[u].pc # "idle"
      BY <1>1, <2>1, Zenon
    <3>2. event[u].c \in NConns /\ nconn[event[u].c].socket > 0
      BY <1>0, <2>1, <3>1, Zenon DEF EventsBound
    <3>. QED
      BY <1>4, <1>9, <3>1, <3>2, Zenon
  <2>. QED
    BY <1>1, <2>1, Zenon DEF LoopsStay
<1>19. Waits'
  <2>1. SameSelects /\ WaitsStay
    BY <1>1, Zenon DEF SameSelects, WaitsStay
  <2>. QED
    BY <1>0, <2>1, WaitsKept, Zenon
<1>. QED
  BY <1>1, <1>10, <1>11, <1>13, <1>14, <1>15, <1>16, <1>17, <1>18, <1>19, CallKeeps, Zenon


-----------------------------------------------------------------------------
(* What raises an event.                                                   *)

\* What an event says of the mailbox.
Posted(evt) == IF evt = "RCVPLUS" THEN 1 ELSE IF evt = "RCVMINUS" THEN -1 ELSE 0

\* A mailbox changes by what the event says, and the callback has yet to count it.
PostMoves(t, c, evt) ==
  /\ event[t].pc = "idle" /\ Raise(t, c, evt) /\ nconn[c].live
  /\ \/ t = Owner /\ evt = "RCVMINUS" /\ nconn[c].socket > 0
     \/ t = "tcpip" /\ evt \in {"RCVPLUS", "SENDPLUS", "SENDMINUS"}
  /\ sel' = sel /\ cbList' = cbList /\ (owner' = owner \/ (owner.pc = "idle" /\ owner' \in OwnerRecord))
  /\ sock' \in [Sk -> SockRecord] /\ nconn' \in [NConns -> ConnRecord]
  /\ \A s \in Sk : /\ sock'[s].conn = sock[s].conn /\ sock'[s].rcvevent = sock[s].rcvevent
                   /\ sock'[s].sendevent = sock[s].sendevent
                   /\ sock'[s].select_waiting = sock[s].select_waiting
  /\ \A x \in NConns : /\ nconn'[x].socket = nconn[x].socket /\ (nconn[x].live => nconn'[x].live)
                       /\ ~nconn'[x].live => nconn'[x] = nconn[x]
                       /\ nconn'[x].mbox = nconn[x].mbox + (IF x = c THEN Posted(evt) ELSE 0)
                       /\ nconn'[x].mbox <= SockMboxSize

LEMMA PostMovesKeeps ==
  ASSUME SocketsInv, NEW t \in Callers, NEW c \in NConns, NEW evt \in EventKinds, PostMoves(t, c, evt), OwnerBound'
  PROVE  SocketsInv'
<1>0. /\ SocketTypes /\ ConnsBound /\ SocketsBound /\ OwnerBound /\ EventsBound /\ CountsExact
      /\ Marks /\ Waits /\ ListExact /\ Wakeups
  BY SocketsInvParts, Zenon
<1>1. /\ sel' = sel /\ cbList' = cbList /\ event[t].pc = "idle" /\ nconn[c].live
      /\ \A s \in Sk : /\ sock'[s].conn = sock[s].conn /\ sock'[s].rcvevent = sock[s].rcvevent
                       /\ sock'[s].sendevent = sock[s].sendevent
                       /\ sock'[s].select_waiting = sock[s].select_waiting
      /\ \A x \in NConns : /\ nconn'[x].socket = nconn[x].socket /\ (nconn[x].live => nconn'[x].live)
                           /\ ~nconn'[x].live => nconn'[x] = nconn[x]
                           /\ nconn'[x].mbox = nconn[x].mbox + (IF x = c THEN Posted(evt) ELSE 0)
                           /\ nconn'[x].mbox <= SockMboxSize
  BY Zenon DEF PostMoves
<1>. DEFINE e == [NoEvent EXCEPT !.pc = "update", !.c = c, !.evt = evt]
<1>2. event' = [event EXCEPT ![t] = e]
  BY Zenon DEF PostMoves, Raise
<1>3. e \in EventRecord
  <2>1. "update" \in {"idle", "update", "loop"} /\ c \in Int
    BY SMT DEF NConns
  <2>2. [NoEvent EXCEPT !.pc = "update"] \in EventRecord
    BY <2>1, EmptyRecords, EventUpdates, Zenon
  <2>3. [NoEvent EXCEPT !.pc = "update", !.c = c] \in EventRecord
    BY <2>1, <2>2, EventUpdates, Zenon
  <2>. QED
    BY <2>3, EventUpdates, Zenon
<1>4. e.pc = "update" /\ e.c = c /\ e.evt = evt
  BY EmptyRecords, Zenon DEF EventRecord
<1>. HIDE DEF e
<1>5. /\ event' \in [Callers -> EventRecord] /\ event'[t] = e /\ \A u \in Callers : u # t => event'[u] = event[u]
  BY <1>0, <1>2, <1>3, Zenon DEF SocketTypes
<1>6. SocketTypes'
  BY <1>0, <1>1, <1>5, Zenon DEF SocketTypes, PostMoves
<1>7. \A x \in NConns : nconn[x].socket > 0 => nconn[x].socket \in Sk
  <2>1. ASSUME NEW x \in NConns, nconn[x].socket > 0 PROVE nconn[x].socket \in Sk
    <3>1. nconn[x].socket \in Int /\ nconn[x].socket <= NUM_SOCKETS
      BY <1>0, <2>1, SocketFields, Zenon DEF ConnsBound
    <3>. QED
      BY <2>1, <3>1, SMT DEF Sk
  <2>. QED
    BY <2>1
<1>8. ConnsBound'
  <2>1. nconn'[1].live /\ nconn'[1].socket = 1
    BY <1>0, <1>1, SocketConstants, Zenon DEF ConnsBound
  <2>2. ASSUME NEW x \in NConns
        PROVE  /\ ~nconn'[x].live => nconn'[x] = NoSockConn
               /\ nconn'[x].socket # 0 /\ nconn'[x].socket <= NUM_SOCKETS /\ nconn'[x].mbox <= SockMboxSize
               /\ nconn'[x].socket > 0 => sock'[nconn'[x].socket].conn = x
    <3>1. nconn'[x].socket > 0 => sock'[nconn'[x].socket].conn = x
      <4>1. nconn'[x].socket = nconn[x].socket
        BY <1>1, Zenon
      <4>2. nconn[x].socket > 0 => sock[nconn[x].socket].conn = x /\ nconn[x].socket \in Sk
        BY <1>0, <1>7, Zenon DEF ConnsBound
      <4>3. \A s \in Sk : sock'[s].conn = sock[s].conn
        BY <1>1, Zenon
      <4>. QED
        BY <4>1, <4>2, <4>3, Zenon
    <3>2. ~nconn'[x].live => nconn'[x] = NoSockConn
      BY <1>0, <1>1, Zenon DEF ConnsBound
    <3>. QED
      BY <1>0, <1>1, <3>1, <3>2, Zenon DEF ConnsBound
  <2>. QED
    BY <2>1, <2>2, Zenon DEF ConnsBound
<1>9. \A s \in Sk : Known(s) => Known(s)'
  <2>1. \A s \in Sk : sock[s].conn # 0 => sock[s].conn \in NConns
    BY <1>0, SocketFields, Zenon
  <2>. QED
    BY <1>1, <2>1, Zenon DEF Known
<1>10. SocketsBound'
  <2>1. ASSUME NEW s \in Sk, sock'[s].conn # 0
        PROVE  \/ nconn'[sock'[s].conn].socket = s
               \/ owner'.s = s /\ owner'.pc = "adopt" /\ owner'.c = sock'[s].conn
               \/ owner'.s = s /\ owner'.pc = "free"
    <3>0. sock'[s].conn = sock[s].conn /\ sock[s].conn # 0
      BY <1>1, <2>1, Zenon
    <3>1. CASE nconn[sock[s].conn].socket = s
      <4>1. Known(s)'
        BY <1>9, <3>0, <3>1, Zenon DEF Known
      <4>. QED
        BY <4>1, Zenon DEF Known
    <3>2. CASE nconn[sock[s].conn].socket # s
      <4>1. \/ owner.s = s /\ owner.pc = "adopt" /\ owner.c = sock[s].conn
            \/ owner.s = s /\ owner.pc = "free"
        BY <1>0, <3>0, <3>2, Zenon DEF SocketsBound
      <4>2. owner.pc # "idle"
        BY <4>1, Zenon
      <4>3. owner' = owner
        BY <4>2, Zenon DEF PostMoves
      <4>. QED
        BY <3>0, <4>1, <4>3, Zenon
    <3>. QED
      BY <3>1, <3>2
  <2>. QED
    BY <2>1, Zenon DEF SocketsBound
<1>11. EventsBound'
  <2>1. ASSUME NEW u \in Callers, event'[u].pc # "idle"
        PROVE  /\ event'[u].c \in NConns /\ nconn'[event'[u].c].live
               /\ u = Owner => event'[u].evt = "RCVMINUS" /\ nconn'[event'[u].c].socket > 0
               /\ u = "tcpip" => event'[u].evt \in {"RCVPLUS", "SENDPLUS", "SENDMINUS"}
               /\ event'[u].pc = "loop" =>
                    /\ nconn'[event'[u].c].socket > 0 /\ event'[u].cb >= 1
                    /\ event'[u].stale \/ event'[u].cb <= Len(cbList')
    <3>1. CASE u # t
      <4>1. event'[u] = event[u]
        BY <1>5, <3>1, Zenon
      <4>2. event[u].c \in NConns /\ nconn[event[u].c].live
        BY <1>0, <2>1, <4>1, Zenon DEF EventsBound
      <4>3. nconn'[event[u].c].live /\ nconn'[event[u].c].socket = nconn[event[u].c].socket
        BY <1>1, <4>2, Zenon
      <4>. QED
        BY <1>0, <1>1, <2>1, <4>1, <4>2, <4>3, Zenon DEF EventsBound
    <3>2. CASE u = t
      <4>1. event'[u].pc = "update" /\ event'[u].c = c /\ event'[u].evt = evt /\ "update" # "loop"
        BY <1>4, <1>5, <3>2, Zenon
      <4>2. nconn'[c].live /\ nconn'[c].socket = nconn[c].socket
        BY <1>1, Zenon
      <4>3. Owner # "tcpip"
        BY SocketConstants, Zenon
      <4>4. \/ t = Owner /\ evt = "RCVMINUS" /\ nconn[c].socket > 0
            \/ t = "tcpip" /\ evt \in {"RCVPLUS", "SENDPLUS", "SENDMINUS"}
        BY Zenon DEF PostMoves
      <4>. QED
        BY <3>2, <4>1, <4>2, <4>3, <4>4, Zenon
    <3>. QED
      BY <3>1, <3>2
  <2>. QED
    BY <2>1, Zenon DEF EventsBound
<1>12. CountsExact'
  <2>1. ASSUME NEW x \in NConns, nconn'[x].live
        PROVE  Counted(x)' = nconn'[x].mbox - Plus(x)' + Minus(x)'
    <3>0. /\ Owner \in Callers /\ "tcpip" \in Callers /\ Owner # "tcpip"
          /\ \/ t = Owner /\ evt = "RCVMINUS"
             \/ t = "tcpip" /\ evt \in {"RCVPLUS", "SENDPLUS", "SENDMINUS"}
      BY SocketConstants, Zenon DEF PostMoves
    <3>1. Counted(x)' = Counted(x)
      <4>0. nconn'[x].socket = nconn[x].socket
        BY <1>1, Zenon
      <4>1. CASE nconn[x].socket < 0
        BY <4>0, <4>1, Zenon DEF Counted
      <4>2. CASE ~(nconn[x].socket < 0)
        <5>1. nconn[x].socket \in Sk
          <6>1. nconn[x].socket # 0 /\ nconn[x].socket \in Int
            BY <1>0, SocketFields, Zenon DEF ConnsBound
          <6>2. nconn[x].socket > 0
            BY <4>2, <6>1, SMT
          <6>. QED
            BY <1>7, <6>2, Zenon
        <5>2. sock'[nconn[x].socket].rcvevent = sock[nconn[x].socket].rcvevent
          BY <1>1, <5>1, Zenon
        <5>. QED
          BY <4>0, <4>2, <5>2, Zenon DEF Counted
      <4>. QED
        BY <4>1, <4>2
    <3>2. ASSUME x = c PROVE Minus(x)' - Plus(x)' = Minus(x) - Plus(x) - Posted(evt)
      <4>1. CASE t = Owner /\ evt = "RCVMINUS"
        <5>1. event'["tcpip"] = event["tcpip"] /\ event'[Owner] = e /\ event[Owner].pc # "update"
          BY <1>1, <1>5, <3>0, <4>1, Zenon
        <5>2. Plus(x)' = Plus(x)
          BY <5>1, Zenon DEF Plus
        <5>3. Minus(x)' = 1 /\ Minus(x) = 0
          BY <1>4, <3>2, <5>1, Zenon DEF Minus
        <5>4. Posted(evt) = -1
          BY <4>1, SMT DEF Posted
        <5>5. Plus(x) \in {0, 1}
          BY Zenon DEF Plus
        <5>. QED
          BY <5>2, <5>3, <5>4, <5>5, SMT
      <4>2. CASE t = "tcpip" /\ evt \in {"RCVPLUS", "SENDPLUS", "SENDMINUS"}
        <5>1. event'[Owner] = event[Owner] /\ event'["tcpip"] = e /\ event["tcpip"].pc # "update"
          BY <1>1, <1>5, <3>0, <4>2, Zenon
        <5>2. Minus(x)' = Minus(x)
          BY <5>1, Zenon DEF Minus
        <5>3. Plus(x) = 0 /\ Plus(x)' = IF evt = "RCVPLUS" THEN 1 ELSE 0
          BY <1>4, <3>2, <5>1, Zenon DEF Plus
        <5>4. Posted(evt) = IF evt = "RCVPLUS" THEN 1 ELSE 0
          BY <4>2, Zenon DEF Posted
        <5>5. Minus(x) \in {0, 1}
          BY Zenon DEF Minus
        <5>. QED
          BY <5>2, <5>3, <5>4, <5>5, SMT
      <4>. QED
        BY <3>0, <4>1, <4>2
    <3>3. ASSUME x # c PROVE Plus(x)' = Plus(x) /\ Minus(x)' = Minus(x)
      <4>1. \A u \in Callers : event'[u] = event[u] \/ (event[u].pc # "update" /\ event'[u].c # x)
        BY <1>1, <1>4, <1>5, <3>3, Zenon
      <4>2. event'[Owner] = event[Owner] \/ (event[Owner].pc # "update" /\ event'[Owner].c # x)
        BY <3>0, <4>1, Zenon
      <4>3. event'["tcpip"] = event["tcpip"] \/ (event["tcpip"].pc # "update" /\ event'["tcpip"].c # x)
        BY <3>0, <4>1, Zenon
      <4>4. Minus(x)' = Minus(x)
        BY <4>2, Zenon DEF Minus
      <4>5. Plus(x)' = Plus(x)
        BY <4>3, Zenon DEF Plus
      <4>. QED
        BY <4>4, <4>5
    <3>4. Counted(x) = nconn[x].mbox - Plus(x) + Minus(x)
      <4>1. CASE nconn[x].live
        BY <1>0, <4>1, Zenon DEF CountsExact
      <4>2. CASE ~nconn[x].live
        <5>1. nconn[x] = NoSockConn
          BY <1>0, <4>2, Zenon DEF ConnsBound
        <5>2. nconn[x].socket = -1 /\ nconn[x].mbox = 0
          BY <5>1, EmptyRecords, Zenon
        <5>3. Counted(x) = 0
          BY <5>2, SMT DEF Counted
        <5>4. \A u \in Callers : ~(event[u].pc = "update" /\ event[u].c = x)
          BY <1>0, <4>2, Zenon DEF EventsBound
        <5>5. Plus(x) = 0 /\ Minus(x) = 0
          BY <3>0, <5>4, Zenon DEF Plus, Minus
        <5>. QED
          BY <5>2, <5>3, <5>5, SMT
      <4>. QED
        BY <4>1, <4>2
    <3>5. /\ nconn[x].mbox \in Nat /\ Plus(x) \in {0, 1} /\ Minus(x) \in {0, 1} /\ Posted(evt) \in Int
          /\ nconn'[x].mbox = nconn[x].mbox + (IF x = c THEN Posted(evt) ELSE 0)
      <4>1. Plus(x) \in {0, 1} /\ Minus(x) \in {0, 1}
        BY Zenon DEF Plus, Minus
      <4>2. Posted(evt) \in Int
        BY SMT DEF Posted
      <4>. QED
        BY <1>0, <1>1, <4>1, <4>2, SocketFields, Zenon
    <3>6. Plus(x)' \in {0, 1} /\ Minus(x)' \in {0, 1}
      BY Zenon DEF Plus, Minus
    <3>. QED
      BY <3>1, <3>2, <3>3, <3>4, <3>5, <3>6, SMT
  <2>2. \A s \in Sk : sock'[s].rcvevent \in -1..(SockMboxSize + 1)
    BY <1>0, <1>1, Zenon DEF CountsExact
  <2>. QED
    BY <2>1, <2>2, Zenon DEF CountsExact
<1>13. MarkedStay /\ GoneStay /\ KnownStay
  <2>1. MarkedStay /\ GoneStay
    BY <1>1, Zenon DEF MarkedStay, GoneStay
  <2>2. KnownStay
    BY <1>9, Zenon DEF KnownStay
  <2>. QED
    BY <2>1, <2>2
<1>14. LoopsStay
  <2>1. ASSUME NEW u \in Callers, event[u].pc = "loop"
        PROVE  event'[u] = event[u] /\ nconn'[event[u].c].socket = nconn[event[u].c].socket
    <3>1. u # t /\ event[u].pc # "idle"
      BY <1>1, <2>1, Zenon
    <3>2. event[u].c \in NConns
      BY <1>0, <2>1, <3>1, Zenon DEF EventsBound
    <3>. QED
      BY <1>1, <1>5, <3>1, <3>2, Zenon
  <2>. QED
    BY <1>1, <2>1, Zenon DEF LoopsStay
<1>15. Waits'
  <2>1. SameSelects /\ WaitsStay
    BY <1>1, Zenon DEF SameSelects, WaitsStay
  <2>. QED
    BY <1>0, <2>1, WaitsKept, Zenon
<1>. QED
  BY <1>1, <1>6, <1>8, <1>10, <1>11, <1>12, <1>13, <1>14, <1>15, CallKeeps, Zenon


\* The mailbox of a connection is set to n; the connection may become live.
LEMMA MailboxSet ==
  ASSUME SocketTypes, NEW c \in NConns, NEW n \in Nat, nconn' = [nconn EXCEPT ![c].mbox = n]
  PROVE  /\ nconn' \in [NConns -> ConnRecord] /\ nconn'[c].mbox = n
         /\ \A x \in NConns : /\ nconn'[x].socket = nconn[x].socket /\ nconn'[x].live = nconn[x].live
                              /\ x # c => nconn'[x] = nconn[x]
<1>. DEFINE k == [nconn[c] EXCEPT !.mbox = n]
<1>1. nconn' = [nconn EXCEPT ![c] = k]
  BY Zenon
<1>2. nconn[c] \in ConnRecord
  BY SocketFields, Zenon
<1>3. k \in ConnRecord
  BY <1>2, ConnUpdates, Zenon
<1>4. k.socket = nconn[c].socket /\ k.live = nconn[c].live /\ k.mbox = n
  BY <1>2, Zenon DEF ConnRecord
<1>. HIDE DEF k
<1>5. nconn' \in [NConns -> ConnRecord] /\ nconn'[c] = k /\ \A x \in NConns : x # c => nconn'[x] = nconn[x]
  BY <1>1, <1>3, Zenon DEF SocketTypes
<1>. QED
  BY <1>4, <1>5, Zenon

\* One mailbox changes by what the event says.
LEMMA PostsOne ==
  ASSUME SocketsInv, NEW t \in Callers, NEW c \in NConns, NEW evt \in EventKinds, NEW n \in Nat, n <= SockMboxSize,
         n = nconn[c].mbox + Posted(evt), nconn' = [nconn EXCEPT ![c].mbox = n],
         event[t].pc = "idle", Raise(t, c, evt), nconn[c].live,
         \/ t = Owner /\ evt = "RCVMINUS" /\ nconn[c].socket > 0
         \/ t = "tcpip" /\ evt \in {"RCVPLUS", "SENDPLUS", "SENDMINUS"},
         sel' = sel, cbList' = cbList, owner' = owner \/ (owner.pc = "idle" /\ owner' \in OwnerRecord),
         sock' \in [Sk -> SockRecord],
         \A s \in Sk : /\ sock'[s].conn = sock[s].conn /\ sock'[s].rcvevent = sock[s].rcvevent
                       /\ sock'[s].sendevent = sock[s].sendevent
                       /\ sock'[s].select_waiting = sock[s].select_waiting
  PROVE  /\ PostMoves(t, c, evt)
         /\ \A x \in NConns : nconn'[x].socket = nconn[x].socket /\ nconn'[x].live = nconn[x].live
<1>0. SocketTypes /\ ConnsBound
  BY SocketsInvParts, Zenon
<1>1. /\ nconn' \in [NConns -> ConnRecord] /\ nconn'[c].mbox = n
      /\ \A x \in NConns : /\ nconn'[x].socket = nconn[x].socket /\ nconn'[x].live = nconn[x].live
                           /\ x # c => nconn'[x] = nconn[x]
  BY <1>0, MailboxSet, Zenon
<1>2. ASSUME NEW x \in NConns
      PROVE  /\ nconn'[x].socket = nconn[x].socket /\ (nconn[x].live => nconn'[x].live)
             /\ ~nconn'[x].live => nconn'[x] = nconn[x]
             /\ nconn'[x].mbox = nconn[x].mbox + (IF x = c THEN Posted(evt) ELSE 0)
             /\ nconn'[x].mbox <= SockMboxSize
  <2>1. nconn[x].mbox \in Nat /\ nconn[x].mbox <= SockMboxSize
    BY <1>0, SocketFields, Zenon DEF ConnsBound
  <2>2. CASE x = c
    BY <1>1, <2>2, Zenon
  <2>3. CASE x # c
    <3>1. nconn[x].mbox = nconn[x].mbox + 0
      BY <2>1, SMT
    <3>. QED
      BY <1>1, <2>1, <2>3, <3>1, Zenon
  <2>. QED
    BY <2>2, <2>3
<1>3. PostMoves(t, c, evt)
  BY <1>1, <1>2, Zenon DEF PostMoves
<1>. QED
  BY <1>1, <1>3, Zenon

\* Where the owner is does not change, and neither does what it relies on.
LEMMA OwnerKept ==
  ASSUME SocketTypes, OwnerBound, owner' = owner, sel' = sel,
         \A s \in Sk : sock'[s].conn = sock[s].conn /\ sock'[s].rcvevent = sock[s].rcvevent,
         \A x \in NConns : nconn'[x].socket = nconn[x].socket,
         \A x \in NConns : nconn[x].live => nconn'[x].live,
         \A x \in NConns : (\E s \in Sk : sock[s].conn = x) /\ nconn'[x].live => nconn[x].live
  PROVE  OwnerBound'
<1>1. owner.pc \in {"alloc", "adopt"} =>
        owner.c \in NConns \ {1} /\ nconn'[owner.c].live /\ nconn'[owner.c].socket < 0
  <2>1. owner.pc \in {"alloc", "adopt"} =>
          owner.c \in NConns \ {1} /\ nconn[owner.c].live /\ nconn[owner.c].socket < 0
    BY Zenon DEF OwnerBound
  <2>2. owner.pc \in {"alloc", "adopt"} => nconn'[owner.c].socket = nconn[owner.c].socket
    BY <2>1, Zenon
  <2>. QED
    BY <2>1, <2>2, Zenon
<1>2. owner.pc = "adopt" =>
        /\ owner.s \in Sk /\ sock'[owner.s].conn = owner.c /\ sock'[owner.s].rcvevent = 0
        /\ \A t \in Selectors : owner.s \notin sel'[t].marked
  BY Zenon DEF OwnerBound
<1>3. owner.pc = "free" => owner.s \in Sk /\ sock'[owner.s].conn # 0 /\ ~nconn'[sock'[owner.s].conn].live
  <2>1. owner.pc = "free" => owner.s \in Sk /\ sock[owner.s].conn # 0 /\ ~nconn[sock[owner.s].conn].live
    BY Zenon DEF OwnerBound
  <2>2. \A s \in Sk : sock[s].conn # 0 => sock[s].conn \in NConns
    BY SocketFields, Zenon
  <2>. QED
    BY <2>1, <2>2, Zenon
<1>. QED
  BY <1>1, <1>2, <1>3, Zenon DEF OwnerBound

\* Data that arrives.
LEMMA SockDataKeeps ==
  ASSUME SocketsInv, NEW c \in NConns, SockData(c)
  PROVE  SocketsInv'
<1>0. SocketTypes /\ ConnsBound /\ OwnerBound /\ sock \in [Sk -> SockRecord]
  BY SocketsInvParts, Zenon DEF SocketTypes
<1>1. /\ event["tcpip"].pc = "idle" /\ nconn[c].live /\ nconn[c].mbox < SockMboxSize
      /\ nconn' = [nconn EXCEPT ![c].mbox = nconn[c].mbox + 1]
      /\ Raise("tcpip", c, "RCVPLUS") /\ sock' = sock /\ sel' = sel /\ cbList' = cbList /\ owner' = owner
  BY Zenon DEF SockData, StackFree, AllButConn
<1>2. /\ nconn[c].mbox + 1 \in Nat /\ nconn[c].mbox + 1 <= SockMboxSize
      /\ nconn[c].mbox + 1 = nconn[c].mbox + Posted("RCVPLUS")
  <2>1. nconn[c].mbox \in Nat /\ SockMboxSize \in Nat
    BY <1>0, SocketFields, SocketConstants, Zenon
  <2>2. Posted("RCVPLUS") = 1
    BY Zenon DEF Posted
  <2>. QED
    BY <1>1, <2>1, <2>2, SMT
<1>3. "tcpip" \in Callers /\ "RCVPLUS" \in EventKinds
  BY SocketConstants, Zenon DEF EventKinds
<1>4. /\ PostMoves("tcpip", c, "RCVPLUS")
      /\ \A x \in NConns : nconn'[x].socket = nconn[x].socket /\ nconn'[x].live = nconn[x].live
  BY <1>0, <1>1, <1>2, <1>3, PostsOne, Zenon
<1>5. OwnerBound'
  BY <1>0, <1>1, <1>4, OwnerKept, Zenon
<1>. QED
  BY <1>3, <1>4, <1>5, PostMovesKeeps, Zenon

\* Room to send, or none left.
LEMMA SendBufferKeeps ==
  ASSUME SocketsInv, NEW c \in NConns, NEW evt \in {"SENDPLUS", "SENDMINUS"}, SendBuffer(c, evt)
  PROVE  SocketsInv'
<1>0. SocketTypes /\ ConnsBound /\ OwnerBound /\ sock \in [Sk -> SockRecord] /\ nconn \in [NConns -> ConnRecord]
  BY SocketsInvParts, Zenon DEF SocketTypes
<1>1. /\ event["tcpip"].pc = "idle" /\ nconn[c].live
      /\ Raise("tcpip", c, evt) /\ sock' = sock /\ sel' = sel /\ cbList' = cbList /\ owner' = owner /\ nconn' = nconn
  BY Zenon DEF SendBuffer, StackFree, AllButConn
<1>2. "tcpip" \in Callers /\ evt \in EventKinds
  BY SocketConstants, Zenon DEF EventKinds
<1>3. \A x \in NConns : /\ nconn[x].mbox = nconn[x].mbox + (IF x = c THEN Posted(evt) ELSE 0)
                        /\ nconn[x].mbox <= SockMboxSize
  <2>1. \A x \in NConns : nconn[x].mbox \in Nat /\ nconn[x].mbox <= SockMboxSize
    BY <1>0, SocketFields, Zenon DEF ConnsBound
  <2>2. Posted(evt) = 0
    BY Zenon DEF Posted
  <2>. QED
    BY <2>1, <2>2, SMT
<1>4. PostMoves("tcpip", c, evt)
  BY <1>0, <1>1, <1>3, Zenon DEF PostMoves
<1>5. OwnerBound'
  BY <1>0, <1>1, OwnerKept, Zenon
<1>. QED
  BY <1>2, <1>4, <1>5, PostMovesKeeps, Zenon


\* A connection that arrives: it is live, and the listening one's mailbox has it.
LEMMA ConnectionKeeps ==
  ASSUME SocketsInv, NEW c \in NConns, Connection(c)
  PROVE  SocketsInv'
<1>0. /\ SocketTypes /\ ConnsBound /\ OwnerBound /\ sock \in [Sk -> SockRecord] /\ nconn \in [NConns -> ConnRecord]
      /\ 1 \in NConns /\ nconn[1].live
  BY SocketsInvParts, SocketConstants, Zenon DEF SocketTypes, ConnsBound
<1>. DEFINE n == nconn[1].mbox + 1
            a == [nconn[c] EXCEPT !.live = TRUE]
            b == [nconn[1] EXCEPT !.mbox = n]
<1>1. /\ event["tcpip"].pc = "idle" /\ ~nconn[c].live /\ nconn[1].mbox < SockMboxSize
      /\ \A s \in Sk : sock[s].conn # c
      /\ nconn' = [nconn EXCEPT ![c].live = TRUE, ![1].mbox = @ + 1]
      /\ Raise("tcpip", 1, "RCVPLUS") /\ sock' = sock /\ sel' = sel /\ cbList' = cbList /\ owner' = owner
  BY Zenon DEF Connection, StackFree, AllButConn
<1>2. c # 1
  BY <1>0, <1>1, Zenon
<1>3. nconn[1].mbox \in Nat /\ n \in Nat /\ n <= SockMboxSize /\ n = nconn[1].mbox + Posted("RCVPLUS")
  <2>1. nconn[1].mbox \in Nat /\ SockMboxSize \in Nat
    BY <1>0, SocketFields, SocketConstants, Zenon
  <2>2. Posted("RCVPLUS") = 1
    BY Zenon DEF Posted
  <2>. QED
    BY <1>1, <2>1, <2>2, SMT
<1>4. nconn'[c] = a /\ nconn'[1] = b /\ \A x \in NConns : x # c /\ x # 1 => nconn'[x] = nconn[x]
  BY <1>0, <1>1, <1>2, Zenon
<1>. HIDE DEF n
<1>5. /\ a \in ConnRecord /\ a.live /\ a.socket = nconn[c].socket /\ a.mbox = nconn[c].mbox
  <2>1. nconn[c] \in ConnRecord
    BY <1>0, SocketFields, Zenon
  <2>2. a \in ConnRecord
    BY <2>1, ConnUpdates, Zenon
  <2>3. a.live /\ a.socket = nconn[c].socket /\ a.mbox = nconn[c].mbox
    BY <2>1, Zenon DEF ConnRecord
  <2>. QED
    BY <2>2, <2>3
<1>6. /\ b \in ConnRecord /\ b.live = nconn[1].live /\ b.socket = nconn[1].socket /\ b.mbox = n
  <2>1. nconn[1] \in ConnRecord
    BY <1>0, SocketFields, Zenon
  <2>2. b \in ConnRecord
    BY <1>3, <2>1, ConnUpdates, Zenon
  <2>3. b.live = nconn[1].live /\ b.socket = nconn[1].socket /\ b.mbox = n
    BY <2>1, Zenon DEF ConnRecord
  <2>. QED
    BY <2>2, <2>3
<1>7. nconn' \in [NConns -> ConnRecord]
  <2>1. nconn' = [[nconn EXCEPT ![c] = a] EXCEPT ![1] = b]
    BY <1>0, <1>1, <1>2, Zenon DEF n
  <2>. HIDE DEF a, b
  <2>2. [nconn EXCEPT ![c] = a] \in [NConns -> ConnRecord]
    BY <1>0, <1>5, Zenon
  <2>. QED
    BY <1>0, <1>6, <2>1, <2>2, Zenon
<1>. HIDE DEF a, b
<1>8. ASSUME NEW x \in NConns
      PROVE  /\ nconn'[x].socket = nconn[x].socket /\ (nconn[x].live => nconn'[x].live)
             /\ (x # c /\ nconn'[x].live => nconn[x].live)
             /\ ~nconn'[x].live => nconn'[x] = nconn[x]
             /\ nconn'[x].mbox = nconn[x].mbox + (IF x = 1 THEN Posted("RCVPLUS") ELSE 0)
             /\ nconn'[x].mbox <= SockMboxSize
  <2>1. nconn[x].mbox \in Nat /\ nconn[x].mbox <= SockMboxSize
    BY <1>0, SocketFields, Zenon DEF ConnsBound
  <2>2. nconn[x].mbox = nconn[x].mbox + 0
    BY <2>1, SMT
  <2>3. CASE x = c
    BY <1>2, <1>4, <1>5, <2>1, <2>2, <2>3, Zenon
  <2>4. CASE x = 1
    BY <1>0, <1>2, <1>3, <1>4, <1>6, <2>4, Zenon
  <2>5. CASE x # c /\ x # 1
    BY <1>4, <2>1, <2>2, <2>5, Zenon
  <2>. QED
    BY <2>3, <2>4, <2>5
<1>9. "tcpip" \in Callers /\ "RCVPLUS" \in EventKinds
  BY SocketConstants, Zenon DEF EventKinds
<1>10. PostMoves("tcpip", 1, "RCVPLUS")
  BY <1>0, <1>1, <1>7, <1>8, Zenon DEF PostMoves
<1>11. OwnerBound'
  <2>1. \A x \in NConns : (\E s \in Sk : sock[s].conn = x) /\ nconn'[x].live => nconn[x].live
    BY <1>1, <1>8, Zenon
  <2>2. /\ owner' = owner /\ sel' = sel
        /\ \A s \in Sk : sock'[s].conn = sock[s].conn /\ sock'[s].rcvevent = sock[s].rcvevent
    BY <1>1, Zenon
  <2>3. /\ \A x \in NConns : nconn'[x].socket = nconn[x].socket
        /\ \A x \in NConns : nconn[x].live => nconn'[x].live
    BY <1>8, Zenon
  <2>. QED
    BY <1>0, <2>1, <2>2, <2>3, OwnerKept, Zenon
<1>. QED
  BY <1>0, <1>9, <1>10, <1>11, PostMovesKeeps, Zenon

-----------------------------------------------------------------------------
(* The owner's calls.                                                      *)

LEMMA AcceptKeeps ==
  ASSUME SocketsInv, NEW c \in NConns, Accept(c)
  PROVE  SocketsInv'
<1>0. /\ SocketTypes /\ ConnsBound /\ sock \in [Sk -> SockRecord] /\ 1 \in NConns
      /\ nconn[1].live /\ nconn[1].socket = 1
  BY SocketsInvParts, SocketConstants, Zenon DEF SocketTypes, ConnsBound
<1>1. /\ event[Owner].pc = "idle" /\ owner.pc = "idle" /\ nconn[1].mbox > 0
      /\ c # 1 /\ nconn[c].live /\ nconn[c].socket < 0
      /\ nconn' = [nconn EXCEPT ![1].mbox = nconn[1].mbox - 1]
      /\ owner' = [pc |-> "alloc", s |-> 1, c |-> c]
      /\ Raise(Owner, 1, "RCVMINUS") /\ sock' = sock /\ sel' = sel /\ cbList' = cbList
  BY Zenon DEF Accept, OwnerFree, AllButConn
<1>2. /\ nconn[1].mbox - 1 \in Nat /\ nconn[1].mbox - 1 <= SockMboxSize
      /\ nconn[1].mbox - 1 = nconn[1].mbox + Posted("RCVMINUS")
  <2>1. nconn[1].mbox \in Nat /\ SockMboxSize \in Nat /\ nconn[1].mbox <= SockMboxSize
    BY <1>0, SocketFields, SocketConstants, Zenon DEF ConnsBound
  <2>2. Posted("RCVMINUS") = -1
    BY SMT DEF Posted
  <2>. QED
    BY <1>1, <2>1, <2>2, SMT
<1>3. Owner \in Callers /\ "RCVMINUS" \in EventKinds /\ nconn[1].socket > 0
  <2>1. 1 > 0
    OBVIOUS
  <2>. QED
    BY <1>0, <2>1, SocketConstants, Zenon DEF EventKinds
<1>4. owner' \in OwnerRecord /\ owner'.pc = "alloc" /\ owner'.c = c
  <2>1. c \in Int
    BY DEF NConns
  <2>. QED
    BY <1>1, <2>1, SMT DEF OwnerRecord
<1>5. /\ PostMoves(Owner, 1, "RCVMINUS")
      /\ \A x \in NConns : nconn'[x].socket = nconn[x].socket /\ nconn'[x].live = nconn[x].live
  BY <1>0, <1>1, <1>2, <1>3, <1>4, PostsOne, Zenon
<1>6. OwnerBound'
  BY <1>1, <1>4, <1>5, Zenon DEF OwnerBound
<1>. QED
  BY <1>0, <1>3, <1>5, <1>6, PostMovesKeeps, Zenon

\* What an earlier call left, or one more from the mailbox.
LEMMA SockRecvKeeps ==
  ASSUME SocketsInv, NEW s \in Sk, NEW part \in BOOLEAN, SockRecv(s, part)
  PROVE  SocketsInv'
<1>0. /\ SocketTypes /\ ConnsBound /\ SocketsBound /\ OwnerBound /\ EventsBound /\ CountsExact
      /\ Marks /\ Waits /\ ListExact /\ Wakeups
  BY SocketsInvParts, Zenon
<1>1. /\ event[Owner].pc = "idle" /\ owner.pc = "idle" /\ Known(s)
      /\ sel' = sel /\ owner' = owner /\ cbList' = cbList
      /\ sock' = [sock EXCEPT ![s].lastdata = part]
      /\ \/ nconn' = nconn /\ event' = event
         \/ /\ nconn[sock[s].conn].mbox > 0
            /\ nconn' = [nconn EXCEPT ![sock[s].conn].mbox = @ - 1]
            /\ Raise(Owner, sock[s].conn, "RCVMINUS")
  BY Zenon DEF SockRecv, OwnerFree
<1>2. /\ sock' \in [Sk -> SockRecord]
      /\ \A x \in Sk : /\ sock'[x].conn = sock[x].conn /\ sock'[x].rcvevent = sock[x].rcvevent
                       /\ sock'[x].sendevent = sock[x].sendevent
                       /\ sock'[x].select_waiting = sock[x].select_waiting
  <2>. DEFINE k == [sock[s] EXCEPT !.lastdata = part]
  <2>1. sock' = [sock EXCEPT ![s] = k]
    BY <1>1, Zenon
  <2>2. sock[s] \in SockRecord
    BY <1>0, SocketFields, Zenon
  <2>3. k \in SockRecord
    BY <2>2, SockUpdates, Zenon
  <2>4. k.conn = sock[s].conn /\ k.rcvevent = sock[s].rcvevent /\ k.sendevent = sock[s].sendevent
        /\ k.select_waiting = sock[s].select_waiting
    BY <2>2, Zenon DEF SockRecord
  <2>. HIDE DEF k
  <2>5. sock' \in [Sk -> SockRecord] /\ sock'[s] = k /\ \A x \in Sk : x # s => sock'[x] = sock[x]
    BY <1>0, <2>1, <2>3, Zenon DEF SocketTypes
  <2>. QED
    BY <2>4, <2>5, Zenon
<1>3. CASE nconn' = nconn /\ event' = event
  <2>1. SocketTypes'
    BY <1>0, <1>1, <1>2, <1>3, Zenon DEF SocketTypes
  <2>2. ConnsStay
    BY <1>0, <1>1, <1>2, <1>3, Zenon DEF ConnsStay, OwnerBound
  <2>3. ConnsBound' /\ SocketsBound' /\ OwnerBound' /\ CountsExact'
    BY <1>0, <2>2, ConnsKept, Zenon
  <2>4. EventsBound'
    BY <1>0, <1>1, <1>3, Zenon DEF EventsBound
  <2>5. MarkedStay /\ GoneStay
    BY <1>2, Zenon DEF MarkedStay, GoneStay
  <2>6. KnownStay
    BY <1>2, <1>3, Zenon DEF KnownStay, Known
  <2>7. LoopsStay
    BY <1>1, <1>3, Zenon DEF LoopsStay
  <2>8. SameSelects /\ WaitsStay
    BY <1>1, <1>2, Zenon DEF SameSelects, WaitsStay
  <2>9. Waits'
    BY <1>0, <2>8, WaitsKept, Zenon
  <2>. QED
    BY <1>1, <2>1, <2>3, <2>4, <2>5, <2>6, <2>7, <2>9, CallKeeps, Zenon
<1>4. CASE /\ nconn[sock[s].conn].mbox > 0
           /\ nconn' = [nconn EXCEPT ![sock[s].conn].mbox = @ - 1]
           /\ Raise(Owner, sock[s].conn, "RCVMINUS")
  <2>1. sock[s].conn # 0 /\ nconn[sock[s].conn].socket = s /\ sock[s].conn \in NConns
    BY <1>0, <1>1, SocketFields, Zenon DEF Known
  <2>2. PICK c \in NConns : c = sock[s].conn
    BY <2>1, Zenon
  <2>3. nconn[c].mbox > 0 /\ nconn' = [nconn EXCEPT ![c].mbox = nconn[c].mbox - 1] /\ Raise(Owner, c, "RCVMINUS")
    BY <1>4, <2>2, Zenon
  <2>4. /\ nconn[c].mbox - 1 \in Nat /\ nconn[c].mbox - 1 <= SockMboxSize
        /\ nconn[c].mbox - 1 = nconn[c].mbox + Posted("RCVMINUS")
    <3>1. nconn[c].mbox \in Nat /\ SockMboxSize \in Nat /\ nconn[c].mbox <= SockMboxSize
      BY <1>0, SocketFields, SocketConstants, Zenon DEF ConnsBound
    <3>2. Posted("RCVMINUS") = -1
      BY SMT DEF Posted
    <3>. QED
      BY <2>3, <3>1, <3>2, SMT
  <2>5. nconn[c].socket > 0 /\ nconn[c].live
    <3>1. nconn[c].socket = s /\ s > 0 /\ s # -1
      BY <2>1, <2>2, SMT DEF Sk
    <3>2. ~nconn[c].live => nconn[c].socket = -1
      BY <1>0, EmptyRecords, Zenon DEF ConnsBound
    <3>. QED
      BY <3>1, <3>2, Zenon
  <2>6. Owner \in Callers /\ "RCVMINUS" \in EventKinds
    BY SocketConstants, Zenon DEF EventKinds
  <2>7. /\ PostMoves(Owner, c, "RCVMINUS")
        /\ \A x \in NConns : nconn'[x].socket = nconn[x].socket /\ nconn'[x].live = nconn[x].live
    BY <1>0, <1>1, <1>2, <2>3, <2>4, <2>5, <2>6, PostsOne, Zenon
  <2>8. OwnerBound'
    BY <1>0, <1>1, <1>2, <2>7, OwnerKept, Zenon
  <2>. QED
    BY <2>6, <2>7, <2>8, PostMovesKeeps, Zenon
<1>. QED
  BY <1>1, <1>3, <1>4, Zenon


\* Where the owner goes.
LEMMA OwnerUpdates ==
  ASSUME NEW o \in OwnerRecord
  PROVE  /\ [o EXCEPT !.pc = "idle", !.s = 0] \in OwnerRecord /\ [o EXCEPT !.pc = "idle", !.s = 0].pc = "idle"
         /\ [o EXCEPT !.pc = "idle", !.s = 0, !.c = 0] \in OwnerRecord
         /\ [o EXCEPT !.pc = "idle", !.s = 0, !.c = 0].pc = "idle"
         /\ \A i \in Int : /\ [o EXCEPT !.pc = "adopt", !.s = i] \in OwnerRecord
                           /\ [o EXCEPT !.pc = "adopt", !.s = i].pc = "adopt"
                           /\ [o EXCEPT !.pc = "adopt", !.s = i].s = i
                           /\ [o EXCEPT !.pc = "adopt", !.s = i].c = o.c
<1>1. \A r \in OwnerRecord, p \in {"idle", "alloc", "adopt", "free"} : [r EXCEPT !.pc = p] \in OwnerRecord
  BY SMT DEF OwnerRecord
<1>2. \A r \in OwnerRecord, i \in Int : [r EXCEPT !.s = i] \in OwnerRecord /\ [r EXCEPT !.c = i] \in OwnerRecord
  BY SMT DEF OwnerRecord
<1>3. 0 \in Int
  OBVIOUS
<1>4. [o EXCEPT !.pc = "idle"] \in OwnerRecord /\ [o EXCEPT !.pc = "adopt"] \in OwnerRecord
  BY <1>1, Zenon
<1>5. [o EXCEPT !.pc = "idle", !.s = 0] \in OwnerRecord
  BY <1>2, <1>3, <1>4, Zenon
<1>6. [o EXCEPT !.pc = "idle", !.s = 0, !.c = 0] \in OwnerRecord
  BY <1>2, <1>3, <1>5, Zenon
<1>7. \A i \in Int : [o EXCEPT !.pc = "adopt", !.s = i] \in OwnerRecord
  BY <1>2, <1>4, Zenon
<1>8. /\ [o EXCEPT !.pc = "idle", !.s = 0].pc = "idle"
      /\ [o EXCEPT !.pc = "idle", !.s = 0, !.c = 0].pc = "idle"
  BY Zenon DEF OwnerRecord
<1>9. ASSUME NEW i \in Int
      PROVE  /\ [o EXCEPT !.pc = "adopt", !.s = i].pc = "adopt" /\ [o EXCEPT !.pc = "adopt", !.s = i].s = i
             /\ [o EXCEPT !.pc = "adopt", !.s = i].c = o.c
  BY Zenon DEF OwnerRecord
<1>. QED
  BY <1>5, <1>6, <1>7, <1>8, <1>9, Zenon

\* netconn_delete of a connection that no callback is about.
LEMMA DeletedCounts ==
  ASSUME SocketTypes, CountsExact, NEW c \in NConns, nconn' = [nconn EXCEPT ![c] = NoSockConn], sock' = sock,
         event' = event
  PROVE  /\ CountsExact' /\ nconn' \in [NConns -> ConnRecord] /\ nconn'[c] = NoSockConn
         /\ \A x \in NConns : x # c => nconn'[x] = nconn[x]
<1>1. /\ nconn' \in [NConns -> ConnRecord] /\ nconn'[c] = NoSockConn
      /\ \A x \in NConns : x # c => nconn'[x] = nconn[x]
  BY EmptyRecords, Zenon DEF SocketTypes
<1>2. ASSUME NEW x \in NConns, nconn'[x].live
      PROVE  Counted(x)' = nconn'[x].mbox - Plus(x)' + Minus(x)'
  <2>1. x # c
    BY <1>1, <1>2, EmptyRecords, Zenon
  <2>2. nconn'[x] = nconn[x]
    BY <1>1, <2>1, Zenon
  <2>3. Counted(x)' = Counted(x)
    BY <2>2, SMT DEF Counted
  <2>4. Plus(x)' = Plus(x) /\ Minus(x)' = Minus(x)
    BY Zenon DEF Plus, Minus
  <2>5. Counted(x) = nconn[x].mbox - Plus(x) + Minus(x)
    BY <1>2, <2>2, Zenon DEF CountsExact
  <2>. QED
    BY <2>2, <2>3, <2>4, <2>5, Zenon
<1>3. \A s \in Sk : sock'[s].rcvevent \in -1..(SockMboxSize + 1)
  BY Zenon DEF CountsExact
<1>. QED
  BY <1>1, <1>2, <1>3, Zenon DEF CountsExact

\* lwip_close: no select that is just beginning names the socket.
LEMMA SockCloseKeeps ==
  ASSUME SocketsInv, NEW s \in Sk, SockClose(s)
  PROVE  SocketsInv'
<1>0. /\ SocketTypes /\ ConnsBound /\ SocketsBound /\ OwnerBound /\ EventsBound /\ CountsExact
      /\ Marks /\ Waits /\ ListExact /\ Wakeups
  BY SocketsInvParts, Zenon
<1>1. /\ event[Owner].pc = "idle" /\ event["tcpip"].pc = "idle" /\ owner.pc = "idle" /\ Known(s) /\ s # 1
      /\ sock' = sock /\ sel' = sel /\ event' = event /\ cbList' = cbList
      /\ nconn' = [nconn EXCEPT ![sock[s].conn] = NoSockConn]
      /\ owner' = [pc |-> "free", s |-> s, c |-> 0]
      /\ \A t \in Selectors : sel[t].pc \in {"scan1", "register", "mark"} => ~Asked(sel[t].set, s)
  BY Zenon DEF SockClose, OwnerFree
<1>2. sock[s].conn # 0 /\ nconn[sock[s].conn].socket = s /\ sock[s].conn \in NConns
  BY <1>0, <1>1, SocketFields, Zenon DEF Known
<1>3. PICK c \in NConns : c = sock[s].conn
  BY <1>2, Zenon
<1>4. c # 1
  BY <1>0, <1>1, <1>2, <1>3, Zenon DEF ConnsBound
<1>5. /\ CountsExact' /\ nconn' \in [NConns -> ConnRecord] /\ nconn'[c] = NoSockConn
      /\ \A x \in NConns : x # c => nconn'[x] = nconn[x]
  <2>1. nconn' = [nconn EXCEPT ![c] = NoSockConn]
    BY <1>1, <1>3, Zenon
  <2>. QED
    BY <1>0, <1>1, <2>1, DeletedCounts, Zenon
<1>6. owner' \in OwnerRecord /\ owner'.pc = "free" /\ owner'.s = s
  <2>1. s \in Int
    BY DEF Sk
  <2>. QED
    BY <1>1, <2>1, SMT DEF OwnerRecord
<1>7. SocketTypes'
  BY <1>0, <1>1, <1>5, <1>6, Zenon DEF SocketTypes
<1>8. \A u \in Callers : event[u].pc = "idle" /\ event'[u].pc = "idle"
  BY <1>1, SocketConstants, Zenon
<1>9. EventsBound'
  BY <1>8, Zenon DEF EventsBound
<1>10. ConnsBound'
  <2>1. nconn'[1].live /\ nconn'[1].socket = 1
    BY <1>0, <1>4, <1>5, SocketConstants, Zenon DEF ConnsBound
  <2>2. ASSUME NEW x \in NConns
        PROVE  /\ ~nconn'[x].live => nconn'[x] = NoSockConn
               /\ nconn'[x].socket # 0 /\ nconn'[x].socket <= NUM_SOCKETS /\ nconn'[x].mbox <= SockMboxSize
               /\ nconn'[x].socket > 0 => sock'[nconn'[x].socket].conn = x
    <3>1. CASE x = c
      <4>1. nconn'[x] = NoSockConn
        BY <1>5, <3>1, Zenon
      <4>2. nconn'[x].socket = -1 /\ nconn'[x].mbox = 0
        BY <4>1, EmptyRecords, Zenon
      <4>3. -1 # 0 /\ -1 <= NUM_SOCKETS /\ ~(-1 > 0) /\ 0 <= SockMboxSize
        BY SocketConstants, SMT
      <4>. QED
        BY <4>1, <4>2, <4>3, Zenon
    <3>2. CASE x # c
      <4>1. nconn'[x] = nconn[x]
        BY <1>5, <3>2, Zenon
      <4>. QED
        BY <1>0, <1>1, <4>1, Zenon DEF ConnsBound
    <3>. QED
      BY <3>1, <3>2
  <2>. QED
    BY <2>1, <2>2, Zenon DEF ConnsBound
<1>11. \A x \in Sk : x # s /\ sock[x].conn # 0 => nconn[sock[x].conn].socket = x /\ sock[x].conn # c /\ Known(x)'
  <2>1. ASSUME NEW x \in Sk, x # s, sock[x].conn # 0
        PROVE  nconn[sock[x].conn].socket = x /\ sock[x].conn # c /\ Known(x)'
    <3>1. nconn[sock[x].conn].socket = x
      BY <1>0, <1>1, <2>1, Zenon DEF SocketsBound
    <3>2. sock[x].conn # c
      BY <1>2, <1>3, <2>1, <3>1, Zenon
    <3>3. sock[x].conn \in NConns
      BY <1>0, <2>1, SocketFields, Zenon
    <3>4. nconn'[sock[x].conn] = nconn[sock[x].conn]
      BY <1>5, <3>2, <3>3, Zenon
    <3>. QED
      BY <1>1, <2>1, <3>1, <3>2, <3>4, Zenon DEF Known
  <2>. QED
    BY <2>1, Zenon
<1>12. SocketsBound'
  <2>1. ASSUME NEW x \in Sk, sock'[x].conn # 0
        PROVE  \/ nconn'[sock'[x].conn].socket = x
               \/ owner'.s = x /\ owner'.pc = "adopt" /\ owner'.c = sock'[x].conn
               \/ owner'.s = x /\ owner'.pc = "free"
    BY <1>1, <1>6, <1>11, <2>1, Zenon DEF Known
  <2>. QED
    BY <2>1, Zenon DEF SocketsBound
<1>13. OwnerBound'
  <2>1. ~nconn'[sock'[s].conn].live
    BY <1>1, <1>3, <1>5, EmptyRecords, Zenon
  <2>. QED
    BY <1>1, <1>2, <1>6, <2>1, Zenon DEF OwnerBound
<1>14. MarkedStay /\ GoneStay
  BY <1>1, Zenon DEF MarkedStay, GoneStay
<1>15. KnownStay
  <2>1. ASSUME NEW t \in Selectors, NEW x \in Sk, sel[t].pc \in {"scan1", "register", "mark"},
               Asked(sel[t].set, x), Known(x)
        PROVE  Known(x)'
    <3>1. x # s
      BY <1>1, <2>1, Zenon
    <3>2. sock[x].conn # 0
      BY <2>1, Zenon DEF Known
    <3>. QED
      BY <1>11, <3>1, <3>2, Zenon
  <2>. QED
    BY <2>1, Zenon DEF KnownStay
<1>16. LoopsStay
  BY <1>1, <1>8, Zenon DEF LoopsStay
<1>17. Waits'
  <2>1. SameSelects /\ WaitsStay
    BY <1>1, Zenon DEF SameSelects, WaitsStay
  <2>. QED
    BY <1>0, <2>1, WaitsKept, Zenon
<1>. QED
  BY <1>1, <1>5, <1>7, <1>9, <1>10, <1>12, <1>13, <1>14, <1>15, <1>16, <1>17, CallKeeps, Zenon

\* free_socket: the marks of selects that wait for it stay.
LEMMA FreeSocketKeeps ==
  ASSUME SocketsInv, FreeSocket
  PROVE  SocketsInv'
<1>0. /\ SocketTypes /\ ConnsBound /\ SocketsBound /\ OwnerBound /\ EventsBound /\ CountsExact
      /\ Marks /\ Waits /\ ListExact /\ Wakeups
  BY SocketsInvParts, Zenon
<1>1. /\ owner.pc = "free" /\ nconn' = nconn /\ sel' = sel /\ event' = event /\ cbList' = cbList
      /\ sock' = [sock EXCEPT ![owner.s].conn = 0, ![owner.s].lastdata = FALSE]
      /\ owner' = [owner EXCEPT !.pc = "idle", !.s = 0]
  BY Zenon DEF FreeSocket
<1>2. owner.s \in Sk /\ sock[owner.s].conn # 0 /\ ~nconn[sock[owner.s].conn].live
  BY <1>0, <1>1, Zenon DEF OwnerBound
<1>3. PICK s \in Sk : s = owner.s
  BY <1>2, Zenon
<1>. DEFINE k1 == [sock[s] EXCEPT !.conn = 0]
            k == [k1 EXCEPT !.lastdata = FALSE]
<1>4. sock' = [[sock EXCEPT ![s] = k1] EXCEPT ![s] = k]
  <2>1. sock' = [[sock EXCEPT ![s] = k1] EXCEPT ![s].lastdata = FALSE]
    BY <1>1, <1>3, Zenon
  <2>2. [sock EXCEPT ![s] = k1][s] = k1
    BY <1>0, Zenon DEF SocketTypes
  <2>. HIDE DEF k1
  <2>. QED
    BY <2>1, <2>2, Zenon
<1>5. /\ k \in SockRecord /\ k1 \in SockRecord /\ k.conn = 0 /\ k.rcvevent = sock[s].rcvevent /\ k.sendevent = sock[s].sendevent
      /\ k.select_waiting = sock[s].select_waiting
  <2>1. sock[s] \in SockRecord
    BY <1>0, SocketFields, Zenon
  <2>2. k1 \in SockRecord
    BY <2>1, SockUpdates, Zenon
  <2>3. k1.conn = 0 /\ k1.rcvevent = sock[s].rcvevent /\ k1.sendevent = sock[s].sendevent
        /\ k1.select_waiting = sock[s].select_waiting
    BY <2>1, Zenon DEF SockRecord
  <2>. HIDE DEF k1
  <2>4. k \in SockRecord
    BY <2>2, SockUpdates, Zenon
  <2>5. k.conn = k1.conn /\ k.rcvevent = k1.rcvevent /\ k.sendevent = k1.sendevent
        /\ k.select_waiting = k1.select_waiting
    BY <2>2, Zenon DEF SockRecord
  <2>. QED
    BY <2>2, <2>3, <2>4, <2>5, Zenon
<1>. HIDE DEF k1, k
<1>6. sock' \in [Sk -> SockRecord] /\ sock'[s] = k /\ \A x \in Sk : x # s => sock'[x] = sock[x]
  <2>. DEFINE f == [sock EXCEPT ![s] = k1]
  <2>1. f \in [Sk -> SockRecord] /\ \A x \in Sk : x # s => f[x] = sock[x]
    BY <1>0, <1>5, Zenon DEF SocketTypes
  <2>. HIDE DEF f
  <2>2. sock' = [f EXCEPT ![s] = k]
    BY <1>4, Zenon DEF f
  <2>. QED
    BY <1>5, <2>1, <2>2, Zenon
<1>7. owner' \in OwnerRecord /\ owner'.pc = "idle"
  BY <1>0, <1>1, OwnerUpdates, Zenon DEF SocketTypes
<1>8. SocketTypes'
  BY <1>0, <1>1, <1>6, <1>7, Zenon DEF SocketTypes
<1>9. ASSUME NEW c \in NConns, nconn[c].socket > 0
      PROVE  nconn[c].socket \in Sk /\ nconn[c].socket # s
  <2>1. nconn[c].socket \in Int /\ nconn[c].socket <= NUM_SOCKETS /\ sock[nconn[c].socket].conn = c
    BY <1>0, <1>9, SocketFields, Zenon DEF ConnsBound
  <2>2. nconn[c].socket \in Sk
    BY <1>9, <2>1, SMT DEF Sk
  <2>3. nconn[c].live
    <3>1. ~nconn[c].live => nconn[c].socket = -1
      BY <1>0, <1>9, EmptyRecords, Zenon DEF ConnsBound
    <3>2. nconn[c].socket # -1
      BY <1>9, <2>1, SMT
    <3>. QED
      BY <3>1, <3>2, Zenon
  <2>4. nconn[c].socket # s
    BY <1>2, <1>3, <2>1, <2>3, Zenon
  <2>. QED
    BY <2>2, <2>4
<1>10. ConnsBound'
  <2>1. ASSUME NEW c \in NConns, nconn[c].socket > 0 PROVE sock'[nconn[c].socket] = sock[nconn[c].socket]
    BY <1>6, <1>9, <2>1, Zenon
  <2>. QED
    BY <1>0, <1>1, <2>1, Zenon DEF ConnsBound
<1>11. SocketsBound'
  <2>1. ASSUME NEW x \in Sk, sock'[x].conn # 0
        PROVE  nconn'[sock'[x].conn].socket = x
    <3>1. x # s /\ sock'[x] = sock[x]
      BY <1>5, <1>6, <2>1, Zenon
    <3>2. \/ nconn[sock[x].conn].socket = x
          \/ owner.s = x /\ owner.pc = "adopt"
          \/ owner.s = x /\ owner.pc = "free"
      BY <1>0, <2>1, <3>1, Zenon DEF SocketsBound
    <3>. QED
      BY <1>1, <1>3, <3>1, <3>2, Zenon
  <2>. QED
    BY <2>1, Zenon DEF SocketsBound
<1>12. OwnerBound'
  BY <1>7, Zenon DEF OwnerBound
<1>13. EventsBound'
  BY <1>0, <1>1, Zenon DEF EventsBound
<1>14. CountsExact'
  <2>1. ASSUME NEW c \in NConns, nconn'[c].live
        PROVE  Counted(c)' = nconn'[c].mbox - Plus(c)' + Minus(c)'
    <3>1. Counted(c)' = Counted(c)
      <4>1. CASE nconn[c].socket < 0
        BY <1>1, <4>1, Zenon DEF Counted
      <4>2. CASE ~(nconn[c].socket < 0)
        <5>1. nconn[c].socket > 0
          <6>1. nconn[c].socket # 0 /\ nconn[c].socket \in Int
            BY <1>0, SocketFields, Zenon DEF ConnsBound
          <6>. QED
            BY <4>2, <6>1, SMT
        <5>2. sock'[nconn[c].socket] = sock[nconn[c].socket]
          BY <1>6, <1>9, <5>1, Zenon
        <5>3. nconn' = nconn
          BY <1>1, Zenon
        <5>. QED
          BY <4>2, <5>2, <5>3, SMT DEF Counted
      <4>. QED
        BY <4>1, <4>2
    <3>2. Plus(c)' = Plus(c) /\ Minus(c)' = Minus(c)
      BY <1>1, Zenon DEF Plus, Minus
    <3>3. Counted(c) = nconn[c].mbox - Plus(c) + Minus(c)
      BY <1>0, <1>1, <2>1, Zenon DEF CountsExact
    <3>. QED
      BY <1>1, <3>1, <3>2, <3>3, Zenon
  <2>2. \A x \in Sk : sock'[x].rcvevent = sock[x].rcvevent
    BY <1>5, <1>6, Zenon
  <2>3. \A x \in Sk : sock'[x].rcvevent \in -1..(SockMboxSize + 1)
    BY <1>0, <2>2, Zenon DEF CountsExact
  <2>. QED
    BY <2>1, <2>3, Zenon DEF CountsExact
<1>15. MarkedStay /\ GoneStay
  BY <1>5, <1>6, Zenon DEF MarkedStay, GoneStay
<1>16. KnownStay
  <2>1. ASSUME NEW x \in Sk, Known(x) PROVE Known(x)'
    <3>1. sock[x].conn # 0 /\ nconn[sock[x].conn].socket = x /\ sock[x].conn \in NConns
      BY <1>0, <2>1, SocketFields, Zenon DEF Known
    <3>2. x > 0
      BY SMT DEF Sk
    <3>3. x # s
      BY <1>9, <3>1, <3>2, Zenon
    <3>. QED
      BY <1>1, <1>6, <3>1, <3>3, Zenon DEF Known
  <2>. QED
    BY <2>1, Zenon DEF KnownStay
<1>17. LoopsStay
  BY <1>1, Zenon DEF LoopsStay
<1>18. Waits'
  <2>1. SameSelects
    BY <1>1, Zenon DEF SameSelects
  <2>2. WaitsStay
    BY <1>5, <1>6, Zenon DEF WaitsStay
  <2>. QED
    BY <1>0, <2>1, <2>2, WaitsKept, Zenon
<1>. QED
  BY <1>1, <1>8, <1>10, <1>11, <1>12, <1>13, <1>14, <1>15, <1>16, <1>17, <1>18, CallKeeps, Zenon


\* alloc_socket takes a slot nobody has marked; netconn_delete when there is none.
LEMMA AllocSocketKeeps ==
  ASSUME SocketsInv, AllocSocket
  PROVE  SocketsInv'
<1>0. /\ SocketTypes /\ ConnsBound /\ SocketsBound /\ OwnerBound /\ EventsBound /\ CountsExact
      /\ Marks /\ Waits /\ ListExact /\ Wakeups
  BY SocketsInvParts, Zenon
<1>1. /\ owner.pc = "alloc" /\ event[Owner].pc = "idle" /\ sel' = sel /\ event' = event /\ cbList' = cbList
      /\ owner \in OwnerRecord
  BY <1>0, Zenon DEF AllocSocket, SocketTypes
<1>2. owner.c \in NConns /\ owner.c # 1 /\ nconn[owner.c].live /\ nconn[owner.c].socket < 0
  BY <1>0, <1>1, Zenon DEF OwnerBound
<1>3. PICK c \in NConns : c = owner.c
  BY <1>2, Zenon
<1>4. \A x \in Sk : sock[x].conn # 0 => nconn[sock[x].conn].socket = x /\ sock[x].conn \in NConns /\ sock[x].conn # c
  <2>1. ASSUME NEW x \in Sk, sock[x].conn # 0
        PROVE  nconn[sock[x].conn].socket = x /\ sock[x].conn \in NConns /\ sock[x].conn # c
    <3>1. nconn[sock[x].conn].socket = x /\ sock[x].conn \in NConns
      BY <1>0, <1>1, <2>1, SocketFields, Zenon DEF SocketsBound
    <3>2. ~(x < 0)
      BY SMT DEF Sk
    <3>. QED
      BY <1>2, <1>3, <3>1, <3>2, Zenon
  <2>. QED
    BY <2>1, Zenon
<1>5. CASE FreeSlots = {}
  <2>1. /\ event["tcpip"].pc = "idle" /\ sock' = sock /\ nconn' = [nconn EXCEPT ![c] = NoSockConn]
        /\ owner' = [owner EXCEPT !.pc = "idle", !.s = 0, !.c = 0]
    BY <1>3, <1>5, Zenon DEF AllocSocket
  <2>2. /\ CountsExact' /\ nconn' \in [NConns -> ConnRecord] /\ nconn'[c] = NoSockConn
        /\ \A x \in NConns : x # c => nconn'[x] = nconn[x]
    BY <1>0, <1>1, <2>1, DeletedCounts, Zenon
  <2>3. owner' \in OwnerRecord /\ owner'.pc = "idle"
    BY <1>1, <2>1, OwnerUpdates, Zenon
  <2>4. SocketTypes'
    BY <1>0, <1>1, <2>1, <2>2, <2>3, Zenon DEF SocketTypes
  <2>5. \A u \in Callers : event[u].pc = "idle" /\ event'[u].pc = "idle"
    BY <1>1, <2>1, SocketConstants, Zenon
  <2>6. EventsBound'
    BY <2>5, Zenon DEF EventsBound
  <2>7. ConnsBound'
    <3>1. nconn'[1].live /\ nconn'[1].socket = 1
      BY <1>0, <1>2, <1>3, <2>2, SocketConstants, Zenon DEF ConnsBound
    <3>2. ASSUME NEW x \in NConns
          PROVE  /\ ~nconn'[x].live => nconn'[x] = NoSockConn
                 /\ nconn'[x].socket # 0 /\ nconn'[x].socket <= NUM_SOCKETS /\ nconn'[x].mbox <= SockMboxSize
                 /\ nconn'[x].socket > 0 => sock'[nconn'[x].socket].conn = x
      <4>1. CASE x = c
        <5>1. nconn'[x] = NoSockConn
          BY <2>2, <4>1, Zenon
        <5>2. nconn'[x].socket = -1 /\ nconn'[x].mbox = 0
          BY <5>1, EmptyRecords, Zenon
        <5>3. -1 # 0 /\ -1 <= NUM_SOCKETS /\ ~(-1 > 0) /\ 0 <= SockMboxSize
          BY SocketConstants, SMT
        <5>. QED
          BY <5>1, <5>2, <5>3, Zenon
      <4>2. CASE x # c
        <5>1. nconn'[x] = nconn[x]
          BY <2>2, <4>2, Zenon
        <5>. QED
          BY <1>0, <2>1, <5>1, Zenon DEF ConnsBound
      <4>. QED
        BY <4>1, <4>2
    <3>. QED
      BY <3>1, <3>2, Zenon DEF ConnsBound
  <2>8. \A x \in Sk : sock[x].conn # 0 => nconn'[sock[x].conn].socket = x
    BY <1>4, <2>2, Zenon
  <2>9. SocketsBound'
    BY <2>1, <2>8, Zenon DEF SocketsBound
  <2>10. OwnerBound'
    BY <2>3, Zenon DEF OwnerBound
  <2>11. MarkedStay /\ GoneStay
    BY <2>1, Zenon DEF MarkedStay, GoneStay
  <2>12. KnownStay
    BY <2>1, <2>8, Zenon DEF KnownStay, Known
  <2>13. LoopsStay
    BY <1>1, <2>5, Zenon DEF LoopsStay
  <2>14. SameSelects /\ WaitsStay
    BY <1>1, <2>1, Zenon DEF SameSelects, WaitsStay
  <2>15. Waits'
    BY <1>0, <2>14, WaitsKept, Zenon
  <2>. QED
    BY <1>1, <2>2, <2>4, <2>6, <2>7, <2>9, <2>10, <2>11, <2>12, <2>13, <2>15, CallKeeps, Zenon
<1>6. CASE FreeSlots # {}
  <2>. DEFINE k == [FreeSock EXCEPT !.conn = c, !.sendevent = TRUE]
  <2>0. FreeSlots \in SUBSET Nat
    BY SocketConstants, Zenon DEF FreeSlots
  <2>1. PICK s \in FreeSlots : s = CHOOSE x \in FreeSlots : \A y \in FreeSlots : x <= y
    <3>1. FirstOf(FreeSlots) \in FreeSlots
      BY <1>6, <2>0, FirstOfIsLeast, Zenon
    <3>2. FirstOf(FreeSlots) = CHOOSE x \in FreeSlots : \A y \in FreeSlots : x <= y
      BY Zenon DEF FirstOf
    <3>. QED
      BY <3>1, <3>2, Zenon
  <2>2. /\ sock' = [sock EXCEPT ![s] = k] /\ nconn' = nconn
        /\ owner' = [owner EXCEPT !.pc = "adopt", !.s = s]
    BY <1>3, <1>6, <2>1, Zenon DEF AllocSocket
  <2>3. s \in Sk /\ sock[s].conn = 0 /\ sock[s].select_waiting = 0 /\ s \in Int
    <3>1. s \in Sk /\ sock[s].conn = 0 /\ sock[s].select_waiting = 0
      BY Zenon DEF FreeSlots
    <3>. QED
      BY <3>1 DEF Sk
  <2>4. /\ k \in SockRecord /\ k.conn = c /\ k.rcvevent = 0 /\ k.select_waiting = 0
    <3>1. c \in NConns \cup {0} /\ TRUE \in BOOLEAN
      BY Zenon
    <3>2. [FreeSock EXCEPT !.conn = c] \in SockRecord
      BY <3>1, EmptyRecords, SockUpdates, Zenon
    <3>3. k \in SockRecord
      BY <3>1, <3>2, SockUpdates, Zenon
    <3>4. FreeSock.rcvevent = 0 /\ FreeSock.select_waiting = 0
      BY SMT DEF FreeSock
    <3>5. k.conn = c /\ k.rcvevent = FreeSock.rcvevent /\ k.select_waiting = FreeSock.select_waiting
      BY EmptyRecords, Zenon DEF SockRecord
    <3>. QED
      BY <3>3, <3>4, <3>5, Zenon
  <2>. HIDE DEF k
  <2>5. sock' \in [Sk -> SockRecord] /\ sock'[s] = k /\ \A x \in Sk : x # s => sock'[x] = sock[x]
    BY <1>0, <2>2, <2>3, <2>4, Zenon DEF SocketTypes
  <2>6. owner' \in OwnerRecord /\ owner'.pc = "adopt" /\ owner'.s = s /\ owner'.c = c
    BY <1>1, <1>3, <2>2, <2>3, OwnerUpdates, Zenon
  <2>7. Markers(s) = {} /\ Cardinality(Markers(s)) = 0
    <3>1. Markers(s) \subseteq Selectors /\ IsFiniteSet(Selectors)
      BY SocketConstants, Zenon DEF Markers
    <3>2. IsFiniteSet(Markers(s))
      BY <3>1, FS_Subset, Zenon
    <3>3. Cardinality(Markers(s)) \in Nat
      BY <3>2, FS_CardinalityType, Zenon
    <3>4. Cardinality(Markers(s)) <= 0
      BY <1>0, <2>3, Zenon DEF Waits
    <3>5. Cardinality(Markers(s)) = 0
      BY <3>3, <3>4, SMT
    <3>. QED
      BY <3>2, <3>5, FS_EmptySet, Zenon
  <2>8. \A t \in Selectors : s \notin sel[t].marked
    BY <2>7, Zenon DEF Markers
  <2>9. SocketTypes'
    BY <1>0, <1>1, <2>2, <2>5, <2>6, Zenon DEF SocketTypes
  <2>10. ASSUME NEW x \in NConns, nconn[x].socket > 0
         PROVE  nconn[x].socket \in Sk /\ nconn[x].socket # s /\ sock'[nconn[x].socket] = sock[nconn[x].socket]
    <3>1. nconn[x].socket \in Int /\ nconn[x].socket <= NUM_SOCKETS /\ sock[nconn[x].socket].conn = x
      BY <1>0, <2>10, SocketFields, Zenon DEF ConnsBound
    <3>2. nconn[x].socket \in Sk
      BY <2>10, <3>1, SMT DEF Sk
    <3>3. nconn[x].socket # s
      BY <2>3, <3>1, SocketConstants, Zenon
    <3>. QED
      BY <2>5, <3>2, <3>3, Zenon
  <2>11. ConnsBound'
    <3>1. ASSUME NEW x \in NConns, nconn[x].socket > 0
          PROVE  sock'[nconn[x].socket].conn = x
      <4>1. sock'[nconn[x].socket] = sock[nconn[x].socket]
        BY <2>10, <3>1, Zenon
      <4>2. sock[nconn[x].socket].conn = x
        BY <1>0, <3>1, Zenon DEF ConnsBound
      <4>. QED
        BY <4>1, <4>2, Zenon
    <3>2. ASSUME NEW x \in NConns
          PROVE  /\ ~nconn[x].live => nconn[x] = NoSockConn
                 /\ nconn[x].socket # 0 /\ nconn[x].socket <= NUM_SOCKETS /\ nconn[x].mbox <= SockMboxSize
      BY <1>0, Zenon DEF ConnsBound
    <3>3. nconn[1].live /\ nconn[1].socket = 1
      BY <1>0, Zenon DEF ConnsBound
    <3>4. nconn' = nconn
      BY <2>2
    <3>. QED
      BY <3>1, <3>2, <3>3, <3>4, Zenon DEF ConnsBound
  <2>12. SocketsBound'
    <3>1. ASSUME NEW x \in Sk, sock'[x].conn # 0
          PROVE  \/ nconn'[sock'[x].conn].socket = x
                 \/ owner'.s = x /\ owner'.pc = "adopt" /\ owner'.c = sock'[x].conn
      <4>1. CASE x = s
        BY <2>4, <2>5, <2>6, <4>1, Zenon
      <4>2. CASE x # s
        <5>1. sock'[x] = sock[x]
          BY <2>5, <4>2, Zenon
        <5>. QED
          BY <1>4, <2>2, <3>1, <5>1, Zenon
      <4>. QED
        BY <4>1, <4>2
    <3>. QED
      BY <3>1, Zenon DEF SocketsBound
  <2>13. OwnerBound'
    <3>1. /\ owner'.c \in NConns \ {1} /\ nconn'[owner'.c].live /\ nconn'[owner'.c].socket < 0
      BY <1>2, <1>3, <2>2, <2>6, Zenon
    <3>2. /\ owner'.s \in Sk /\ sock'[owner'.s].conn = owner'.c /\ sock'[owner'.s].rcvevent = 0
          /\ \A t \in Selectors : owner'.s \notin sel'[t].marked
      BY <1>1, <2>3, <2>4, <2>5, <2>6, <2>8, Zenon
    <3>3. owner'.pc # "free"
      BY <2>6, Zenon
    <3>. QED
      BY <3>1, <3>2, <3>3, Zenon DEF OwnerBound
  <2>14. EventsBound'
    BY <1>0, <1>1, <2>2, Zenon DEF EventsBound
  <2>15. CountsExact'
    <3>1. ASSUME NEW x \in NConns, nconn'[x].live
          PROVE  Counted(x)' = nconn'[x].mbox - Plus(x)' + Minus(x)'
      <4>1. Counted(x)' = Counted(x)
        <5>1. CASE nconn[x].socket < 0
          BY <2>2, <5>1, Zenon DEF Counted
        <5>2. CASE ~(nconn[x].socket < 0)
          <6>1. nconn[x].socket > 0
            <7>1. nconn[x].socket # 0 /\ nconn[x].socket \in Int
              BY <1>0, SocketFields, Zenon DEF ConnsBound
            <7>. QED
              BY <5>2, <7>1, SMT
          <6>2. sock'[nconn[x].socket] = sock[nconn[x].socket] /\ nconn' = nconn
            BY <2>2, <2>10, <6>1, Zenon
          <6>. QED
            BY <5>2, <6>2, SMT DEF Counted
        <5>. QED
          BY <5>1, <5>2
      <4>2. Plus(x)' = Plus(x) /\ Minus(x)' = Minus(x)
        BY <1>1, Zenon DEF Plus, Minus
      <4>3. Counted(x) = nconn[x].mbox - Plus(x) + Minus(x)
        BY <1>0, <2>2, <3>1, Zenon DEF CountsExact
      <4>. QED
        BY <2>2, <4>1, <4>2, <4>3, Zenon
    <3>2. 0 \in -1..(SockMboxSize + 1)
      BY SocketConstants, SMT
    <3>3. \A x \in Sk : sock'[x].rcvevent \in -1..(SockMboxSize + 1)
      BY <1>0, <2>4, <2>5, <3>2, Zenon DEF CountsExact
    <3>. QED
      BY <3>1, <3>3, Zenon DEF CountsExact
  <2>16. MarkedStay
    BY <2>5, <2>8, Zenon DEF MarkedStay
  <2>17. GoneStay
    BY <2>5, <2>8, Zenon DEF GoneStay
  <2>18. KnownStay
    BY <2>2, <2>3, <2>5, Zenon DEF KnownStay, Known
  <2>19. LoopsStay
    BY <1>1, <2>2, Zenon DEF LoopsStay
  <2>20. Waits'
    <3>1. \A x : Markers(x)' = Markers(x)
      BY <1>1, Zenon DEF Markers
    <3>2. ASSUME NEW x \in Sk
          PROVE  /\ Cardinality(Markers(x)) <= sock'[x].select_waiting
                 /\ sock'[x].select_waiting <= Cardinality(Selectors)
                 /\ sock'[x].conn # 0 => sock'[x].select_waiting = Cardinality(Markers(x))
      <4>1. CASE x = s
        <5>1. sock'[x].select_waiting = sock[x].select_waiting /\ sock'[x].select_waiting = 0
          BY <2>3, <2>4, <2>5, <4>1, Zenon
        <5>. QED
          BY <1>0, <2>7, <4>1, <5>1, Zenon DEF Waits
      <4>2. CASE x # s
        BY <1>0, <2>5, <4>2, Zenon DEF Waits
      <4>. QED
        BY <4>1, <4>2
    <3>. QED
      BY <3>1, <3>2, Zenon DEF Waits
  <2>. QED
    BY <1>1, <2>9, <2>11, <2>12, <2>13, <2>14, <2>15, <2>16, <2>17, <2>18, <2>19, <2>20, CallKeeps, Zenon
<1>. QED
  BY <1>5, <1>6

\* The socket has what the connection received before.
LEMMA AdoptSocketKeeps ==
  ASSUME SocketsInv, AdoptSocket
  PROVE  SocketsInv'
<1>0. /\ SocketTypes /\ ConnsBound /\ SocketsBound /\ OwnerBound /\ EventsBound /\ CountsExact
      /\ Marks /\ Waits /\ ListExact /\ Wakeups
  BY SocketsInvParts, Zenon
<1>1. /\ owner.pc = "adopt" /\ sel' = sel /\ event' = event /\ cbList' = cbList /\ owner \in OwnerRecord
      /\ sock' = [sock EXCEPT ![owner.s] = Adopted(@, nconn[owner.c].socket)]
      /\ nconn' = [nconn EXCEPT ![owner.c].socket = owner.s]
      /\ owner' = [owner EXCEPT !.pc = "idle", !.s = 0, !.c = 0]
  BY <1>0, Zenon DEF AdoptSocket, SocketTypes
<1>2. /\ owner.c \in NConns /\ owner.c # 1 /\ nconn[owner.c].live /\ nconn[owner.c].socket < 0
      /\ owner.s \in Sk /\ sock[owner.s].conn = owner.c /\ sock[owner.s].rcvevent = 0
      /\ \A t \in Selectors : owner.s \notin sel[t].marked
  BY <1>0, <1>1, Zenon DEF OwnerBound
<1>3. PICK s \in Sk, c \in NConns : s = owner.s /\ c = owner.c
  BY <1>2, Zenon
<1>4. /\ c # 1 /\ nconn[c].live /\ nconn[c].socket < 0 /\ sock[s].conn = c /\ sock[s].rcvevent = 0
      /\ \A t \in Selectors : s \notin sel[t].marked
  BY <1>2, <1>3, Zenon
<1>. DEFINE i == sock[s].rcvevent + (-1 - nconn[c].socket)
            k == [sock[s] EXCEPT !.rcvevent = i]
            n == [nconn[c] EXCEPT !.socket = s]
<1>5. sock' = [sock EXCEPT ![s] = k] /\ nconn' = [nconn EXCEPT ![c] = n]
  BY <1>1, <1>3, Zenon DEF Adopted
<1>6. nconn[c].socket \in Int /\ i \in Int /\ i = -1 - nconn[c].socket /\ s \in Int /\ s > 0 /\ s <= NUM_SOCKETS
  <2>1. nconn[c].socket \in Int
    BY <1>0, SocketFields, Zenon
  <2>. QED
    BY <1>4, <2>1, SMT DEF Sk
<1>. HIDE DEF i
<1>7. /\ k \in SockRecord /\ k.conn = c /\ k.rcvevent = i /\ k.select_waiting = sock[s].select_waiting
  <2>1. sock[s] \in SockRecord
    BY <1>0, SocketFields, Zenon
  <2>2. k \in SockRecord
    BY <1>6, <2>1, SockUpdates, Zenon
  <2>3. k.conn = sock[s].conn /\ k.rcvevent = i /\ k.select_waiting = sock[s].select_waiting
    BY <2>1, Zenon DEF SockRecord
  <2>. QED
    BY <1>4, <2>2, <2>3, Zenon
<1>8. /\ n \in ConnRecord /\ n.socket = s /\ n.live = nconn[c].live /\ n.mbox = nconn[c].mbox
  <2>1. nconn[c] \in ConnRecord
    BY <1>0, SocketFields, Zenon
  <2>2. n \in ConnRecord
    BY <1>6, <2>1, ConnUpdates, Zenon
  <2>3. n.socket = s /\ n.live = nconn[c].live /\ n.mbox = nconn[c].mbox
    BY <2>1, Zenon DEF ConnRecord
  <2>. QED
    BY <2>2, <2>3
<1>. HIDE DEF k, n
<1>9. /\ sock' \in [Sk -> SockRecord] /\ sock'[s] = k /\ \A x \in Sk : x # s => sock'[x] = sock[x]
      /\ nconn' \in [NConns -> ConnRecord] /\ nconn'[c] = n /\ \A x \in NConns : x # c => nconn'[x] = nconn[x]
  BY <1>0, <1>5, <1>7, <1>8, Zenon DEF SocketTypes
<1>10. /\ \A x \in Sk : sock'[x].conn = sock[x].conn /\ sock'[x].select_waiting = sock[x].select_waiting
       /\ \A x \in NConns : nconn'[x].mbox = nconn[x].mbox
       /\ \A x \in NConns : nconn'[x].live <=> nconn[x].live
  <2>1. \A x \in Sk : sock'[x].conn = sock[x].conn /\ sock'[x].select_waiting = sock[x].select_waiting
    BY <1>4, <1>7, <1>9, Zenon
  <2>2. \A x \in NConns : nconn'[x].mbox = nconn[x].mbox
    BY <1>8, <1>9, Zenon
  <2>3. \A x \in NConns : nconn'[x].live <=> nconn[x].live
    BY <1>8, <1>9, Zenon
  <2>. QED
    BY <2>1, <2>2, <2>3
<1>11. owner' \in OwnerRecord /\ owner'.pc = "idle"
  BY <1>1, OwnerUpdates, Zenon
<1>12. SocketTypes'
  BY <1>0, <1>1, <1>9, <1>11, Zenon DEF SocketTypes
<1>13. ~(nconn[c].socket > 0)
  BY <1>4, <1>6, SMT
<1>14. ASSUME NEW x \in NConns, nconn[x].socket > 0
       PROVE  x # c /\ nconn'[x] = nconn[x] /\ nconn[x].socket \in Sk /\ nconn[x].socket # s
  <2>1. x # c
    BY <1>13, <1>14, Zenon
  <2>2. nconn[x].socket \in Int /\ nconn[x].socket <= NUM_SOCKETS /\ sock[nconn[x].socket].conn = x
    BY <1>0, <1>14, SocketFields, Zenon DEF ConnsBound
  <2>3. nconn[x].socket \in Sk
    BY <1>14, <2>2, SMT DEF Sk
  <2>4. nconn[x].socket # s
    BY <1>4, <2>1, <2>2, Zenon
  <2>. QED
    BY <1>9, <2>1, <2>3, <2>4, Zenon
<1>15. ConnsBound'
  <2>1. nconn'[1].live /\ nconn'[1].socket = 1
    BY <1>0, <1>4, <1>9, SocketConstants, Zenon DEF ConnsBound
  <2>2. ASSUME NEW x \in NConns
        PROVE  /\ ~nconn'[x].live => nconn'[x] = NoSockConn
               /\ nconn'[x].socket # 0 /\ nconn'[x].socket <= NUM_SOCKETS /\ nconn'[x].mbox <= SockMboxSize
               /\ nconn'[x].socket > 0 => sock'[nconn'[x].socket].conn = x
    <3>1. CASE x = c
      <4>1. nconn'[x].socket = s /\ nconn'[x].live /\ nconn'[x].mbox <= SockMboxSize
        BY <1>0, <1>4, <1>8, <1>9, <3>1, Zenon DEF ConnsBound
      <4>2. s # 0
        BY <1>6, SMT
      <4>. QED
        BY <1>6, <1>7, <1>9, <3>1, <4>1, <4>2, Zenon
    <3>2. CASE x # c
      <4>1. nconn'[x] = nconn[x]
        BY <1>9, <3>2, Zenon
      <4>2. nconn[x].socket > 0 => sock'[nconn[x].socket].conn = x
        BY <1>0, <1>9, <1>14, Zenon DEF ConnsBound
      <4>. QED
        BY <1>0, <4>1, <4>2, Zenon DEF ConnsBound
    <3>. QED
      BY <3>1, <3>2
  <2>. QED
    BY <2>1, <2>2, Zenon DEF ConnsBound
<1>16. SocketsBound'
  <2>1. ASSUME NEW x \in Sk, sock'[x].conn # 0
        PROVE  nconn'[sock'[x].conn].socket = x
    <3>1. sock'[x].conn = sock[x].conn /\ sock[x].conn # 0 /\ sock[x].conn \in NConns
      BY <1>0, <1>10, <2>1, SocketFields, Zenon
    <3>2. nconn[sock[x].conn].socket = x \/ x = s
      BY <1>0, <1>1, <1>3, <3>1, Zenon DEF SocketsBound
    <3>3. CASE x = s
      BY <1>4, <1>8, <1>9, <3>1, <3>3, Zenon
    <3>4. CASE nconn[sock[x].conn].socket = x
      <4>1. x > 0
        BY SMT DEF Sk
      <4>. QED
        BY <1>14, <3>1, <3>4, <4>1, Zenon
    <3>. QED
      BY <3>2, <3>3, <3>4
  <2>. QED
    BY <2>1, Zenon DEF SocketsBound
<1>17. OwnerBound'
  BY <1>11, Zenon DEF OwnerBound
<1>18. EventsBound'
  <2>1. ASSUME NEW u \in Callers, event[u].pc # "idle"
        PROVE  /\ nconn'[event[u].c].live
               /\ nconn[event[u].c].socket > 0 => nconn'[event[u].c].socket > 0
    <3>1. event[u].c \in NConns /\ nconn[event[u].c].live
      BY <1>0, <2>1, Zenon DEF EventsBound
    <3>. QED
      BY <1>10, <1>14, <3>1, Zenon
  <2>2. ASSUME NEW u \in Callers, event'[u].pc # "idle"
        PROVE  /\ event'[u].c \in NConns /\ nconn'[event'[u].c].live
               /\ u = Owner => event'[u].evt = "RCVMINUS" /\ nconn'[event'[u].c].socket > 0
               /\ u = "tcpip" => event'[u].evt \in {"RCVPLUS", "SENDPLUS", "SENDMINUS"}
               /\ event'[u].pc = "loop" =>
                    /\ nconn'[event'[u].c].socket > 0 /\ event'[u].cb >= 1
                    /\ event'[u].stale \/ event'[u].cb <= Len(cbList')
    BY <1>0, <1>1, <2>1, <2>2, Zenon DEF EventsBound
  <2>. QED
    BY <2>2, Zenon DEF EventsBound
<1>19. CountsExact'
  <2>1. ASSUME NEW x \in NConns, nconn'[x].live
        PROVE  Counted(x)' = nconn'[x].mbox - Plus(x)' + Minus(x)'
    <3>1. Plus(x)' = Plus(x) /\ Minus(x)' = Minus(x)
      BY <1>1, Zenon DEF Plus, Minus
    <3>2. Counted(x) = nconn[x].mbox - Plus(x) + Minus(x)
      BY <1>0, <1>10, <2>1, Zenon DEF CountsExact
    <3>3. CASE x = c
      <4>1. Counted(x) = -1 - nconn[x].socket
        BY <1>4, <3>3, Zenon DEF Counted
      <4>2. nconn'[x].socket = s /\ ~(s < 0) /\ sock'[s].rcvevent = i
        <5>1. ~(s < 0)
          BY <1>6, SMT
        <5>. QED
          BY <1>7, <1>8, <1>9, <3>3, <5>1, Zenon
      <4>3. Counted(x)' = i
        BY <4>2, Zenon DEF Counted
      <4>. QED
        BY <1>6, <1>10, <3>1, <3>2, <3>3, <4>1, <4>3, Zenon
    <3>4. CASE x # c
      <4>0. nconn'[x] = nconn[x]
        BY <1>9, <3>4, Zenon
      <4>1. CASE nconn[x].socket < 0
        <5>1. Counted(x)' = Counted(x)
          BY <4>0, <4>1, Zenon DEF Counted
        <5>. QED
          BY <3>1, <3>2, <4>0, <5>1, Zenon
      <4>2. CASE ~(nconn[x].socket < 0)
        <5>1. nconn[x].socket > 0
          <6>1. nconn[x].socket # 0 /\ nconn[x].socket \in Int
            BY <1>0, SocketFields, Zenon DEF ConnsBound
          <6>. QED
            BY <4>2, <6>1, SMT
        <5>2. sock'[nconn[x].socket] = sock[nconn[x].socket]
          BY <1>9, <1>14, <5>1, Zenon
        <5>3. Counted(x)' = Counted(x)
          BY <4>0, <4>2, <5>2, SMT DEF Counted
        <5>. QED
          BY <3>1, <3>2, <4>0, <5>3, Zenon
      <4>. QED
        BY <4>1, <4>2
    <3>. QED
      BY <3>3, <3>4
  <2>2. i \in -1..(SockMboxSize + 1)
    <3>1. i = nconn[c].mbox - Plus(c) + Minus(c)
      <4>1. Counted(c) = -1 - nconn[c].socket
        BY <1>4, Zenon DEF Counted
      <4>2. Counted(c) = nconn[c].mbox - Plus(c) + Minus(c)
        BY <1>0, <1>4, Zenon DEF CountsExact
      <4>. QED
        BY <1>6, <4>1, <4>2, Zenon
    <3>2. Plus(c) \in {0, 1} /\ Minus(c) \in {0, 1}
      BY Zenon DEF Plus, Minus
    <3>3. nconn[c].mbox \in Nat /\ nconn[c].mbox <= SockMboxSize /\ SockMboxSize \in Nat
      BY <1>0, SocketFields, SocketConstants, Zenon DEF ConnsBound
    <3>. QED
      BY <3>1, <3>2, <3>3, SMT
  <2>3. \A x \in Sk : sock'[x].rcvevent \in -1..(SockMboxSize + 1)
    BY <1>0, <1>7, <1>9, <2>2, Zenon DEF CountsExact
  <2>. QED
    BY <2>1, <2>3, Zenon DEF CountsExact
<1>20. MarkedStay
  BY <1>4, <1>9, Zenon DEF MarkedStay
<1>21. GoneStay
  BY <1>10, Zenon DEF GoneStay
<1>22. KnownStay
  <2>1. ASSUME NEW x \in Sk, Known(x) PROVE Known(x)'
    <3>1. sock[x].conn # 0 /\ nconn[sock[x].conn].socket = x /\ sock[x].conn \in NConns
      BY <1>0, <2>1, SocketFields, Zenon DEF Known
    <3>2. x > 0
      BY SMT DEF Sk
    <3>3. nconn'[sock[x].conn] = nconn[sock[x].conn]
      BY <1>14, <3>1, <3>2, Zenon
    <3>. QED
      BY <1>10, <3>1, <3>3, Zenon DEF Known
  <2>. QED
    BY <2>1, Zenon DEF KnownStay
<1>23. LoopsStay
  <2>1. ASSUME NEW u \in Callers, event[u].pc = "loop"
        PROVE  nconn'[event[u].c].socket = nconn[event[u].c].socket
    <3>1. event[u].pc # "idle"
      BY <2>1, Zenon
    <3>2. event[u].c \in NConns /\ nconn[event[u].c].socket > 0
      BY <1>0, <2>1, <3>1, Zenon DEF EventsBound
    <3>. QED
      BY <1>14, <3>2, Zenon
  <2>. QED
    BY <1>1, <2>1, Zenon DEF LoopsStay
<1>24. Waits'
  <2>1. SameSelects
    BY <1>1, Zenon DEF SameSelects
  <2>2. WaitsStay
    BY <1>10, Zenon DEF WaitsStay
  <2>. QED
    BY <1>0, <2>1, <2>2, WaitsKept, Zenon
<1>. QED
  BY <1>1, <1>12, <1>15, <1>16, <1>17, <1>18, <1>19, <1>20, <1>21, <1>22, <1>23, <1>24, CallKeeps, Zenon

\* A step that changes nothing.
LEMMA SocketsStutter ==
  ASSUME SocketsInv, UNCHANGED sockVars
  PROVE  SocketsInv'
<1>0. /\ SocketTypes /\ ConnsBound /\ SocketsBound /\ OwnerBound /\ EventsBound /\ CountsExact
      /\ Marks /\ Waits /\ ListExact /\ Wakeups
  BY SocketsInvParts, Zenon
<1>1. sock' = sock /\ nconn' = nconn /\ sel' = sel /\ owner' = owner /\ event' = event /\ cbList' = cbList
  BY Zenon DEF sockVars
<1>2. SocketTypes'
  BY <1>0, <1>1, Zenon DEF SocketTypes
<1>3. ConnsStay
  BY <1>0, <1>1, Zenon DEF ConnsStay, OwnerBound
<1>4. ConnsBound' /\ SocketsBound' /\ OwnerBound' /\ CountsExact'
  BY <1>0, <1>3, ConnsKept, Zenon
<1>5. EventsBound'
  BY <1>0, <1>1, Zenon DEF EventsBound
<1>6. MarkedStay /\ GoneStay /\ LoopsStay
  BY <1>1, Zenon DEF MarkedStay, GoneStay, LoopsStay
<1>7. KnownStay
  BY <1>1, Zenon DEF KnownStay, Known
<1>8. SameSelects /\ WaitsStay
  BY <1>1, Zenon DEF SameSelects, WaitsStay
<1>9. Waits'
  BY <1>0, <1>8, WaitsKept, Zenon
<1>. QED
  BY <1>1, <1>2, <1>4, <1>5, <1>6, <1>7, <1>9, CallKeeps, Zenon

\* The invariant is kept by every step.
LEMMA SocketsInvNext == SocketsInv /\ [SocketsNext]_sockVars => SocketsInv'
<1>. SUFFICES ASSUME SocketsInv, [SocketsNext]_sockVars PROVE SocketsInv'
  OBVIOUS
<1>1. ASSUME NEW t \in Callers, EventBefore(t) \/ EventUpdate(t) \/ EventLoop(t) PROVE SocketsInv'
  BY <1>1, EventBeforeKeeps, EventUpdateKeeps, EventLoopKeeps, Zenon
<1>2. ASSUME NEW t \in Selectors, \E want \in Interests : Select(t, want) PROVE SocketsInv'
  BY <1>2, SelectKeeps, Zenon
<1>3. ASSUME NEW t \in Selectors,
             \/ FirstScan(t) \/ Scan(t) \/ LastScan(t) \/ Poll(t) \/ Register(t) \/ Mark(t) \/ Unmark(t) \/ Unregister(t)
      PROVE  SocketsInv'
  BY <1>3, FirstScanKeeps, ScanKeeps, LastScanKeeps, RegisterKeeps, MarkKeeps, UnmarkKeeps, UnregisterKeeps, Zenon
<1>4. ASSUME NEW t \in Selectors, \E timeout \in BOOLEAN : Wake(t, timeout) PROVE SocketsInv'
  BY <1>4, WakeKeeps, Zenon
<1>5. ASSUME NEW c \in NConns, Accept(c) \/ Connection(c) \/ SockData(c) PROVE SocketsInv'
  BY <1>5, AcceptKeeps, ConnectionKeeps, SockDataKeeps, Zenon
<1>6. ASSUME AllocSocket \/ AdoptSocket \/ FreeSocket PROVE SocketsInv'
  BY <1>6, AllocSocketKeeps, AdoptSocketKeeps, FreeSocketKeeps, Zenon
<1>7. ASSUME NEW s \in Sk, SockClose(s) \/ \E part \in BOOLEAN : SockRecv(s, part) PROVE SocketsInv'
  BY <1>7, SockCloseKeeps, SockRecvKeeps, Zenon
<1>8. ASSUME NEW c \in NConns, NEW evt \in {"SENDPLUS", "SENDMINUS"}, SendBuffer(c, evt) PROVE SocketsInv'
  BY <1>8, SendBufferKeeps, Zenon
<1>9. ASSUME UNCHANGED sockVars PROVE SocketsInv'
  BY <1>9, SocketsStutter, Zenon
<1>. QED
  BY <1>1, <1>2, <1>3, <1>4, <1>5, <1>6, <1>7, <1>8, <1>9, Zenon DEF SocketsNext

\* select of api/sockets.c, for every number of sockets, connections and threads that select: the counts
\* of events and of waits are exact, a thread that sleeps in lwip_select is not missed by event_callback,
\* and event_callback goes on only from entries that are in select_cb_list.
THEOREM SelectIsSound == SocketsSpec => []SelectSound
<1>1. SocketsInit => SocketsInv
  BY SocketsInvInit
<1>2. SocketsInv /\ [SocketsNext]_sockVars => SocketsInv'
  BY SocketsInvNext
<1>3. SocketsInv => SelectSound
  BY SocketsInvSound
<1>. QED
  BY <1>1, <1>2, <1>3, PTL DEF SocketsSpec
=============================================================================
