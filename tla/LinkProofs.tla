----------------------------- MODULE LinkProofs -----------------------------
(***************************************************************************)
(* Proofs about the link layer: the ARP cache of lwIP and the transmit side *)
(* of the Ethernet driver.                                                 *)
(***************************************************************************)
EXTENDS Etharp, EnetTx, FiniteSetTheorems, WellFoundedInduction, TLAPS

-----------------------------------------------------------------------------
(* Extreme elements.                                                       *)

\* A set of numbers has a least element.
LEMMA SmallestExists ==
  ASSUME NEW S \in SUBSET Nat, S # {}
  PROVE  \E x \in S : \A y \in S : x <= y
<1>1. PICK x \in S : \A y \in S : ~(<<y, x>> \in OpToRel(<, Nat))
  BY NatLessThanWellFounded, WFMin
<1>2. \A y \in S : <<y, x>> \in OpToRel(<, Nat) <=> y < x
  BY DEF OpToRel
<1>3. \A y \in S : ~(y < x)
  BY <1>1, <1>2, Zenon
<1>4. \A y \in S : y \in Nat /\ x \in Nat
  OBVIOUS
<1>. QED
  BY <1>3, <1>4

\* A bounded set of numbers has a greatest element.
LEMMA LargestExists ==
  ASSUME NEW n \in Nat, NEW S \in SUBSET (0..n), S # {}
  PROVE  \E x \in S : \A y \in S : y <= x
<1>. DEFINE D == {n - x : x \in S}
<1>1. D \in SUBSET Nat
  OBVIOUS
<1>2. D # {}
  <2>1. PICK x : x \in S
    OBVIOUS
  <2>. QED
    BY <2>1
<1>3. PICK d \in D : \A e \in D : d <= e
  BY <1>1, <1>2, SmallestExists
<1>4. PICK x \in S : d = n - x
  OBVIOUS
<1>5. \A y \in S : n - y \in D /\ y \in Nat /\ x \in Nat
  OBVIOUS
<1>. HIDE DEF D
<1>6. ASSUME NEW y \in S
      PROVE  y <= x
  <2>1. n - x <= n - y
    BY <1>3, <1>4, <1>5
  <2>. QED
    BY <1>5, <2>1
<1>. QED
  BY <1>6

-----------------------------------------------------------------------------
(* The ARP cache.                                                          *)

Entry == [state : Stable \cup {"empty", "pending"}, ip : ArpHosts \cup {NoHost},
          mac : BOOLEAN, ctime : 0..(ARP_MAXAGE - 1), q : BOOLEAN]

\* An entry that is in use has an address, an address has one entry, and a packet waits only in an
\* entry that is not resolved.
TableOK(t) ==
  /\ t \in [Slots -> Entry]
  /\ \A i \in Slots : t[i].state = "empty" <=> t[i].ip = NoHost
  /\ \A i \in Slots : t[i].q => t[i].state = "pending"
  /\ \A i, j \in Slots : t[i].ip = t[j].ip /\ t[i].ip # NoHost => i = j

\* An entry with the old hardware address of a host that has moved is at least as old as the move.
OldEntriesAge(t, m) ==
  \A i \in Slots : t[i].state \in Stable /\ t[i].ip = m.host /\ ~t[i].mac => m.ticks <= t[i].ctime

ArpInv ==
  /\ TableOK(arp_table)
  /\ etharp_cached_entry \in Slots
  /\ moved \in [host : ArpHosts \cup {NoHost}, ticks : 0..(ARP_MAXAGE + 1)]
  /\ arpPbufs = Waiting(arp_table)
  /\ OldEntriesAge(arp_table, moved)

\* The packets of a table can be counted.
LEMMA WaitingIsNat ==
  ASSUME NEW t
  PROVE  Waiting(t) \in Nat /\ IsFiniteSet({i \in Slots : t[i].q})
<1>1. IsFiniteSet(Slots)
  BY FS_Interval, EtharpAssumption DEF Slots
<1>2. {i \in Slots : t[i].q} \in SUBSET Slots
  OBVIOUS
<1>3. IsFiniteSet({i \in Slots : t[i].q})
  BY <1>1, <1>2, FS_Subset
<1>. QED
  BY <1>3, FS_CardinalityType DEF Waiting

\* The first entry of a set is one of the set.
LEMMA FirstIsMember ==
  ASSUME NEW S \in SUBSET Slots, S # {}
  PROVE  First(S) \in S
<1>1. S \in SUBSET Nat
  BY EtharpAssumption DEF Slots
<1>. QED
  BY <1>1, SmallestExists DEF First

\* The oldest entry of a set is one of the set.
LEMMA OldestIsMember ==
  ASSUME NEW t \in [Slots -> Entry], NEW S \in SUBSET Slots, S # {}
  PROVE  Oldest(t, S) \in S
<1>. DEFINE Ages == {t[i].ctime : i \in S}
<1>1. Ages \in SUBSET (0..ARP_MAXAGE) /\ Ages # {}
  <2>1. \A i \in S : t[i].ctime \in 0..ARP_MAXAGE
    <3>1. \A i \in S : t[i] \in Entry
      OBVIOUS
    <3>. QED
      BY <3>1, EtharpAssumption DEF Entry
  <2>2. PICK i : i \in S
    OBVIOUS
  <2>3. t[i].ctime \in Ages
    BY <2>2
  <2>. QED
    BY <2>1, <2>3
<1>2. PICK a \in Ages : \A b \in Ages : b <= a
  BY <1>1, LargestExists, EtharpAssumption
<1>. DEFINE O == {i \in S : t[i].ctime = a}
<1>3. O \in SUBSET (0..ARP_TABLE_SIZE) /\ O # {}
  <2>1. \A i \in S : i \in 0..ARP_TABLE_SIZE
    BY EtharpAssumption DEF Slots
  <2>2. PICK i \in S : t[i].ctime = a
    OBVIOUS
  <2>. QED
    BY <2>1, <2>2
<1>4. PICK i \in O : \A j \in O : j <= i
  BY <1>3, LargestExists, EtharpAssumption
<1>5. \A j \in S : t[j].ctime \in Nat /\ t[j].ctime <= a /\ a \in Nat
  BY <1>1, <1>2
<1>6. \A j \in S : t[j].ctime < t[i].ctime \/ (t[j].ctime = t[i].ctime /\ j <= i)
  BY <1>4, <1>5
<1>. QED
  BY <1>6 DEF Oldest

\* An entry that etharp_free_entry leaves.
LEMMA EmptyEntryFields ==
  /\ EmptyEntry \in Entry
  /\ EmptyEntry.state = "empty" /\ EmptyEntry.ip = NoHost /\ ~EmptyEntry.q
  BY EtharpAssumption DEF EmptyEntry, Entry

\* etharp_find_entry: the slot it returns is that of the address, found or prepared; all others
\* are as they were and have other addresses.
LEMMA FindEntryFinds ==
  ASSUME NEW t, TableOK(t), NEW h \in ArpHosts, NEW flag
  PROVE  LET f == etharp_find_entry(t, h, flag)
         IN \/ f.slot = 0 /\ f.table = t /\ flag = "FIND_ONLY"
            \/ /\ f.slot \in Slots
               /\ \A j \in Slots : j # f.slot => t[j].ip # h
               /\ \/ f.table = t /\ t[f.slot].ip = h /\ t[f.slot].state # "empty"
                  \/ /\ f.table \in [Slots -> Entry]
                     /\ f.table[f.slot].state = "empty" /\ f.table[f.slot].ip = h /\ ~f.table[f.slot].q
                     /\ \A j \in Slots : j # f.slot => f.table[j] = t[j]
<1>. DEFINE f == etharp_find_entry(t, h, flag)
            new(i) == [slot |-> i, table |-> [FreeEntry(t, i) EXCEPT ![i].ip = h]]
<1>1. CASE Matching(t, h) # {}
  <2>1. f = [slot |-> First(Matching(t, h)), table |-> t]
    BY <1>1 DEF etharp_find_entry
  <2>2. First(Matching(t, h)) \in Matching(t, h)
    BY <1>1, FirstIsMember DEF Matching
  <2>. HIDE DEF f
  <2>3. f.slot \in Slots /\ t[f.slot].ip = h /\ t[f.slot].state # "empty" /\ f.table = t
    BY <2>1, <2>2 DEF Matching
  <2>4. \A j \in Slots : j # f.slot => t[j].ip # h
    BY <2>3, EtharpAssumption DEF TableOK
  <2>. QED
    BY <2>3, <2>4 DEF f
<1>2. CASE Matching(t, h) = {} /\ flag = "FIND_ONLY"
  BY <1>2 DEF etharp_find_entry
<1>3. CASE Matching(t, h) = {} /\ flag # "FIND_ONLY"
  <2>1. \A j \in Slots : t[j].ip # h
    BY <1>3, EtharpAssumption DEF Matching, TableOK
  <2>2. PICK i \in Slots : f = new(i)
    <3>1. CASE Empties(t) # {}
      BY <1>3, <3>1, FirstIsMember DEF etharp_find_entry, Empties
    <3>2. CASE Empties(t) = {}
      <4>1. Recyclable(t) \in SUBSET Slots /\ Recyclable(t) # {}
        BY EtharpAssumption DEF Recyclable, Slots
      <4>2. Oldest(t, Recyclable(t)) \in Slots
        BY <4>1, OldestIsMember DEF TableOK
      <4>. QED
        BY <1>3, <3>2, <4>2 DEF etharp_find_entry
    <3>. QED
      BY <3>1, <3>2
  <2>. DEFINE g == FreeEntry(t, i)
              u == [g EXCEPT ![i].ip = h]
  <2>3. g \in [Slots -> Entry] /\ g[i] = EmptyEntry /\ \A j \in Slots : j # i => g[j] = t[j]
    BY EmptyEntryFields DEF FreeEntry, TableOK
  <2>4. u[i] = [EmptyEntry EXCEPT !.ip = h] /\ \A j \in Slots : j # i => u[j] = g[j]
    BY <2>3
  <2>5. u[i] \in Entry /\ u[i].state = "empty" /\ u[i].ip = h /\ ~u[i].q
    BY <2>4, EmptyEntryFields DEF Entry
  <2>6. u \in [Slots -> Entry]
    BY <2>3, <2>4, <2>5
  <2>7. f.slot = i /\ f.table = u
    BY <2>2
  <2>. HIDE DEF f, u, g
  <2>. QED
    BY <2>1, <2>3, <2>4, <2>5, <2>6, <2>7 DEF f
<1>. QED
  BY <1>1, <1>2, <1>3

\* Every table that replaces the old one with its packets settled has all its packets counted.
LEMMA SettleCounts ==
  ASSUME NEW t, arpPbufs = Waiting(arp_table), Settle(t)
  PROVE  arp_table' = t /\ arpPbufs' = Waiting(arp_table')
<1>1. arp_table' = t
  BY DEF Settle
<1>2. Waiting(arp_table)' = Waiting(t)
  BY <1>1 DEF Waiting, Slots
<1>3. Waiting(arp_table) \in Nat /\ Waiting(t) \in Nat
  BY WaitingIsNat
<1>. QED
  BY <1>1, <1>2, <1>3 DEF Settle

\* One turn of the timer: an entry grows older, changes between the resolved states or is freed.
LEMMA AgeKeepsEntry ==
  ASSUME NEW e \in Entry, e.state = "empty" <=> e.ip = NoHost, e.q => e.state = "pending"
  PROVE  /\ Age(e) \in Entry
         /\ Age(e).state = "empty" <=> Age(e).ip = NoHost
         /\ Age(e).q => Age(e).state = "pending"
         /\ Age(e).ip \in {e.ip, NoHost}
         /\ Age(e).state \in Stable =>
              e.state \in Stable /\ Age(e).mac = e.mac /\ Age(e).ctime = e.ctime + 1
<1>. DEFINE old == [e EXCEPT !.ctime = e.ctime + 1]
<1>0. e.ctime \in Nat /\ e.ctime < ARP_MAXAGE /\ ARP_MAXAGE \in Nat
  BY EtharpAssumption DEF Entry
<1>1. /\ old.ctime = e.ctime + 1 /\ old.state = e.state /\ old.ip = e.ip /\ old.mac = e.mac /\ old.q = e.q
      /\ old \in [state : Stable \cup {"empty", "pending"}, ip : ArpHosts \cup {NoHost},
                  mac : BOOLEAN, ctime : Nat, q : BOOLEAN]
  BY <1>0 DEF Entry
<1>2. ~Expired(old) => old \in Entry
  BY <1>0, <1>1 DEF Expired, Entry
<1>. DEFINE a == Age(e)
<1>3. CASE e.state = "empty"
  <2>1. a = e
    BY <1>3 DEF Age
  <2>. QED
    BY <1>3, <2>1 DEF Stable
<1>4. CASE e.state # "empty" /\ Expired(old)
  <2>1. a = EmptyEntry
    BY <1>4 DEF Age
  <2>. QED
    BY <2>1, EmptyEntryFields DEF Stable
<1>5. CASE e.state = "rerequesting1" /\ ~Expired(old)
  <2>1. a = [old EXCEPT !.state = "rerequesting2"]
    BY <1>5 DEF Age
  <2>. HIDE DEF old, a
  <2>2. /\ a \in Entry /\ a.state = "rerequesting2" /\ a.ip = old.ip /\ a.mac = old.mac /\ a.q = old.q
        /\ a.ctime = old.ctime
    BY <2>1, <1>2, <1>5 DEF Entry, Stable
  <2>. QED
    BY <2>2, <1>1, <1>5 DEF Stable, a
<1>6. CASE e.state = "rerequesting2" /\ ~Expired(old)
  <2>1. a = [old EXCEPT !.state = "stable"]
    BY <1>6 DEF Age
  <2>. HIDE DEF old, a
  <2>2. /\ a \in Entry /\ a.state = "stable" /\ a.ip = old.ip /\ a.mac = old.mac /\ a.q = old.q
        /\ a.ctime = old.ctime
    BY <2>1, <1>2, <1>6 DEF Entry, Stable
  <2>. QED
    BY <2>2, <1>1, <1>6 DEF Stable, a
<1>7. CASE e.state \notin {"empty", "rerequesting1", "rerequesting2"} /\ ~Expired(old)
  <2>1. a = old
    BY <1>7 DEF Age
  <2>. HIDE DEF old, a
  <2>. QED
    BY <2>1, <1>1, <1>2, <1>7 DEF a
<1>. QED
  BY <1>3, <1>4, <1>5, <1>6, <1>7

\* The timer keeps the table in order; what it leaves resolved has grown older by a tick.
LEMMA TimerKeepsInv ==
  ASSUME ArpInv, etharp_tmr
  PROVE  ArpInv'
<1>. DEFINE t == [i \in Slots |-> Age(arp_table[i])]
<1>1. arp_table' = t /\ arpPbufs' = Waiting(arp_table')
  BY SettleCounts DEF ArpInv, etharp_tmr
<1>2. \A i \in Slots : /\ arp_table[i] \in Entry
                       /\ arp_table[i].state = "empty" <=> arp_table[i].ip = NoHost
                       /\ arp_table[i].q => arp_table[i].state = "pending"
  BY DEF ArpInv, TableOK
<1>3. \A i \in Slots :
         /\ t[i] \in Entry
         /\ t[i].state = "empty" <=> t[i].ip = NoHost
         /\ t[i].q => t[i].state = "pending"
         /\ t[i].ip \in {arp_table[i].ip, NoHost}
         /\ t[i].state \in Stable => /\ arp_table[i].state \in Stable /\ t[i].mac = arp_table[i].mac
                                     /\ t[i].ctime = arp_table[i].ctime + 1
  BY <1>2, AgeKeepsEntry
<1>. HIDE DEF t
<1>4. TableOK(t)
  <2>1. t \in [Slots -> Entry]
    BY <1>3 DEF t
  <2>2. \A i, j \in Slots : t[i].ip = t[j].ip /\ t[i].ip # NoHost => i = j
    BY <1>3 DEF ArpInv, TableOK
  <2>. QED
    BY <1>3, <2>1, <2>2 DEF TableOK
<1>5. /\ moved' \in [host : ArpHosts \cup {NoHost}, ticks : 0..(ARP_MAXAGE + 1)]
      /\ moved'.host = moved.host /\ moved'.ticks <= moved.ticks + 1
  BY EtharpAssumption DEF ArpInv, etharp_tmr
<1>6. OldEntriesAge(t, moved')
  <2>. SUFFICES ASSUME NEW i \in Slots, t[i].state \in Stable, t[i].ip = moved'.host, ~t[i].mac
                PROVE  moved'.ticks <= t[i].ctime
    BY DEF OldEntriesAge
  <2>1. arp_table[i].state \in Stable /\ ~arp_table[i].mac /\ t[i].ctime = arp_table[i].ctime + 1
    BY <1>3
  <2>2. t[i].ip = arp_table[i].ip
    BY <1>3 DEF Stable
  <2>3. moved.ticks <= arp_table[i].ctime
    BY <2>1, <2>2, <1>5 DEF ArpInv, OldEntriesAge
  <2>4. moved.ticks \in Nat /\ moved'.ticks \in Nat /\ arp_table[i].ctime \in Nat
    BY <1>2, <1>5, EtharpAssumption DEF ArpInv, Entry
  <2>. QED
    BY <2>1, <2>3, <2>4, <1>5
<1>. QED
  BY <1>1, <1>4, <1>5, <1>6 DEF ArpInv, etharp_tmr

\* A packet of host h: its entry is resolved with the address it has now, wherever the entry comes
\* from, and all others stay.
LEMMA InputKeepsInv ==
  ASSUME ArpInv, NEW h \in ArpHosts, NEW b \in BOOLEAN, etharp_input(h, b)
  PROVE  ArpInv'
<1>. DEFINE flag == IF b THEN "TRY_HARD" ELSE "FIND_ONLY"
            f == etharp_find_entry(arp_table, h, flag)
            new == [state |-> "stable", ip |-> h, mac |-> h = moved.host, ctime |-> 0, q |-> FALSE]
            t == etharp_update_arp_entry(arp_table, h, h = moved.host, flag)
<1>1. arp_table' = t /\ arpPbufs' = Waiting(arp_table')
  BY SettleCounts DEF ArpInv, etharp_input
<1>2. moved' = moved /\ etharp_cached_entry' = etharp_cached_entry
  BY DEF etharp_input
<1>3. TableOK(arp_table)
  BY DEF ArpInv
<1>4. \/ f.slot = 0 /\ f.table = arp_table
      \/ /\ f.slot \in Slots
         /\ \A j \in Slots : j # f.slot => arp_table[j].ip # h
         /\ f.table \in [Slots -> Entry]
         /\ \A j \in Slots : j # f.slot => f.table[j] = arp_table[j]
  BY <1>3, FindEntryFinds DEF TableOK
<1>5. t = IF f.slot = 0 THEN arp_table ELSE [f.table EXCEPT ![f.slot] = new]
  BY DEF etharp_update_arp_entry
<1>6. new \in Entry
  BY EtharpAssumption DEF Entry, Stable
<1>. HIDE DEF f, t
<1>7. CASE f.slot = 0
  BY <1>1, <1>2, <1>5, <1>7 DEF ArpInv
<1>8. CASE f.slot # 0
  <2>1. t[f.slot] = new /\ f.slot \in Slots /\ t \in [Slots -> Entry]
    BY <1>4, <1>5, <1>6, <1>8
  <2>2. \A j \in Slots : j # f.slot => t[j] = arp_table[j] /\ t[j].ip # h
    BY <1>4, <1>5, <1>8
  <2>3. /\ t[f.slot].state = "stable" /\ t[f.slot].ip = h /\ ~t[f.slot].q
        /\ t[f.slot].mac = (h = moved.host)
    BY <2>1
  <2>4. TableOK(t)
    <3>1. \A i \in Slots : t[i].state = "empty" <=> t[i].ip = NoHost
      BY <2>2, <2>3, <1>3, EtharpAssumption DEF TableOK
    <3>2. \A i \in Slots : t[i].q => t[i].state = "pending"
      BY <2>2, <2>3, <1>3 DEF TableOK
    <3>3. \A i, j \in Slots : t[i].ip = t[j].ip /\ t[i].ip # NoHost => i = j
      BY <2>2, <2>3, <1>3 DEF TableOK
    <3>. QED
      BY <2>1, <3>1, <3>2, <3>3 DEF TableOK
  <2>5. OldEntriesAge(t, moved)
    BY <2>2, <2>3 DEF ArpInv, OldEntriesAge
  <2>. QED
    BY <1>1, <1>2, <2>4, <2>5 DEF ArpInv
<1>. QED
  BY <1>7, <1>8

\* etharp_query: an entry for the address, resolved or pending, that keeps the packet while it is
\* pending; the packet that was there before is counted out.
LEMMA QueryKeepsInv ==
  ASSUME ArpInv, NEW h \in ArpHosts, NEW packet \in BOOLEAN, NEW mem \in BOOLEAN, Query(h, packet, mem)
  PROVE  ArpInv'
<1>. DEFINE f == etharp_find_entry(arp_table, h, "TRY_HARD")
            fresh == f.table[f.slot].state = "empty"
            t == IF fresh THEN [f.table EXCEPT ![f.slot].state = "pending"] ELSE f.table
            keeps == packet /\ mem /\ t[f.slot].state = "pending"
            replaced == IF t[f.slot].q THEN 1 ELSE 0
            u == IF keeps THEN [t EXCEPT ![f.slot].q = TRUE] ELSE t
<1>1. /\ arp_table' = u
      /\ arpPbufs' = arpPbufs - (Waiting(arp_table) - Waiting(t)) + (IF keeps THEN 1 - replaced ELSE 0)
      /\ etharp_cached_entry' = IF packet /\ t[f.slot].state \in Stable THEN f.slot ELSE etharp_cached_entry
      /\ moved' = moved
  BY DEF Query
<1>2. TableOK(arp_table)
  BY DEF ArpInv
<1>3. /\ f.slot \in Slots
      /\ \A j \in Slots : j # f.slot => arp_table[j].ip # h
      /\ \/ f.table = arp_table /\ arp_table[f.slot].ip = h /\ arp_table[f.slot].state # "empty"
         \/ /\ f.table \in [Slots -> Entry]
            /\ f.table[f.slot].state = "empty" /\ f.table[f.slot].ip = h /\ ~f.table[f.slot].q
            /\ \A j \in Slots : j # f.slot => f.table[j] = arp_table[j]
  BY <1>2, FindEntryFinds
<1>. HIDE DEF f
<1>4. /\ t \in [Slots -> Entry] /\ t[f.slot].ip = h
      /\ \A j \in Slots : j # f.slot => t[j] = arp_table[j]
      /\ \/ t = arp_table /\ t[f.slot].state # "empty"
         \/ t[f.slot].state = "pending" /\ ~t[f.slot].q
  <2>1. CASE fresh
    <3>1. f.table \in [Slots -> Entry] /\ ~f.table[f.slot].q /\ f.table[f.slot].ip = h
      BY <1>2, <1>3, <2>1 DEF TableOK
    <3>2. \A j \in Slots : j # f.slot => f.table[j] = arp_table[j]
      BY <1>3
    <3>3. t[f.slot] = [f.table[f.slot] EXCEPT !.state = "pending"] /\ \A j \in Slots : j # f.slot => t[j] = f.table[j]
      BY <1>3, <2>1, <3>1
    <3>4. f.table[f.slot] \in Entry
      BY <1>3, <3>1
    <3>5. t[f.slot] \in Entry /\ t[f.slot].state = "pending" /\ ~t[f.slot].q /\ t[f.slot].ip = h
      BY <3>1, <3>3, <3>4 DEF Entry
    <3>6. t \in [Slots -> Entry]
      BY <1>3, <2>1, <3>1, <3>5
    <3>. HIDE DEF t
    <3>. QED
      BY <3>2, <3>3, <3>5, <3>6
  <2>2. CASE ~fresh
    BY <1>2, <1>3, <2>2 DEF TableOK
  <2>. QED
    BY <2>1, <2>2
<1>. HIDE DEF t
<1>5. TableOK(t)
  <2>1. \A i \in Slots : t[i].state = "empty" <=> t[i].ip = NoHost
    BY <1>2, <1>4, EtharpAssumption DEF TableOK
  <2>2. \A i \in Slots : t[i].q => t[i].state = "pending"
    BY <1>2, <1>4 DEF TableOK
  <2>3. \A i, j \in Slots : t[i].ip = t[j].ip /\ t[i].ip # NoHost => i = j
    BY <1>2, <1>3, <1>4 DEF TableOK
  <2>. QED
    BY <1>4, <2>1, <2>2, <2>3 DEF TableOK
<1>6. OldEntriesAge(t, moved)
  BY <1>3, <1>4 DEF ArpInv, OldEntriesAge, Stable
<1>7. Waiting(t) \in Nat /\ Waiting(arp_table) \in Nat /\ IsFiniteSet({i \in Slots : t[i].q})
  BY WaitingIsNat
<1>8. etharp_cached_entry' \in Slots
  BY <1>1, <1>3 DEF ArpInv
<1>9. CASE ~keeps
  <2>1. arp_table' = t /\ arpPbufs' = Waiting(t)
    BY <1>1, <1>7, <1>9 DEF ArpInv
  <2>. HIDE DEF keeps, replaced
  <2>. QED
    BY <1>1, <1>5, <1>6, <1>8, <2>1 DEF ArpInv
<1>10. CASE keeps
  <2>1. u = [t EXCEPT ![f.slot].q = TRUE] /\ t[f.slot].state = "pending"
    BY <1>10
  <2>2. arpPbufs' = Waiting(t) + (1 - replaced)
    BY <1>1, <1>7, <1>10 DEF ArpInv
  <2>. HIDE DEF u, keeps
  <2>3. t[f.slot] \in Entry
    BY <1>3, <1>4
  <2>4. u[f.slot] = [t[f.slot] EXCEPT !.q = TRUE]
    BY <1>3, <1>4, <2>1
  <2>5. u[f.slot] \in Entry /\ u[f.slot].q /\ u[f.slot].state = "pending" /\ u[f.slot].ip = h
    <3>1. t[f.slot].state = "pending" /\ t[f.slot].ip = h
      BY <1>4, <2>1
    <3>2. u[f.slot].q = TRUE /\ u[f.slot].state = t[f.slot].state /\ u[f.slot].ip = t[f.slot].ip
      BY <2>3, <2>4 DEF Entry
    <3>3. u[f.slot] \in Entry
      BY <2>3, <2>4 DEF Entry
    <3>. QED
      BY <3>1, <3>2, <3>3
  <2>10. \A j \in Slots : j # f.slot => u[j] = t[j]
    BY <1>4, <2>1
  <2>11. u \in [Slots -> Entry]
    BY <1>3, <1>4, <2>1, <2>5
  <2>6. TableOK(u)
    <3>1. \A i \in Slots : u[i].state = "empty" <=> u[i].ip = NoHost
      BY <1>5, <2>5, <2>10, EtharpAssumption DEF TableOK
    <3>2. \A i \in Slots : u[i].q => u[i].state = "pending"
      BY <1>5, <2>5, <2>10 DEF TableOK
    <3>3. \A i \in Slots : u[i].ip = t[i].ip
      BY <1>4, <2>5, <2>10
    <3>. QED
      BY <1>5, <2>11, <3>1, <3>2, <3>3 DEF TableOK
  <2>7. OldEntriesAge(u, moved)
    BY <1>6, <2>5, <2>10 DEF OldEntriesAge, Stable
  <2>8. Waiting(u) = Waiting(t) + (1 - replaced)
    <3>. DEFINE A == {i \in Slots : t[i].q}
    <3>1. {i \in Slots : u[i].q} = A \cup {f.slot}
      BY <1>3, <2>5, <2>10
    <3>2. Cardinality(A \cup {f.slot}) = IF f.slot \in A THEN Cardinality(A) ELSE Cardinality(A) + 1
      BY <1>7, FS_AddElement
    <3>3. f.slot \in A <=> t[f.slot].q
      BY <1>3
    <3>4. Waiting(t) = Cardinality(A) /\ Waiting(u) = Cardinality(A \cup {f.slot})
      BY <3>1 DEF Waiting
    <3>. HIDE DEF A
    <3>. QED
      BY <3>2, <3>3, <3>4, <1>7
  <2>9. Waiting(arp_table)' = Waiting(u)
    BY <1>1 DEF Waiting, Slots
  <2>. QED
    BY <1>1, <1>8, <2>2, <2>6, <2>7, <2>8, <2>9 DEF ArpInv
<1>. QED
  BY <1>9, <1>10

\* A packet by a resolved entry changes at most the state of that entry, among the resolved ones.
LEMMA OutputKeepsInv ==
  ASSUME ArpInv, NEW h \in ArpHosts, NEW mem \in BOOLEAN, etharp_output(h, mem)
  PROVE  ArpInv'
<1>. DEFINE found == {i \in Slots : Usable(i, h)}
            i == IF Usable(etharp_cached_entry, h) THEN etharp_cached_entry ELSE First(found)
            t == Rerequest(arp_table, i, mem)
<1>1. CASE found = {}
  BY <1>1, QueryKeepsInv DEF etharp_output
<1>2. CASE found # {}
  <2>1. arp_table' = t /\ etharp_cached_entry' = i /\ moved' = moved /\ arpPbufs' = arpPbufs
    BY <1>2 DEF etharp_output
  <2>2. i \in Slots
    BY <1>2, FirstIsMember DEF ArpInv
  <2>3. TableOK(arp_table)
    BY DEF ArpInv
  <2>. HIDE DEF i, found
  <2>4. CASE t = arp_table
    BY <2>1, <2>2, <2>4 DEF ArpInv
  <2>5. CASE t # arp_table
    <3>1. t = [arp_table EXCEPT ![i].state = "rerequesting1"] /\ arp_table[i].state = "stable"
      BY <2>5 DEF Rerequest
    <3>. HIDE DEF t
    <3>2. arp_table[i] \in Entry
      BY <2>2, <2>3 DEF TableOK
    <3>3. t[i] = [arp_table[i] EXCEPT !.state = "rerequesting1"] /\ \A j \in Slots : j # i => t[j] = arp_table[j]
      BY <2>2, <2>3, <3>1 DEF TableOK
    <3>4. /\ t[i] \in Entry /\ t[i].state = "rerequesting1" /\ t[i].ip = arp_table[i].ip
          /\ t[i].mac = arp_table[i].mac /\ t[i].ctime = arp_table[i].ctime /\ t[i].q = arp_table[i].q
      BY <3>2, <3>3 DEF Entry, Stable
    <3>5. t \in [Slots -> Entry]
      BY <2>2, <2>3, <3>1, <3>4 DEF TableOK
    <3>6. \A j \in Slots : t[j].ip = arp_table[j].ip /\ t[j].q = arp_table[j].q
      BY <3>3, <3>4
    <3>7. TableOK(t)
      <4>1. \A j \in Slots : t[j].state = "empty" <=> t[j].ip = NoHost
        BY <2>2, <2>3, <3>1, <3>3, <3>4 DEF TableOK
      <4>2. \A j \in Slots : t[j].q => t[j].state = "pending"
        BY <2>2, <2>3, <3>1, <3>3, <3>4 DEF TableOK
      <4>. QED
        BY <2>3, <3>5, <3>6, <4>1, <4>2 DEF TableOK
    <3>8. OldEntriesAge(t, moved)
      BY <2>2, <3>1, <3>3, <3>4 DEF ArpInv, OldEntriesAge, Stable
    <3>9. Waiting(t) = Waiting(arp_table)
      <4>1. {j \in Slots : t[j].q} = {j \in Slots : arp_table[j].q}
        BY <3>6
      <4>. QED
        BY <4>1 DEF Waiting
    <3>10. Waiting(arp_table)' = Waiting(t)
      BY <2>1 DEF Waiting, Slots
    <3>. QED
      BY <2>1, <2>2, <3>7, <3>8, <3>9, <3>10 DEF ArpInv
  <2>. QED
    BY <2>4, <2>5
<1>. QED
  BY <1>1, <1>2

\* The table is empty at the start.
LEMMA ArpInvInit == EtharpInit => ArpInv
<1>. SUFFICES ASSUME EtharpInit
              PROVE  ArpInv
  OBVIOUS
<1>1. \A i \in Slots : arp_table[i] = EmptyEntry
  BY DEF EtharpInit
<1>2. TableOK(arp_table) /\ OldEntriesAge(arp_table, moved)
  <2>1. arp_table \in [Slots -> Entry]
    BY EmptyEntryFields DEF EtharpInit
  <2>. QED
    BY <1>1, <2>1, EmptyEntryFields DEF TableOK, OldEntriesAge, Stable
<1>3. Waiting(arp_table) = 0
  <2>1. {i \in Slots : arp_table[i].q} = {}
    BY <1>1, EmptyEntryFields
  <2>. QED
    BY <2>1, FS_EmptySet DEF Waiting
<1>. QED
  BY <1>2, <1>3, EtharpAssumption DEF ArpInv, EtharpInit, Slots

\* Every operation of etharp.c keeps the invariant.
LEMMA ArpInvNext == ArpInv /\ [EtharpNext]_arpVars => ArpInv'
<1>. SUFFICES ASSUME ArpInv, [EtharpNext]_arpVars
              PROVE  ArpInv'
  OBVIOUS
<1>1. CASE etharp_tmr
  BY <1>1, TimerKeepsInv
<1>2. CASE etharp_cleanup_netif
  <2>. DEFINE t == [i \in Slots |-> EmptyEntry]
  <2>1. arp_table' = t /\ arpPbufs' = Waiting(arp_table')
    BY <1>2, SettleCounts DEF ArpInv, etharp_cleanup_netif
  <2>2. TableOK(t) /\ OldEntriesAge(t, moved)
    <3>1. t \in [Slots -> Entry]
      BY EmptyEntryFields
    <3>. QED
      BY <3>1, EmptyEntryFields DEF TableOK, OldEntriesAge, Stable
  <2>. QED
    BY <1>2, <2>1, <2>2 DEF ArpInv, etharp_cleanup_netif
<1>3. ASSUME NEW h \in ArpHosts, HostMoves(h)
      PROVE  ArpInv'
  <2>1. moved' = [host |-> h, ticks |-> 0] /\ UNCHANGED <<arp_table, etharp_cached_entry, arpPbufs>>
    BY <1>3 DEF HostMoves
  <2>2. \A i \in Slots : arp_table[i].ctime \in Nat
    <3>1. \A i \in Slots : arp_table[i] \in Entry
      BY DEF ArpInv, TableOK
    <3>. QED
      BY <3>1, EtharpAssumption DEF Entry
  <2>3. OldEntriesAge(arp_table, moved')
    BY <2>1, <2>2 DEF OldEntriesAge
  <2>4. Waiting(arp_table)' = Waiting(arp_table)
    BY <2>1 DEF Waiting
  <2>. QED
    BY <2>1, <2>3, <2>4, EtharpAssumption DEF ArpInv
<1>4. ASSUME NEW h \in ArpHosts, NEW b \in BOOLEAN,
             etharp_input(h, b) \/ etharp_output(h, b) \/ etharp_query(h, b)
      PROVE  ArpInv'
  BY <1>4, InputKeepsInv, OutputKeepsInv, QueryKeepsInv DEF etharp_query
<1>5. CASE UNCHANGED arpVars
  <2>1. Waiting(arp_table)' = Waiting(arp_table)
    BY <1>5 DEF Waiting, arpVars
  <2>. QED
    BY <1>5, <2>1 DEF arpVars, ArpInv
<1>. QED
  BY <1>1, <1>2, <1>3, <1>4, <1>5 DEF EtharpNext

\* For every size of the table, every set of hosts and all ages: an address is in the ARP cache once,
\* each packet allocated for it is in an unresolved entry until it is sent or freed, and no hardware
\* address that is out of date is used for longer than ARP_MAXAGE ticks.
THEOREM ArpIsSound == EtharpSpec => []ArpSound
<1>1. ArpInv => ArpSound
  <2>. SUFFICES ASSUME ArpInv
                PROVE  ArpSound
    OBVIOUS
  <2>1. EtharpTypeOK
    BY DEF ArpInv, TableOK, Entry, EtharpTypeOK
  <2>2. OneEntryPerAddress /\ QueuedPacketsAccounted
    BY DEF ArpInv, TableOK, OneEntryPerAddress, QueuedPacketsAccounted
  <2>3. OldAddressForgotten
    <3>1. \A i \in Slots : arp_table[i].ctime \in Nat /\ arp_table[i].ctime <= ARP_MAXAGE
      <4>1. \A i \in Slots : arp_table[i] \in Entry
        BY DEF ArpInv, TableOK
      <4>. QED
        BY <4>1, EtharpAssumption DEF Entry
    <3>2. moved.ticks \in Nat
      BY EtharpAssumption DEF ArpInv
    <3>. QED
      BY <3>1, <3>2, EtharpAssumption DEF ArpInv, OldEntriesAge, OldAddressForgotten
  <2>. QED
    BY <2>1, <2>2, <2>3 DEF ArpSound
<1>. QED
  BY <1>1, ArpInvInit, ArpInvNext, PTL DEF EtharpSpec

-----------------------------------------------------------------------------
(* The transmit ring of the Ethernet driver.                               *)

\* A pointer into the ring goes up by one and starts again at 0.
LEMMA NextInRing ==
  ASSUME NEW k \in TxBds
  PROVE  NextTx(k) = (IF k + 1 = ENET_TXBD_NUM THEN 0 ELSE k + 1) /\ NextTx(k) \in TxBds
<1>1. ENET_TXBD_NUM \in Nat /\ k \in Nat /\ k < ENET_TXBD_NUM
  BY EnetTxAssumption DEF TxBds
<1>2. \A n \in Nat \ {0} : n % n = 0
  BY Z3
<1>3. \A a, n \in Nat : a < n => a % n = a
  BY Z3
<1>4. NextTx(k) = IF k + 1 = ENET_TXBD_NUM THEN 0 ELSE k + 1
  <2>1. CASE k + 1 = ENET_TXBD_NUM
    BY <1>1, <1>2, <2>1 DEF NextTx
  <2>2. CASE k + 1 < ENET_TXBD_NUM
    BY <1>1, <1>3, <2>2 DEF NextTx
  <2>. QED
    BY <1>1, <2>1, <2>2
<1>. QED
  BY <1>1, <1>4 DEF TxBds

\* How far a descriptor is ahead of the DMA, and how many frames the driver has handed over.
AheadOfDma(k) == IF k >= txDma THEN k - txDma ELSE k - txDma + ENET_TXBD_NUM
HandedOver == IF sender.pc = "idle" THEN sender.frame ELSE sender.frame - 1

TxBasics ==
  /\ txReady \in [TxBds -> 0..MaxTxFrames] /\ txBdCurrent \in TxBds /\ txDma \in TxBds
  /\ timerQueue \in 0..configTIMER_QUEUE_LENGTH /\ txFlag \in BOOLEAN
  /\ sender \in [pc : {"idle", "send", "busy", "wait"}, frame : 0..MaxTxFrames]
  /\ sender.pc # "idle" => sender.frame > 0
  /\ onWire \in Seq(1..MaxTxFrames)

\* The frames that are handed over and not on the wire yet are, in order, in the descriptors from
\* the pointer of the DMA on up to that of the driver; the others are free.
RingInv ==
  /\ Len(onWire) <= HandedOver /\ HandedOver <= Len(onWire) + ENET_TXBD_NUM
  /\ txBdCurrent = LET c == txDma + (HandedOver - Len(onWire))
                   IN IF c >= ENET_TXBD_NUM THEN c - ENET_TXBD_NUM ELSE c
  /\ \A k \in TxBds :
       txReady[k] = IF AheadOfDma(k) < HandedOver - Len(onWire)
                      THEN Len(onWire) + 1 + AheadOfDma(k) ELSE 0

TxInv == TxBasics /\ RingInv /\ SentOnceInOrder

\* The ring is empty at the start.
LEMMA TxInvInit == EnetTxInit => TxInv
<1>. SUFFICES ASSUME EnetTxInit
              PROVE  TxInv
  OBVIOUS
<1>1. onWire = <<>> /\ Len(onWire) = 0 /\ onWire \in Seq(1..MaxTxFrames)
  BY DEF EnetTxInit
<1>2. TxBasics
  BY <1>1, EnetTxAssumption DEF EnetTxInit, TxBasics, TxBds
<1>3. HandedOver = 0
  BY DEF HandedOver, EnetTxInit
<1>4. RingInv
  BY <1>1, <1>3, EnetTxAssumption DEF EnetTxInit, RingInv, AheadOfDma, TxBds
<1>. QED
  BY <1>1, <1>2, <1>4 DEF TxInv, SentOnceInOrder

\* Steps that leave the ring, the wire and the number of frames handed over alone.
LEMMA RingUntouched ==
  ASSUME RingInv, SentOnceInOrder, UNCHANGED <<txReady, txBdCurrent, txDma, onWire>>,
         HandedOver' = HandedOver
  PROVE  RingInv' /\ SentOnceInOrder'
  BY DEF RingInv, SentOnceInOrder, AheadOfDma

\* Every step of the sender, the DMA, the interrupt and the timer task keeps the ring in order.
LEMMA TxInvNext == TxInv /\ [EnetTxNext]_txVars => TxInv'
<1>. SUFFICES ASSUME TxInv, [EnetTxNext]_txVars
              PROVE  TxInv'
  OBVIOUS
<1>. USE EnetTxAssumption
<1>a. /\ Len(onWire) \in Nat /\ sender.frame \in 0..MaxTxFrames /\ HandedOver \in 0..MaxTxFrames
      /\ txDma \in 0..(ENET_TXBD_NUM - 1) /\ txBdCurrent \in 0..(ENET_TXBD_NUM - 1)
  BY DEF TxInv, TxBasics, HandedOver, TxBds
<1>1. CASE low_level_output
  <2>1. sender' = [pc |-> "send", frame |-> sender.frame + 1] /\ sender.pc = "idle" /\ sender.frame < MaxTxFrames
    BY <1>1 DEF low_level_output
  <2>2. HandedOver' = HandedOver
    BY <1>a, <2>1 DEF HandedOver
  <2>3. TxBasics'
    <3>1. sender' \in [pc : {"idle", "send", "busy", "wait"}, frame : 0..MaxTxFrames] /\ sender'.frame > 0
      BY <1>a, <2>1
    <3>. QED
      BY <1>1, <3>1 DEF low_level_output, TxInv, TxBasics
  <2>. QED
    BY <1>1, <2>2, <2>3, RingUntouched DEF low_level_output, TxInv
<1>2. CASE ENET_SendFrame /\ TxFrameBusy
  <2>1. sender' = [sender EXCEPT !.pc = "busy"] /\ sender.pc = "send"
    BY <1>2 DEF ENET_SendFrame
  <2>2. HandedOver' = HandedOver
    BY <2>1 DEF HandedOver, TxInv, TxBasics
  <2>3. TxBasics'
    BY <1>2, <2>1 DEF ENET_SendFrame, TxInv, TxBasics
  <2>. QED
    BY <1>2, <2>2, <2>3, RingUntouched DEF ENET_SendFrame, TxInv
<1>3. CASE ENET_SendFrame /\ ~TxFrameBusy
  <2>1. /\ txReady' = [txReady EXCEPT ![txBdCurrent] = sender.frame]
        /\ txBdCurrent' = NextTx(txBdCurrent)
        /\ sender' = [sender EXCEPT !.pc = "idle"] /\ sender.pc = "send"
        /\ txDma' = txDma /\ onWire' = onWire
    BY <1>3 DEF ENET_SendFrame
  <2>2. TxBasics'
    BY <1>3, <2>1, NextInRing DEF ENET_SendFrame, TxInv, TxBasics
  <2>3. HandedOver' = HandedOver + 1 /\ sender.frame = HandedOver + 1
    BY <1>a, <2>1 DEF HandedOver, TxInv, TxBasics
  <2>. DEFINE d == HandedOver - Len(onWire)
  <2>4. d \in 0..ENET_TXBD_NUM /\ d < ENET_TXBD_NUM
    <3>1. d \in 0..ENET_TXBD_NUM
      BY <1>a DEF TxInv, RingInv
    <3>2. txReady[txBdCurrent] = 0
      BY <1>3 DEF TxFrameBusy
    <3>. QED
      BY <1>a, <3>1, <3>2 DEF TxInv, RingInv, AheadOfDma, TxBds
  <2>5. txBdCurrent' = LET c == txDma + (d + 1) IN IF c >= ENET_TXBD_NUM THEN c - ENET_TXBD_NUM ELSE c
    <3>1. txBdCurrent' = IF txBdCurrent + 1 = ENET_TXBD_NUM THEN 0 ELSE txBdCurrent + 1
      BY <2>1, NextInRing DEF TxInv, TxBasics
    <3>2. txBdCurrent = LET c == txDma + d IN IF c >= ENET_TXBD_NUM THEN c - ENET_TXBD_NUM ELSE c
      BY DEF TxInv, RingInv
    <3>. HIDE DEF d
    <3>. QED
      BY <1>a, <2>4, <3>1, <3>2
  <2>6. ASSUME NEW k \in TxBds
        PROVE  txReady'[k] = IF AheadOfDma(k) < d + 1 THEN Len(onWire) + 1 + AheadOfDma(k) ELSE 0
    <3>1. k \in 0..(ENET_TXBD_NUM - 1)
      BY DEF TxBds
    <3>2. k = txBdCurrent <=> AheadOfDma(k) = d
      BY <1>a, <2>4, <3>1 DEF AheadOfDma, TxInv, RingInv
    <3>3. AheadOfDma(k) \in Nat
      BY <1>a, <3>1 DEF AheadOfDma
    <3>4. CASE k = txBdCurrent
      <4>1. txReady'[k] = sender.frame
        BY <2>1, <3>4 DEF TxInv, TxBasics
      <4>. QED
        BY <1>a, <2>3, <3>2, <3>4, <4>1
    <3>5. CASE k # txBdCurrent
      <4>1. txReady'[k] = txReady[k]
        BY <2>1, <3>5 DEF TxInv, TxBasics
      <4>2. txReady[k] = IF AheadOfDma(k) < d THEN Len(onWire) + 1 + AheadOfDma(k) ELSE 0
        BY DEF TxInv, RingInv
      <4>. HIDE DEF d
      <4>. QED
        BY <2>4, <3>2, <3>3, <3>5, <4>1, <4>2
    <3>. QED
      BY <3>4, <3>5
  <2>7. RingInv'
    <3>1. HandedOver' - Len(onWire)' = d + 1
      BY <1>a, <2>1, <2>3
    <3>2. \A k \in TxBds : AheadOfDma(k)' = AheadOfDma(k)
      BY <2>1 DEF AheadOfDma
    <3>3. Len(onWire)' <= HandedOver' /\ HandedOver' <= Len(onWire)' + ENET_TXBD_NUM
      BY <1>a, <2>1, <2>3, <2>4
    <3>4. Len(onWire)' = Len(onWire) /\ txDma' = txDma
      BY <2>1
    <3>. HIDE DEF d
    <3>. QED
      BY <2>5, <2>6, <3>1, <3>2, <3>3, <3>4 DEF RingInv
  <2>. QED
    BY <2>1, <2>2, <2>7 DEF TxInv, SentOnceInOrder
<1>4. CASE BeginWait
  <2>1. sender' = [sender EXCEPT !.pc = "wait"] /\ sender.pc = "busy"
    BY <1>4 DEF BeginWait
  <2>2. HandedOver' = HandedOver
    BY <2>1 DEF HandedOver, TxInv, TxBasics
  <2>3. TxBasics'
    BY <1>4, <2>1 DEF BeginWait, TxInv, TxBasics
  <2>. QED
    BY <1>4, <2>2, <2>3, RingUntouched DEF BeginWait, TxInv
<1>5. CASE EndWait
  <2>1. sender' = [sender EXCEPT !.pc = "send"] /\ sender.pc = "wait"
    BY <1>5 DEF EndWait
  <2>2. HandedOver' = HandedOver
    BY <2>1 DEF HandedOver, TxInv, TxBasics
  <2>3. TxBasics'
    BY <1>5, <2>1 DEF EndWait, TxInv, TxBasics
  <2>. QED
    BY <1>5, <2>2, <2>3, RingUntouched DEF EndWait, TxInv
<1>6. CASE Transmit
  <2>. DEFINE d == HandedOver - Len(onWire)
              n == Len(onWire)
  <2>1. /\ txReady[txDma] # 0 /\ onWire' = Append(onWire, txReady[txDma])
        /\ txReady' = [txReady EXCEPT ![txDma] = 0] /\ txDma' = NextTx(txDma)
        /\ txBdCurrent' = txBdCurrent /\ sender' = sender
    BY <1>6 DEF Transmit
  <2>2. HandedOver' = HandedOver
    BY <2>1 DEF HandedOver
  <2>3. d \in 0..ENET_TXBD_NUM /\ d > 0 /\ txReady[txDma] = n + 1
    <3>1. AheadOfDma(txDma) = 0 /\ txDma \in TxBds
      BY <1>a DEF AheadOfDma, TxBds
    <3>2. txReady[txDma] = IF 0 < d THEN n + 1 + 0 ELSE 0
      BY <3>1 DEF TxInv, RingInv
    <3>. QED
      BY <1>a, <2>1, <3>2 DEF TxInv, RingInv
  <2>4. n + 1 \in 1..MaxTxFrames
    BY <1>a, <2>3
  <2>5. onWire' \in Seq(1..MaxTxFrames) /\ Len(onWire') = n + 1
    BY <2>1, <2>3, <2>4 DEF TxInv, TxBasics
  <2>6. SentOnceInOrder'
    <3>1. \A k \in 1..(n + 1) : onWire'[k] = IF k = n + 1 THEN n + 1 ELSE onWire[k]
      BY <2>1, <2>3, <2>4 DEF TxInv, TxBasics
    <3>2. DOMAIN onWire' = 1..(n + 1) /\ DOMAIN onWire = 1..n
      BY <2>5 DEF TxInv, TxBasics
    <3>. QED
      BY <1>a, <3>1, <3>2 DEF TxInv, SentOnceInOrder
  <2>7. TxBasics'
    BY <1>6, <2>1, <2>5, NextInRing DEF Transmit, TxInv, TxBasics
  <2>8. txDma' \in TxBds /\ txDma' = IF txDma + 1 = ENET_TXBD_NUM THEN 0 ELSE txDma + 1
    BY <2>1, NextInRing DEF TxInv, TxBasics
  <2>9. ASSUME NEW k \in TxBds
        PROVE  txReady'[k] = IF AheadOfDma(k)' < d - 1 THEN n + 2 + AheadOfDma(k)' ELSE 0
    <3>1. k \in 0..(ENET_TXBD_NUM - 1)
      BY DEF TxBds
    <3>2. AheadOfDma(k)' = IF k = txDma THEN ENET_TXBD_NUM - 1 ELSE AheadOfDma(k) - 1
      BY <1>a, <2>8, <3>1 DEF AheadOfDma
    <3>3. AheadOfDma(k) \in Nat
      BY <1>a, <3>1 DEF AheadOfDma
    <3>4. CASE k = txDma
      <4>1. txReady'[k] = 0
        BY <2>1, <3>4 DEF TxInv, TxBasics
      <4>. QED
        BY <2>3, <3>2, <3>4, <4>1
    <3>5. CASE k # txDma
      <4>1. txReady'[k] = txReady[k]
        BY <2>1, <3>5 DEF TxInv, TxBasics
      <4>2. txReady[k] = IF AheadOfDma(k) < d THEN n + 1 + AheadOfDma(k) ELSE 0
        BY DEF TxInv, RingInv
      <4>3. n \in Nat
        BY <1>a
      <4>. HIDE DEF d, n
      <4>. QED
        BY <2>3, <3>2, <3>3, <3>5, <4>1, <4>2, <4>3
    <3>. QED
      BY <3>4, <3>5
  <2>10. RingInv'
    <3>1. HandedOver' - Len(onWire)' = d - 1 /\ Len(onWire)' = n + 1
      BY <1>a, <2>2, <2>5
    <3>2. Len(onWire)' <= HandedOver' /\ HandedOver' <= Len(onWire)' + ENET_TXBD_NUM
      BY <1>a, <2>2, <2>3, <3>1
    <3>3. txBdCurrent' = LET c == txDma' + (d - 1) IN IF c >= ENET_TXBD_NUM THEN c - ENET_TXBD_NUM ELSE c
      BY <1>a, <2>1, <2>3, <2>8 DEF TxInv, RingInv
    <3>4. n \in Nat
      BY <1>a
    <3>. HIDE DEF d, n
    <3>5. \A k \in TxBds : txReady'[k] = IF AheadOfDma(k)' < d - 1
                                           THEN Len(onWire)' + 1 + AheadOfDma(k)' ELSE 0
      <4>1. \A k \in TxBds : AheadOfDma(k)' \in Int
        BY <1>a, <2>8 DEF AheadOfDma, TxBds
      <4>. QED
        BY <2>9, <3>1, <3>4, <4>1
    <3>. QED
      BY <3>1, <3>2, <3>3, <3>5 DEF RingInv
  <2>. QED
    BY <2>6, <2>7, <2>10 DEF TxInv
<1>7. CASE Interrupts \/ SetBits
  <2>1. UNCHANGED <<txReady, txBdCurrent, txDma, onWire, sender>>
    BY <1>7 DEF Interrupts, SetBits, ENET_TransmitIRQHandler, ethernet_callback
  <2>2. HandedOver' = HandedOver
    BY <2>1 DEF HandedOver
  <2>3. timerQueue' \in 0..configTIMER_QUEUE_LENGTH
    BY <1>7 DEF Interrupts, SetBits, ENET_TransmitIRQHandler, ethernet_callback, TxInv, TxBasics
  <2>5. txFlag' \in BOOLEAN
    BY <1>7 DEF Interrupts, SetBits, ENET_TransmitIRQHandler, ethernet_callback, TxInv, TxBasics
  <2>4. TxBasics'
    BY <2>1, <2>3, <2>5 DEF TxInv, TxBasics
  <2>. QED
    BY <2>1, <2>2, <2>4, RingUntouched DEF TxInv
<1>8. CASE UNCHANGED txVars
  <2>1. HandedOver' = HandedOver
    BY <1>8 DEF HandedOver, txVars
  <2>2. TxBasics'
    BY <1>8 DEF txVars, TxInv, TxBasics
  <2>. QED
    BY <1>8, <2>1, <2>2, RingUntouched DEF txVars, TxInv
<1>. QED
  BY <1>1, <1>2, <1>3, <1>4, <1>5, <1>6, <1>7, <1>8 DEF EnetTxNext, SenderSteps

\* For every length of the ring and of the timer queue: each frame goes out once and in the order in
\* which low_level_output was called, however far the DMA is behind, and the queue of the timer task
\* is never longer than it may be.
THEOREM FramesGoOutInOrder == EnetTxSpec => [](EnetTxTypeOK /\ SentOnceInOrder)
<1>1. TxInv => EnetTxTypeOK /\ SentOnceInOrder
  BY DEF TxInv, TxBasics, EnetTxTypeOK
<1>. QED
  BY <1>1, TxInvInit, TxInvNext, PTL DEF EnetTxSpec
=============================================================================
