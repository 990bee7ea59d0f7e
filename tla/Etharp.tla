------------------------------- MODULE Etharp -------------------------------
(***************************************************************************)
(* The ARP cache of lwIP, core/ipv4/etharp.c: a table of ARP_TABLE_SIZE    *)
(* entries that are recycled, aged by a timer, asked for and announced,    *)
(* with one packet waiting in each entry that is not resolved yet          *)
(* (ARP_QUEUEING and ETHARP_SUPPORT_STATIC_ENTRIES are 0).                 *)
(***************************************************************************)
EXTENDS Integers, FiniteSets

CONSTANTS
  ARP_TABLE_SIZE,
  ArpHosts,                        \* unicast addresses of the local net
  ARP_MAXAGE, ARP_MAXPENDING,
  ARP_AGE_REREQUEST_USED_UNICAST, ARP_AGE_REREQUEST_USED_BROADCAST,
  NoHost

ASSUME EtharpAssumption ==
  /\ ARP_TABLE_SIZE \in Nat \ {0} /\ NoHost \notin ArpHosts
  /\ ARP_MAXAGE \in Nat /\ ARP_MAXPENDING \in Nat
  /\ ARP_AGE_REREQUEST_USED_UNICAST \in Nat /\ ARP_AGE_REREQUEST_USED_BROADCAST \in Nat
  /\ 0 < ARP_MAXPENDING /\ ARP_MAXPENDING < ARP_MAXAGE
  /\ ARP_AGE_REREQUEST_USED_UNICAST <= ARP_AGE_REREQUEST_USED_BROADCAST
  /\ ARP_AGE_REREQUEST_USED_BROADCAST < ARP_MAXAGE

VARIABLES
  arp_table,             \* the entries
  etharp_cached_entry,   \* the entry used last
  moved,                 \* [host, ticks]: the host that has a new hardware address, and since when
  arpPbufs               \* copies of packets allocated for the table and not freed yet

arpVars == <<arp_table, etharp_cached_entry, moved, arpPbufs>>

Slots == 1..ARP_TABLE_SIZE
Stable == {"stable", "rerequesting1", "rerequesting2"}
EmptyEntry == [state |-> "empty", ip |-> NoHost, mac |-> FALSE, ctime |-> 0, q |-> FALSE]

EtharpInit ==
  /\ arp_table = [i \in Slots |-> EmptyEntry]
  /\ etharp_cached_entry = 1
  /\ moved = [host |-> NoHost, ticks |-> 0]
  /\ arpPbufs = 0

\* Packets that wait in a table.
Waiting(t) == Cardinality({i \in Slots : t[i].q})

\* etharp_free_entry: the packet of the entry is freed.
FreeEntry(t, i) == [t EXCEPT ![i] = EmptyEntry]

----------------------------------------------------------------------------
(* etharp_find_entry *)

Matching(t, h) == {i \in Slots : t[i].state # "empty" /\ t[i].ip = h}
Empties(t) == {i \in Slots : t[i].state = "empty"}
First(S) == CHOOSE i \in S : \A j \in S : i <= j

\* The oldest entry of a set, the last one in the table when there are several.
Oldest(t, S) ==
  CHOOSE i \in S : \A j \in S : t[j].ctime < t[i].ctime \/ (t[j].ctime = t[i].ctime /\ j <= i)

\* Candidates for recycling, in this order: resolved, pending without a packet, with a packet.
Recyclable(t) ==
  LET stable == {i \in Slots : t[i].state \in Stable}
      idle == {i \in Slots : t[i].state = "pending" /\ ~t[i].q}
  IN IF stable # {} THEN stable ELSE IF idle # {} THEN idle ELSE Slots

\* Seeded fault: an empty entry is taken before the rest of the table has been searched.
etharp_find_entry_Hasty(t, h, flag) ==
  LET new(i) == [slot |-> i, table |-> [FreeEntry(t, i) EXCEPT ![i].ip = h]]
      seen == {i \in Matching(t, h) : \A j \in Empties(t) : i < j}
  IN IF flag = "FIND_ONLY"
       THEN [slot |-> IF Matching(t, h) = {} THEN 0 ELSE First(Matching(t, h)), table |-> t]
     ELSE IF seen # {} THEN [slot |-> First(seen), table |-> t]
     ELSE IF Empties(t) # {} THEN new(First(Empties(t)))
     ELSE new(Oldest(t, Recyclable(t)))

\* Result: the slot (0 for ERR_MEM) and the table with the slot prepared.
etharp_find_entry(t, h, flag) ==
  LET new(i) == [slot |-> i, table |-> [FreeEntry(t, i) EXCEPT ![i].ip = h]]
  IN IF Matching(t, h) # {} THEN [slot |-> First(Matching(t, h)), table |-> t]
     ELSE IF flag = "FIND_ONLY" THEN [slot |-> 0, table |-> t]
     ELSE IF Empties(t) # {} THEN new(First(Empties(t)))
     ELSE new(Oldest(t, Recyclable(t)))

----------------------------------------------------------------------------
(* Operations *)

\* Every packet that leaves the table, sent or thrown away, is freed.
Settle(t) ==
  /\ arp_table' = t
  /\ arpPbufs' = arpPbufs - (Waiting(arp_table) - Waiting(t))

Expired(e) == e.ctime >= ARP_MAXAGE \/ (e.state = "pending" /\ e.ctime >= ARP_MAXPENDING)

\* One turn of the timer's loop; asking again for a pending address changes nothing here.
Age(e) ==
  LET old == [e EXCEPT !.ctime = @ + 1]
  IN CASE e.state = "empty" -> e
       [] e.state # "empty" /\ Expired(old) -> EmptyEntry
       [] e.state = "rerequesting1" /\ ~Expired(old) -> [old EXCEPT !.state = "rerequesting2"]
       [] e.state = "rerequesting2" /\ ~Expired(old) -> [old EXCEPT !.state = "stable"]
       [] OTHER -> old

etharp_tmr ==
  /\ Settle([i \in Slots |-> Age(arp_table[i])])
  /\ moved' = IF moved.host # NoHost /\ moved.ticks <= ARP_MAXAGE
                THEN [moved EXCEPT !.ticks = @ + 1] ELSE moved
  /\ UNCHANGED etharp_cached_entry

\* The entry is resolved and its packet sent.
etharp_update_arp_entry(t, h, mac, flag) ==
  LET f == etharp_find_entry(t, h, flag)
  IN IF f.slot = 0 THEN t
     ELSE [f.table EXCEPT ![f.slot] =
             [state |-> "stable", ip |-> h, mac |-> mac, ctime |-> 0, q |-> FALSE]]

\* A request or a reply of host h.
etharp_input(h, for_us) ==
  /\ Settle(etharp_update_arp_entry(arp_table, h, h = moved.host,
                                    IF for_us THEN "TRY_HARD" ELSE "FIND_ONLY"))
  /\ UNCHANGED <<etharp_cached_entry, moved>>

\* etharp_output_to_arp_index: a resolved entry in use is asked for again before it is too old;
\* memory for the request or not.
Rerequest(t, i, mem) ==
  IF t[i].state = "stable" /\ t[i].ctime >= ARP_AGE_REREQUEST_USED_UNICAST /\ mem
    THEN [t EXCEPT ![i].state = "rerequesting1"] ELSE t

\* etharp_query with a packet (copied) or without.  The new packet takes the place of the old.
Query(h, packet, mem) ==
  LET f == etharp_find_entry(arp_table, h, "TRY_HARD")
      fresh == f.table[f.slot].state = "empty"
      t == IF fresh THEN [f.table EXCEPT ![f.slot].state = "pending"] ELSE f.table
      keeps == packet /\ mem /\ t[f.slot].state = "pending"
      replaced == IF t[f.slot].q THEN 1 ELSE 0
  IN /\ arp_table' = IF keeps THEN [t EXCEPT ![f.slot].q = TRUE] ELSE t
     /\ arpPbufs' = arpPbufs - (Waiting(arp_table) - Waiting(t))
                      + (IF keeps THEN 1 - replaced ELSE 0)
     /\ etharp_cached_entry' = IF packet /\ t[f.slot].state \in Stable THEN f.slot
                               ELSE etharp_cached_entry
     /\ UNCHANGED moved

etharp_query(h, mem) == Query(h, FALSE, mem)

Usable(i, h) == arp_table[i].state \in Stable /\ arp_table[i].ip = h

\* A packet to host h, by the entry used last, by another one, or by a query.
etharp_output(h, mem) ==
  LET found == {i \in Slots : Usable(i, h)}
      i == IF Usable(etharp_cached_entry, h) THEN etharp_cached_entry ELSE First(found)
  IN IF found = {} THEN Query(h, TRUE, mem)
     ELSE /\ arp_table' = Rerequest(arp_table, i, mem)
          /\ etharp_cached_entry' = i
          /\ UNCHANGED <<moved, arpPbufs>>

\* The interface goes down.
etharp_cleanup_netif ==
  /\ Settle([i \in Slots |-> EmptyEntry])
  /\ UNCHANGED <<etharp_cached_entry, moved>>

\* One host gets another hardware address, and need not tell.
HostMoves(h) ==
  /\ moved.host = NoHost /\ moved' = [host |-> h, ticks |-> 0]
  /\ UNCHANGED <<arp_table, etharp_cached_entry, arpPbufs>>

EtharpNext ==
  \/ etharp_tmr \/ etharp_cleanup_netif
  \/ \E h \in ArpHosts :
       \/ HostMoves(h)
       \/ \E b \in BOOLEAN : etharp_input(h, b) \/ etharp_output(h, b) \/ etharp_query(h, b)

EtharpSpec == EtharpInit /\ [][EtharpNext]_arpVars

----------------------------------------------------------------------------
(* Type invariant. *)
EtharpTypeOK ==
  /\ arp_table \in [Slots -> [state : Stable \cup {"empty", "pending"}, ip : ArpHosts \cup {NoHost},
                              mac : BOOLEAN, ctime : 0..(ARP_MAXAGE - 1), q : BOOLEAN]]
  /\ etharp_cached_entry \in Slots
  /\ moved \in [host : ArpHosts \cup {NoHost}, ticks : 0..(ARP_MAXAGE + 1)]

(* However entries are recycled, an address is in the table at most once: otherwise            *)
(* etharp_update_arp_entry would resolve one entry and the packet wait in the other.           *)
OneEntryPerAddress ==
  \A i, j \in Slots : arp_table[i].ip = arp_table[j].ip /\ arp_table[i].ip # NoHost => i = j

(* A packet waits only in an entry that is still to be resolved, and every copy that was       *)
(* allocated is in the table until it is sent or freed: recycling, timeouts, replacement and   *)
(* the interface going down lose none.                                                        *)
QueuedPacketsAccounted ==
  /\ \A i \in Slots : arp_table[i].q => arp_table[i].state = "pending"
  /\ arpPbufs = Waiting(arp_table)

(* When a host has changed its hardware address without telling, the old one is used for       *)
(* ARP_MAXAGE ticks at most, however busy the entry is: it ages out or is corrected.           *)
OldAddressForgotten ==
  \A i \in Slots :
    arp_table[i].ip = moved.host /\ arp_table[i].state \in Stable /\ ~arp_table[i].mac
      => moved.ticks <= ARP_MAXAGE

(* The table of etharp.c as a whole: an address once, a packet where it will be found, and no    *)
(* hardware address that is out of date for longer than ARP_MAXAGE.                            *)
ArpSound == EtharpTypeOK /\ OneEntryPerAddress /\ QueuedPacketsAccounted /\ OldAddressForgotten
=============================================================================
