------------------------------- MODULE IpFrag -------------------------------
(***************************************************************************)
(* IPv4 fragmentation and reassembly, core/ipv4/ip4_frag.c: fragments of   *)
(* several datagrams arrive lost, duplicated and in any order, a datagram  *)
(* may have been cut in different ways on different paths, the number of   *)
(* datagrams and of pbufs in reassembly is limited, and a timer gives up.  *)
(***************************************************************************)
EXTENDS Integers, Sequences, SequencesExt, FiniteSetsExt

CONSTANTS
  FragIds,               \* datagrams: source, destination and IP id
  DatagramLen,           \* payload of each of them
  FRAG_UNIT, IP_HLEN,    \* 8 and 20 in the code
  Mtus,                  \* MTUs on the paths
  PbufLen,               \* payload that fits into one pbuf of the pool
  MEMP_NUM_REASSDATA, IP_REASS_MAX_PBUFS, IP_REASS_MAXAGE

\* ip4_frag marks the last fragment by "left <= mtu - IP_HLEN" but cuts at multiples of
\* FRAG_UNIT: the two agree for the MTU of ethernetif.c, 1500.
ASSUME IpFragAssumption ==
  /\ DatagramLen \in Nat \ {0} /\ FRAG_UNIT \in Nat \ {0} /\ PbufLen \in Nat \ {0}
  /\ \A mtu \in Mtus : mtu - IP_HLEN > 0 /\ (mtu - IP_HLEN) % FRAG_UNIT = 0
  /\ MEMP_NUM_REASSDATA \in Nat \ {0} /\ IP_REASS_MAXAGE \in Nat

VARIABLES
  reassdatagrams,        \* the list, newest datagram first; "age" counts ticks and is the model's
  ip_reass_pbufcount,
  reassOut               \* what the last call of ip4_reass returned, <<>> for NULL

reassVars == <<reassdatagrams, ip_reass_pbufcount, reassOut>>

----------------------------------------------------------------------------
(* ip4_frag *)

\* The fragments of the last "left" bytes of a datagram.
FragsFrom(mtu) ==
  LET nfb == (mtu - IP_HLEN) \div FRAG_UNIT
      f[left \in 0..DatagramLen] ==
        IF left = 0 THEN <<>>
        ELSE LET fragsize == Min({left, nfb * FRAG_UNIT})
                 ofo == DatagramLen - left
             IN <<[start |-> ofo, end |-> ofo + fragsize, mf |-> ~(left <= mtu - IP_HLEN)]>>
                \o f[left - fragsize]
  IN f

ip4_frag(mtu) == FragsFrom(mtu)[DatagramLen]

\* A datagram that fits is not sent in fragments.
Fragments == UNION {ToSet(ip4_frag(mtu)) : mtu \in {m \in Mtus : DatagramLen > m - IP_HLEN}}

----------------------------------------------------------------------------
(* Reassembly *)

pbuf_clen(f) == ((f.end - f.start) + PbufLen - 1) \div PbufLen
ChainClen(p) == FoldLeft(LAMBDA n, f : n + pbuf_clen(f), 0, p)

IpFragInit ==
  /\ reassdatagrams = <<>>
  /\ ip_reass_pbufcount = 0
  /\ reassOut = <<>>

\* ip_reass_free_complete_datagram; "r" is [list, count, freed].
FreeDatagram(r, k) ==
  LET n == ChainClen(r.list[k].p)
  IN [list |-> RemoveAt(r.list, k), count |-> r.count - n, freed |-> r.freed + n]

\* The datagram that is given up for another one: the last one with the least timer.
OthersThan(list, id) == {k \in DOMAIN list : list[k].id # id}
OldestOther(list, id) ==
  CHOOSE k \in OthersThan(list, id) : \A j \in OthersThan(list, id) :
    list[k].timer < list[j].timer \/ (list[k].timer = list[j].timer /\ k >= j)

\* Datagrams are removed until enough pbufs are free or no other one is left.
ip_reass_remove_oldest_datagram(list, count, id, needed) ==
  LET step(r, n) ==
        IF (n = 1 \/ r.freed < needed) /\ OthersThan(r.list, id) # {}
          THEN FreeDatagram(r, OldestOther(r.list, id))
          ELSE r
  IN FoldLeft(step, [list |-> list, count |-> count, freed |-> 0], [n \in 1..Len(list) |-> n])

\* memp_malloc(MEMP_REASSDATA) fails.
PoolEmpty(list) == Len(list) = MEMP_NUM_REASSDATA

\* The list with an entry for the datagram at its head; "ok" is FALSE for NULL.
ip_reass_enqueue_new_datagram(list, count, id, clen) ==
  LET full == PoolEmpty(list)
      r == IF full THEN ip_reass_remove_oldest_datagram(list, count, id, clen)
           ELSE [list |-> list, count |-> count, freed |-> 0]
      ok == full => (r.freed >= clen /\ Len(r.list) < MEMP_NUM_REASSDATA)
      ipr == [id |-> id, timer |-> IP_REASS_MAXAGE, lastfrag |-> FALSE, datagram_len |-> 0, p |-> <<>>,
              age |-> 0]
  IN [ok |-> ok, list |-> IF ok THEN <<ipr>> \o r.list ELSE r.list, count |-> r.count]

\* Position of the first fragment of p behind f.
Behind(p, f) == Min({k \in DOMAIN p : f.start < p[k].start} \union {Len(p) + 1})

\* The fragment is thrown away: a repetition, or it overlaps what is already there. One that is
\* put before all others is not compared with its successor.
Overlaps(p, f) ==
  LET at == Behind(p, f)
  IN \/ \E k \in 1..at - 1 : f.start < p[k].end
     \/ at > 1 /\ at <= Len(p) /\ f.end > p[at].start

\* Neighbours of p from position a to position b touch.
Touching(p, a, b) == \A k \in a..b - 1 : p[k].end = p[k + 1].start

\* The checks of the chained datagram, where the new fragment is at position "at": before the
\* fragments it was put behind, after it, but no check between it and its predecessor unless
\* it is the last of the chain.
Validates(p, at) ==
  /\ Touching(p, 1, at - 1)
  /\ at = Len(p) => Touching(p, 1, at)
  /\ p[1].start = 0
  /\ Touching(p, at, Len(p))

\* Seeded fault: every fragment starts the timer of its datagram again.
ChainAndValidate_Refreshes(ipr, f) ==
  LET at == Behind(ipr.p, f)
      p == InsertAt(ipr.p, at, f)
      fresh == [ipr EXCEPT !.timer = IP_REASS_MAXAGE]
  IN IF Overlaps(ipr.p, f) THEN [ipr |-> fresh, chained |-> FALSE, valid |-> FALSE]
     ELSE [ipr |-> [fresh EXCEPT !.p = p], chained |-> TRUE, valid |-> ipr.lastfrag /\ Validates(p, at)]

\* ip_reass_chain_frag_into_datagram_and_validate: the entry and whether it is complete.
ChainAndValidate(ipr, f) ==
  LET at == Behind(ipr.p, f)
      p == InsertAt(ipr.p, at, f)
  IN IF Overlaps(ipr.p, f) THEN [ipr |-> ipr, chained |-> FALSE, valid |-> FALSE]
     ELSE [ipr |-> [ipr EXCEPT !.p = p], chained |-> TRUE, valid |-> ipr.lastfrag /\ Validates(p, at)]

\* The count after a fragment of clen pbufs was chained or thrown away.
CountAfter(count, clen, chained) == count + (IF chained THEN clen ELSE 0)

\* From the entry of the datagram on: the flag of the last fragment, the chain, the delivery.
TakeFragment(list, count, k, f) ==
  LET ipr == IF f.mf THEN list[k]
             ELSE [list[k] EXCEPT !.lastfrag = TRUE, !.datagram_len = f.end]
      c == ChainAndValidate(ipr, f)
      total == CountAfter(count, pbuf_clen(f), c.chained)
  IN IF c.valid
       THEN /\ reassdatagrams' = RemoveAt(list, k)
            /\ ip_reass_pbufcount' = total - ChainClen(c.ipr.p)
            /\ reassOut' = <<c.ipr>>
       ELSE /\ reassdatagrams' = ReplaceAt(list, k, c.ipr)
            /\ ip_reass_pbufcount' = total
            /\ reassOut' = <<>>

\* The fragment is freed and NULL returned; "r" is what was freed for nothing before.
NullReturn(r) ==
  /\ reassdatagrams' = r.list
  /\ ip_reass_pbufcount' = r.count
  /\ reassOut' = <<>>

\* Entry of a datagram in a list, 0 for none.
EntryOf(list, id) == Max({k \in DOMAIN list : list[k].id = id} \union {0})

ip4_reass(id, f) ==
  LET clen == pbuf_clen(f)
      full == ip_reass_pbufcount + clen > IP_REASS_MAX_PBUFS
      r == IF full THEN ip_reass_remove_oldest_datagram(reassdatagrams, ip_reass_pbufcount, id, clen)
           ELSE [list |-> reassdatagrams, count |-> ip_reass_pbufcount, freed |-> 0]
      n == ip_reass_enqueue_new_datagram(r.list, r.count, id, clen)
  IN IF full /\ (r.freed = 0 \/ r.count + clen > IP_REASS_MAX_PBUFS) THEN NullReturn(r)
     ELSE IF EntryOf(r.list, id) # 0 THEN TakeFragment(r.list, r.count, EntryOf(r.list, id), f)
     ELSE IF n.ok THEN TakeFragment(n.list, n.count, 1, f)
     ELSE NullReturn(n)

\* A fragment arrives, for the first time or again.
FragmentArrives == \E id \in FragIds, f \in Fragments : ip4_reass(id, f)

\* ip_reass_tmr, once a second: expired datagrams are freed, the others age.
ip_reass_tmr ==
  LET kept == SelectSeq(reassdatagrams, LAMBDA r : r.timer > 0)
      gone == SelectSeq(reassdatagrams, LAMBDA r : r.timer = 0)
  IN /\ reassdatagrams' = [k \in DOMAIN kept |-> [kept[k] EXCEPT !.timer = @ - 1, !.age = @ + 1]]
     /\ ip_reass_pbufcount' = ip_reass_pbufcount - FoldLeft(LAMBDA n, r : n + ChainClen(r.p), 0, gone)
     /\ reassOut' = <<>>

IpFragNext == FragmentArrives \/ ip_reass_tmr
IpFragSpec == IpFragInit /\ [][IpFragNext]_reassVars

----------------------------------------------------------------------------
(* Properties *)

\* Type invariant: the limits of opt.h on datagrams and pbufs in reassembly are kept.
ReassTypeOK ==
  /\ Len(reassdatagrams) <= MEMP_NUM_REASSDATA
  /\ \A k \in DOMAIN reassdatagrams :
       /\ reassdatagrams[k].id \in FragIds
       /\ reassdatagrams[k].timer \in 0..IP_REASS_MAXAGE
       /\ ToSet(reassdatagrams[k].p) \subseteq Fragments
  /\ ip_reass_pbufcount \in 0..IP_REASS_MAX_PBUFS

\* The counter that guards the pbuf pool is exact through overlaps, evictions, time-outs and
\* deliveries, a datagram has one entry, and no entry is without a fragment (the code
\* dereferences ipr->p when it frees one).
PbufsAccounted ==
  /\ ip_reass_pbufcount = FoldLeft(LAMBDA n, r : n + ChainClen(r.p), 0, reassdatagrams)
  /\ \A j, k \in DOMAIN reassdatagrams : reassdatagrams[j].id = reassdatagrams[k].id => j = k
  /\ \A k \in DOMAIN reassdatagrams : reassdatagrams[k].p # <<>>

\* What ip4_reass hands up begins at offset 0, ends at the length written into its header, which
\* is the length that was sent, and holds its fragments in order and without overlap.
ReassembledInOrder ==
  \A k \in DOMAIN reassOut :
    LET p == reassOut[k].p
    IN /\ p[1].start = 0 /\ Last(p).end = reassOut[k].datagram_len
       /\ reassOut[k].datagram_len = DatagramLen
       /\ \A j \in 1..Len(p) - 1 : p[j].end <= p[j + 1].start

\* Fragments that keep arriving do not keep a datagram: delivered, given up for another one or
\* timed out, it and its pbufs are gone after IP_REASS_MAXAGE ticks from its first fragment on.
ReassemblyEnds == \A k \in DOMAIN reassdatagrams : reassdatagrams[k].age <= IP_REASS_MAXAGE

\* "Also checks that the datagram passes basic continuity checks" (ip4_frag.c, comment of
\* ip_reass_chain_frag_into_datagram_and_validate): what is handed up has no hole.
ReassembledHasNoHole ==
  \A k \in DOMAIN reassOut : Touching(reassOut[k].p, 1, Len(reassOut[k].p))

\* Reassembly as a whole: limits kept, pbufs counted exactly, whole datagrams in order (but for holes,
\* see ReassembledHasNoHole), and an end for each of them.
ReassemblySound == ReassTypeOK /\ PbufsAccounted /\ ReassembledInOrder /\ ReassemblyEnds
=============================================================================
