-------------------------------- MODULE Pbuf --------------------------------
(***************************************************************************)
(* Packet buffers, core/pbuf.c, with the pool they come from (core/memp.c):*)
(* chains that are referenced, joined, split, shortened and freed by       *)
(* several threads.  pbuf_free lets go of one pbuf of a chain after the    *)
(* other, each under SYS_ARCH_PROTECT only for the count.                  *)
(***************************************************************************)
EXTENDS Integers, FiniteSets

CONSTANTS
  NumPbufs, BytesPerPbuf,    \* elements of the pool and their room
  PbufThreads, MaxPbufRefs   \* who holds references, how many of a pbuf

ASSUME PbufAssumption ==
  /\ NumPbufs \in Nat /\ BytesPerPbuf \in Nat \ {0} /\ MaxPbufRefs \in Nat
  /\ IsFiniteSet(PbufThreads)

VARIABLES
  pb,                        \* the pbufs: [ref, next, len, tot_len]
  refs,                      \* references each thread holds
  freeing                    \* where each thread is in pbuf_free, 0 for nowhere

pbufVars == <<pb, refs, freeing>>

Pb == 1..NumPbufs
NULL == 0
FreePb == [ref |-> 0, next |-> NULL, len |-> 0, tot_len |-> 0]

PbufInit ==
  /\ pb = [p \in Pb |-> FreePb]
  /\ refs = [t \in PbufThreads |-> [p \in Pb |-> 0]]
  /\ freeing = [t \in PbufThreads |-> NULL]

----------------------------------------------------------------------------
(* Chains *)

\* The k-th pbuf of a chain, NULL behind its end.
Link(b, p) ==
  LET f[k \in 0..NumPbufs] == IF k = 0 THEN p ELSE IF f[k - 1] = NULL THEN NULL ELSE b[f[k - 1]].next
  IN f
Chain(b, p) == {Link(b, p)[k] : k \in 0..NumPbufs} \ {NULL}
LastOf(b, p) == CHOOSE q \in Chain(b, p) : b[q].next = NULL
Heads(b, p) == {q \in Pb : b[q].ref > 0 /\ b[q].next = p}

\* A chain may be changed by whoever holds its head, when no other chain runs into it: the contract
\* of the functions that change one.
Changeable(t, p) ==
  /\ refs[t][p] > 0 /\ Heads(pb, p) = {}
  /\ \A q \in Chain(pb, p) : Cardinality(Heads(pb, q)) <= 1
  /\ \A u \in PbufThreads : freeing[u] \notin Chain(pb, p)

Idle(t) == freeing[t] = NULL

----------------------------------------------------------------------------
(* Operations *)

\* pbuf_alloc from the pool, as many as the length needs: all or none.
pbuf_alloc(t, n) ==
  LET free == {p \in Pb : pb[p].ref = 0}
      rank(p) == Cardinality({q \in free : q < p})
      mine == {p \in free : rank(p) < n}
  IN /\ Idle(t) /\ Cardinality(free) >= n
     /\ pb' = [p \in Pb |->
                 IF p \in mine
                   THEN [ref |-> 1, len |-> BytesPerPbuf, tot_len |-> (n - rank(p)) * BytesPerPbuf,
                         next |-> IF rank(p) = n - 1 THEN NULL
                                  ELSE CHOOSE q \in mine : rank(q) = rank(p) + 1]
                   ELSE pb[p]]
     /\ refs' = [refs EXCEPT ![t] = [p \in Pb |-> IF p \in mine /\ rank(p) = 0 THEN 1 ELSE @[p]]]
     /\ UNCHANGED freeing

pbuf_ref(t, p) ==
  /\ Idle(t) /\ refs[t][p] > 0 /\ pb[p].ref < MaxPbufRefs
  /\ pb' = [pb EXCEPT ![p].ref = @ + 1]
  /\ refs' = [refs EXCEPT ![t][p] = @ + 1]
  /\ UNCHANGED freeing

\* A reference is handed to another thread, in a message.
HandOver(t, u, p) ==
  /\ t # u /\ Idle(t) /\ refs[t][p] > 0
  /\ refs' = [refs EXCEPT ![t][p] = @ - 1, ![u][p] = @ + 1]
  /\ UNCHANGED <<pb, freeing>>

pbuf_free(t, p) ==
  /\ Idle(t) /\ refs[t][p] > 0
  /\ refs' = [refs EXCEPT ![t][p] = @ - 1]
  /\ freeing' = [freeing EXCEPT ![t] = p]
  /\ UNCHANGED pb

\* Seeded fault: the walk goes on although the pbuf is still referenced.
FreeOne_GoesOn(t) ==
  LET p == freeing[t]
  IN /\ ~Idle(t)
     /\ pb' = IF pb[p].ref = 1 THEN [pb EXCEPT ![p] = FreePb] ELSE [pb EXCEPT ![p].ref = @ - 1]
     /\ freeing' = [freeing EXCEPT ![t] = pb[p].next]
     /\ UNCHANGED refs

\* One turn of its loop: the count goes down, and the walk ends at a pbuf that is still referenced.
FreeOne(t) ==
  LET p == freeing[t]
      gone == pb[p].ref = 1
  IN /\ ~Idle(t)
     /\ pb' = IF gone THEN [pb EXCEPT ![p] = FreePb] ELSE [pb EXCEPT ![p].ref = @ - 1]
     /\ freeing' = [freeing EXCEPT ![t] = IF gone THEN pb[p].next ELSE NULL]
     /\ UNCHANGED refs

\* pbuf_cat: the tail is linked behind the last pbuf of h and every total grows.
Joined(b, h, tail) ==
  [p \in Pb |-> IF p \notin Chain(b, h) THEN b[p]
                ELSE [b[p] EXCEPT !.tot_len = @ + b[tail].tot_len,
                                  !.next = IF p = LastOf(b, h) THEN tail ELSE @]]

Joinable(t, h, tail) ==
  /\ Idle(t) /\ Changeable(t, h) /\ refs[t][tail] > 0 /\ Heads(pb, tail) = {}
  /\ Chain(pb, h) \cap Chain(pb, tail) = {}
  /\ \A u \in PbufThreads : freeing[u] \notin Chain(pb, tail)

\* The caller's reference of the tail is taken over.
pbuf_cat(t, h, tail) ==
  /\ Joinable(t, h, tail)
  /\ pb' = Joined(pb, h, tail)
  /\ refs' = [refs EXCEPT ![t][tail] = @ - 1]
  /\ UNCHANGED freeing

\* The caller keeps his reference of the tail.
pbuf_chain(t, h, tail) ==
  /\ Joinable(t, h, tail) /\ pb[tail].ref < MaxPbufRefs
  /\ pb' = [Joined(pb, h, tail) EXCEPT ![tail].ref = @ + 1]
  /\ UNCHANGED <<refs, freeing>>

\* The rest of the chain is let go by pbuf_free.
pbuf_dechain(t, p) ==
  LET q == pb[p].next
  IN /\ Idle(t) /\ Changeable(t, p) /\ q # NULL
     /\ pb' = [pb EXCEPT ![q].tot_len = pb[p].tot_len - pb[p].len,
                         ![p].next = NULL, ![p].tot_len = pb[p].len]
     /\ freeing' = [freeing EXCEPT ![t] = q]
     /\ UNCHANGED refs

\* The pbuf a chain of new_len bytes ends in, and what is left for it.
EndAt(p, new_len) ==
  CHOOSE q \in Chain(pb, p) :
    LET before == pb[p].tot_len - pb[q].tot_len
    IN before < new_len /\ new_len <= before + pb[q].len

\* pbuf_realloc shortens a chain: the totals before, the last pbuf, the rest is freed.
pbuf_realloc(t, p, new_len) ==
  LET q == EndAt(p, new_len)
      before == {r \in Chain(pb, p) : pb[r].tot_len > pb[q].tot_len}
      left == new_len - (pb[p].tot_len - pb[q].tot_len)
  IN /\ Idle(t) /\ Changeable(t, p) /\ 0 < new_len /\ new_len < pb[p].tot_len
     /\ pb' = [r \in Pb |->
                 IF r \in before THEN [pb[r] EXCEPT !.tot_len = @ + new_len - pb[p].tot_len]
                 ELSE IF r = q THEN [pb[r] EXCEPT !.len = left, !.tot_len = left, !.next = NULL]
                 ELSE pb[r]]
     /\ freeing' = [freeing EXCEPT ![t] = pb[q].next]
     /\ UNCHANGED refs

PbufNext ==
  \E t \in PbufThreads :
    \/ FreeOne(t)
    \/ \E n \in 1..NumPbufs : pbuf_alloc(t, n)
    \/ \E p \in Pb :
         \/ pbuf_ref(t, p) \/ pbuf_free(t, p) \/ pbuf_dechain(t, p)
         \/ \E n \in 1..NumPbufs * BytesPerPbuf : pbuf_realloc(t, p, n)
         \/ \E q \in Pb : pbuf_cat(t, p, q) \/ pbuf_chain(t, p, q)
         \/ \E u \in PbufThreads : HandOver(t, u, p)

PbufSpec == PbufInit /\ [][PbufNext]_pbufVars

----------------------------------------------------------------------------
(* Properties *)

\* Type invariant: counts and lengths keep within what the pool can hold.
PbufTypeOK ==
  /\ pb \in [Pb -> [ref : 0..MaxPbufRefs + 1, next : Pb \cup {NULL}, len : 0..BytesPerPbuf,
                 tot_len : 0..NumPbufs * BytesPerPbuf]]
  /\ refs \in [PbufThreads -> [Pb -> 0..MaxPbufRefs + 1]]
  /\ freeing \in [PbufThreads -> Pb \cup {NULL}]

\* The count of a pbuf is the number of references to it: of threads, of the pbuf before it in its
\* chain, and of a walk of pbuf_free that has reached it. So no pbuf is freed while somebody may use
\* it, and none is lost.
RefsExact ==
  \A p \in Pb :
    pb[p].ref = Cardinality(Heads(pb, p))
                + Cardinality({t \in PbufThreads : freeing[t] = p})
                + Cardinality({<<t, k>> \in PbufThreads \X (1..MaxPbufRefs + 1) : k <= refs[t][p]})

\* A pbuf in use links only to pbufs in use, and its tot_len is the length of the chain from it on:
\* what every user of a received packet relies on, whatever other threads free meanwhile.
TotalsExact ==
  \A p \in Pb : pb[p].ref > 0 =>
    /\ pb[p].next # NULL => pb[pb[p].next].ref > 0
    /\ pb[p].tot_len = pb[p].len + (IF pb[p].next = NULL THEN 0 ELSE pb[pb[p].next].tot_len)

\* Chains of pbuf.c as a whole: exact counts and exact lengths.
PbufsSound == PbufTypeOK /\ RefsExact /\ TotalsExact
=============================================================================
