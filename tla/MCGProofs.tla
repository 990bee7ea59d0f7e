----------------------------- MODULE MCGProofs -----------------------------
(***************************************************************************)
(* Theorems about the clock driver of MCG.c, for every set of boards and   *)
(* every sequence of calls.                                                *)
(*                                                                         *)
(* A call is a list of register writes and polls decided at its entry, and *)
(* the hardware settles its status bits in any order meanwhile. So the     *)
(* invariant cannot speak of the present registers alone: it says that the *)
(* steps which remain lead somewhere. Leads(s, r, t, r2, t2) says that the *)
(* steps s, begun with registers r and a status that settles from t, are   *)
(* safe one by one, poll for what the bits settle to, and end with the     *)
(* registers r2 and the status t2. It is stated with a set of places that  *)
(* is closed under the first step, not by recursion over the list.         *)
(*                                                                         *)
(* - Good(r): what holds of the registers between calls;                   *)
(* - the Course lemmas: the steps of each function lead from good          *)
(*   registers of the mode it starts from to good registers of the mode it *)
(*   ends in;                                                              *)
(* - the Kept lemmas: hence each call is refused or delivers what its      *)
(*   prototype says, the frequency it returns included;                    *)
(* - ClockInv: between calls the driver is at rest, during a call the      *)
(*   steps that remain lead to registers that deliver. Of boards with late *)
(*   status bits it has the types only: their polls run out anywhere.      *)
(*                                                                         *)
(* The last part is about main's clock set-up (MCGBoot) on boards whose    *)
(* bits may be late: BootInv lists the places each of its four calls       *)
(* passes, and those where one that gives up leaves the clock.             *)
(***************************************************************************)
EXTENDS MCGBoot, TLAPS

-----------------------------------------------------------------------------
(* The status register.                                                    *)

\* What each mode looks like in the status register; the low-power modes differ in LP only.
Shows(m, t, lp) ==
  \/ m = "FEI" /\ t.clkst = 0 /\ t.irefst = 1 /\ t.pllst = 0
  \/ m = "FEE" /\ t.clkst = 0 /\ t.irefst = 0 /\ t.pllst = 0
  \/ m = "FBI" /\ t.clkst = 1 /\ t.irefst = 1 /\ t.pllst = 0 /\ lp = 0
  \/ m = "BLPI" /\ t.clkst = 1 /\ t.irefst = 1 /\ t.pllst = 0 /\ lp = 1
  \/ m = "FBE" /\ t.clkst = 2 /\ t.irefst = 0 /\ t.pllst = 0 /\ lp = 0
  \/ m = "PBE" /\ t.clkst = 2 /\ t.irefst = 0 /\ t.pllst = 1 /\ lp = 0
  \/ m = "BLPE" /\ t.clkst = 2 /\ t.irefst = 0 /\ lp = 1
  \/ m = "PEE" /\ t.clkst = 3 /\ t.irefst = 0 /\ t.pllst = 1

\* what_mcg_mode tells the modes apart by these patterns.
LEMMA ModeShown ==
  ASSUME st \in Status, mcg \in Regs
  PROVE  /\ what_mcg_mode \in Modes \cup {"none"}
         /\ \A m \in Modes : what_mcg_mode = m <=> Shows(m, st, mcg.lp)
<1>. DEFINE c == st.clkst  i == st.irefst  p == st.pllst  l == mcg.lp
<1>1. c \in 0..3 /\ i \in {0, 1} /\ p \in {0, 1} /\ l \in {0, 1}
  BY SMT DEF Status, Regs, Bit
<1>2. 0 # 1 /\ 0 # 2 /\ 0 # 3 /\ 1 # 2 /\ 1 # 3 /\ 2 # 3
  BY SMT
<1>3. ASSUME c = 0, i = 1, p = 0 PROVE what_mcg_mode = "FEI"
  BY <1>2, <1>3, Zenon DEF what_mcg_mode
<1>4. ASSUME c = 0, i = 0, p = 0 PROVE what_mcg_mode = "FEE"
  BY <1>2, <1>4, Zenon DEF what_mcg_mode
<1>5. ASSUME c = 1, i = 1, p = 0, l = 0 PROVE what_mcg_mode = "FBI"
  BY <1>2, <1>5, Zenon DEF what_mcg_mode
<1>6. ASSUME c = 1, i = 1, p = 0, l = 1 PROVE what_mcg_mode = "BLPI"
  BY <1>2, <1>6, Zenon DEF what_mcg_mode
<1>7. ASSUME c = 2, i = 0, p = 0, l = 0 PROVE what_mcg_mode = "FBE"
  BY <1>2, <1>7, Zenon DEF what_mcg_mode
<1>8. ASSUME c = 2, i = 0, p = 1, l = 0 PROVE what_mcg_mode = "PBE"
  BY <1>2, <1>8, Zenon DEF what_mcg_mode
<1>9. ASSUME c = 2, i = 0, l = 1 PROVE what_mcg_mode = "BLPE"
  BY <1>2, <1>9, Zenon DEF what_mcg_mode
<1>10. ASSUME c = 3, i = 0, p = 1 PROVE what_mcg_mode = "PEE"
  BY <1>2, <1>10, Zenon DEF what_mcg_mode
<1>. DEFINE None == \A m \in Modes : ~Shows(m, st, l)
<1>11. ASSUME None PROVE what_mcg_mode = "none"
  <2>1. /\ ~(c = 0 /\ i = 1 /\ p = 0) /\ ~(c = 3 /\ i = 0 /\ p = 1) /\ ~(c = 2 /\ i = 0 /\ p = 1 /\ l = 0)
        /\ ~(c = 2 /\ i = 0 /\ p = 0 /\ l = 0) /\ ~(c = 2 /\ i = 0 /\ l = 1)
        /\ ~(c = 1 /\ i = 1 /\ p = 0 /\ l = 1) /\ ~(c = 1 /\ i = 1 /\ p = 0 /\ l = 0)
        /\ ~(c = 0 /\ i = 0 /\ p = 0)
    BY <1>11, Zenon DEF Shows, Modes
  <2>. QED
    BY <2>1, Zenon DEF what_mcg_mode
<1>. HIDE DEF c, i, p, l
<1>12. \A m \in Modes : Shows(m, st, l) => what_mcg_mode = m
  <2>. SUFFICES ASSUME NEW m \in Modes, Shows(m, st, l) PROVE what_mcg_mode = m
    OBVIOUS
  <2>. QED
    BY <1>3, <1>4, <1>5, <1>6, <1>7, <1>8, <1>9, <1>10, SMT DEF Shows, c, i, p
<1>13. \A m, n \in Modes : Shows(m, st, l) /\ Shows(n, st, l) => m = n
  BY <1>2, <1>1, SMT DEF Shows, Modes, c, i, p
<1>14. "none" \notin Modes
  BY Zenon DEF Modes
<1>15. CASE None
  BY <1>11, <1>14, <1>15, Zenon DEF l
<1>16. CASE ~None
  BY <1>12, <1>13, <1>16, Zenon DEF l
<1>. QED
  BY <1>15, <1>16

\* Where the status bits settle, apart from the reserved value of CLKS.
ClkTo(r) == IF r.clks = 0 THEN 3 * r.plls ELSE r.clks
LockTo(r) == IF r.plls = 1 /\ r.lp = 0 THEN 1 ELSE 0
OscTo(r) == IF r.erefs0 = 1 /\ r.oscsel = 0 /\ (r.irefs = 0 \/ r.clks = 2) THEN 1 ELSE 0

\* Where each status bit settles, unless CLKS is reserved.
LEMMA TargetFields ==
  ASSUME NEW r \in Regs, NEW s, r.clks # 3
  PROVE  /\ Target("clkst", r, s) = ClkTo(r)
         /\ Target("irefst", r, s) = r.irefs
         /\ Target("pllst", r, s) = r.plls
         /\ Target("lock0", r, s) = LockTo(r)
         /\ Target("oscinit0", r, s) = OscTo(r)
         /\ Target("ircst", r, s) = r.ircs
  BY Zenon DEF Target, ClkTo, LockTo, OscTo

\* The values the bits settle to are values of their fields.
LEMMA TargetTypes ==
  ASSUME NEW r \in Regs, r.clks # 3
  PROVE  ClkTo(r) \in 0..3 /\ LockTo(r) \in Bit /\ OscTo(r) \in Bit /\ r.irefs \in Bit /\ r.plls \in Bit
         /\ r.ircs \in Bit
  BY SMT DEF Regs, Bit, ClkTo, LockTo, OscTo

\* Each status bit is as in t or has settled.
Between(s, t, r) ==
  /\ s.clkst = t.clkst \/ s.clkst = ClkTo(r)
  /\ s.irefst = t.irefst \/ s.irefst = r.irefs
  /\ s.pllst = t.pllst \/ s.pllst = r.plls
  /\ s.lock0 = t.lock0 \/ s.lock0 = LockTo(r)
  /\ s.oscinit0 = t.oscinit0 \/ s.oscinit0 = OscTo(r)
  /\ s.ircst = t.ircst \/ s.ircst = r.ircs

\* A status, bit by bit.
Bits(c, i, p, l, o, k) ==
  [clkst |-> c, irefst |-> i, pllst |-> p, lock0 |-> l, oscinit0 |-> o, ircst |-> k]

\* Such a status is one of MCG_S.
LEMMA BitsType ==
  ASSUME NEW c \in 0..3, NEW i \in Bit, NEW p \in Bit, NEW l \in Bit, NEW o \in Bit, NEW k \in Bit
  PROVE  Bits(c, i, p, l, o, k) \in Status
  BY Zenon DEF Bits, Status

SettledBits(r) == Bits(ClkTo(r), r.irefs, r.plls, LockTo(r), OscTo(r), r.ircs)

-----------------------------------------------------------------------------
(* The course of a call.                                                   *)

\* Statuses in which an external clock is in use, and in which none is.
UsesExternal(c, i, p) == i = 0 /\ (c = 2 \/ (c = 3 /\ p = 1) \/ (c = 0 /\ p = 0))
UsesInternal(c, i, p) == i = 1 /\ p = 0 /\ c \in {0, 1}

\* With registers r, and a status that settles from t, no monitor fires and the PLL is not used unlocked.
Safe(r, t) ==
  /\ r.clks # 3
  /\ r.cme0 = 1 => /\ r.oscsel = 0
                   /\ \A c \in {t.clkst, ClkTo(r)}, i \in {t.irefst, r.irefs}, p \in {t.pllst, r.plls} :
                        UsesExternal(c, i, p)
  /\ r.cme1 = 1 => r.oscsel = 1 /\ t.irefst = 0 /\ r.irefs = 0
  /\ t.clkst # 3 /\ ClkTo(r) = 3 => t.lock0 = 1 /\ LockTo(r) = 1

\* Writing r1 over r, where the status settles from t and from t1 afterwards.
Writes(r, t, r1, t1) ==
  /\ t.clkst = ClkTo(r) \/ ClkTo(r1) = ClkTo(r)
  /\ t.irefst = r.irefs \/ r1.irefs = r.irefs
  /\ t.pllst = r.plls \/ r1.plls = r.plls
  /\ t.lock0 = LockTo(r) \/ LockTo(r1) = LockTo(r)
  /\ t.oscinit0 = OscTo(r) \/ OscTo(r1) = OscTo(r)
  /\ t.ircst = r.ircs \/ r1.ircs = r.ircs
  /\ t1.clkst = t.clkst /\ t1.irefst = t.irefst /\ t1.pllst = t.pllst /\ t1.ircst = t.ircst
  /\ t1.lock0 = IF r1.prdiv0 # r.prdiv0 \/ r1.vdiv0 # r.vdiv0 \/ LockTo(r1) = 0 THEN 0 ELSE t.lock0
  /\ t1.oscinit0 = IF OscTo(r1) = 0 THEN 0 ELSE t.oscinit0
  /\ t.clkst = 3 \/ ClkTo(r) = 3 => r1.prdiv0 = r.prdiv0 /\ r1.vdiv0 = r.vdiv0
  /\ r1.oscsel # r.oscsel =>
       \A c \in {t.clkst, ClkTo(r)}, i \in {t.irefst, r.irefs}, p \in {t.pllst, r.plls} :
         UsesInternal(c, i, p)

\* Polling b until it is v.
Polls(r, t, b, v, t1) ==
  /\ b \in StatusBits /\ v = Target(b, r, t)
  /\ t1.clkst = (IF b = "clkst" THEN v ELSE t.clkst)
  /\ t1.irefst = (IF b = "irefst" THEN v ELSE t.irefst)
  /\ t1.pllst = (IF b = "pllst" THEN v ELSE t.pllst)
  /\ t1.lock0 = (IF b = "lock0" THEN v ELSE t.lock0)
  /\ t1.oscinit0 = (IF b = "oscinit0" THEN v ELSE t.oscinit0)
  /\ t1.ircst = (IF b = "ircst" THEN v ELSE t.ircst)

Does(x, r, t, r1, t1) ==
  /\ x \in Steps /\ Safe(r, t) /\ Safe(r1, t1)
  /\ \/ x.op = "write" /\ x.regs = r1 /\ Writes(r, t, r1, t1)
     \/ x.op = "poll" /\ r1 = r /\ Polls(r, t, x.bit, x.want, t1)

\* The steps s lead from registers r and status t to r2 and t2.  A set of places on the way to r2 and
\* t2 is closed under taking the first step.
Places == Seq(Steps) \X Regs \X Status

Traced(P, r2, t2) ==
  \A s \in Seq(Steps), r \in Regs, t \in Status : <<s, r, t>> \in P =>
    /\ s = <<>> => r = r2 /\ t = t2
    /\ s # <<>> => \E r1 \in Regs, t1 \in Status :
                     Does(Head(s), r, t, r1, t1) /\ <<Tail(s), r1, t1>> \in P

Leads(s, r, t, r2, t2) ==
  /\ s \in Seq(Steps) /\ r \in Regs /\ t \in Status
  /\ \E P \in SUBSET Places : Traced(P, r2, t2) /\ <<s, r, t>> \in P

\* No step leads where one is.
LEMMA LeadsNone ==
  ASSUME NEW r \in Regs, NEW t \in Status
  PROVE  Leads(<<>>, r, t, r, t)
<1>. DEFINE P == {<<<<>>, r, t>>}
<1>1. <<>> \in Seq(Steps)
  BY SMT
<1>2. P \in SUBSET Places
  <2>1. <<<<>>, r, t>> \in Places
    BY <1>1, Zenon DEF Places
  <2>. QED
    BY <2>1, Zenon
<1>3. Traced(P, r, t)
  BY <1>1, Zenon DEF Traced
<1>. QED
  BY <1>1, <1>2, <1>3, Zenon DEF Leads

\* A course begins with a step that does something safe and leads on.
LEMMA LeadsFirst ==
  ASSUME NEW s, NEW r, NEW t, NEW r2, NEW t2, Leads(s, r, t, r2, t2)
  PROVE  /\ s \in Seq(Steps) /\ r \in Regs /\ t \in Status
         /\ s = <<>> => r = r2 /\ t = t2
         /\ s # <<>> => \E r1 \in Regs, t1 \in Status :
                          Does(Head(s), r, t, r1, t1) /\ Leads(Tail(s), r1, t1, r2, t2)
<1>1. s \in Seq(Steps) /\ r \in Regs /\ t \in Status
  BY Zenon DEF Leads
<1>2. PICK P \in SUBSET Places : Traced(P, r2, t2) /\ <<s, r, t>> \in P
  BY Zenon DEF Leads
<1>3. s = <<>> => r = r2 /\ t = t2
  BY <1>1, <1>2, Zenon DEF Traced
<1>4. ASSUME s # <<>>
      PROVE  \E r1 \in Regs, t1 \in Status :
               Does(Head(s), r, t, r1, t1) /\ Leads(Tail(s), r1, t1, r2, t2)
  <2>1. PICK r1 \in Regs, t1 \in Status : Does(Head(s), r, t, r1, t1) /\ <<Tail(s), r1, t1>> \in P
    BY <1>1, <1>2, <1>4, Zenon DEF Traced
  <2>2. Tail(s) \in Seq(Steps)
    BY <1>1, <1>4, SMT
  <2>3. Leads(Tail(s), r1, t1, r2, t2)
    BY <1>2, <2>1, <2>2, Zenon DEF Leads
  <2>. QED
    BY <2>1, <2>3
<1>. QED
  BY <1>1, <1>3, <1>4

\* One step that can be done is a course.
LEMMA LeadsOne ==
  ASSUME NEW x, NEW r \in Regs, NEW t \in Status, NEW r1 \in Regs, NEW t1 \in Status, Does(x, r, t, r1, t1)
  PROVE  Leads(<<x>>, r, t, r1, t1)
<1>1. x \in Steps
  BY Zenon DEF Does
<1>. DEFINE q == <<x>>
<1>. DEFINE P == {<<q, r, t>>, <<<<>>, r1, t1>>}
<1>2. q \in Seq(Steps) /\ q # <<>> /\ Head(q) = x /\ Tail(q) = <<>> /\ <<>> \in Seq(Steps)
  BY <1>1, SMT
<1>. HIDE DEF q
<1>3. P \in SUBSET Places
  <2>1. <<q, r, t>> \in Places /\ <<<<>>, r1, t1>> \in Places
    BY <1>2, Zenon DEF Places
  <2>. QED
    BY <2>1, Zenon
<1>4. Traced(P, r1, t1)
  <2>. SUFFICES ASSUME NEW w \in Seq(Steps), NEW b \in Regs, NEW c \in Status, <<w, b, c>> \in P
                PROVE  /\ w = <<>> => b = r1 /\ c = t1
                       /\ w # <<>> => \E b1 \in Regs, c1 \in Status :
                                        Does(Head(w), b, c, b1, c1) /\ <<Tail(w), b1, c1>> \in P
    BY Zenon DEF Traced
  <2>1. (w = q /\ b = r /\ c = t) \/ (w = <<>> /\ b = r1 /\ c = t1)
    BY Zenon
  <2>. QED
    BY <1>2, <2>1, Zenon
<1>. QED
  BY <1>2, <1>3, <1>4, Zenon DEF Leads, q

\* One course after the other.
LEMMA LeadsBoth ==
  ASSUME NEW s, NEW u, NEW r, NEW t, NEW r1, NEW t1, NEW r2, NEW t2,
         Leads(s, r, t, r1, t1), Leads(u, r1, t1, r2, t2)
  PROVE  Leads(s \o u, r, t, r2, t2)
<1>1. PICK P \in SUBSET Places : Traced(P, r1, t1) /\ <<s, r, t>> \in P
  BY Zenon DEF Leads
<1>2. PICK U \in SUBSET Places : Traced(U, r2, t2) /\ <<u, r1, t1>> \in U
  BY Zenon DEF Leads
<1>3. /\ s \in Seq(Steps) /\ r \in Regs /\ t \in Status
      /\ u \in Seq(Steps) /\ r1 \in Regs /\ t1 \in Status
  BY Zenon DEF Leads
<1>. DEFINE Q == U \cup {<<z[1] \o u, z[2], z[3]>> : z \in P}
<1>4. ASSUME NEW a \in Seq(Steps), NEW b \in Regs, NEW c \in Status, <<a, b, c>> \in P
      PROVE  <<a \o u, b, c>> \in Q
  <2>. DEFINE y == <<a, b, c>>
  <2>1. y[1] = a /\ y[2] = b /\ y[3] = c
    BY Zenon
  <2>. QED
    BY <1>4, <2>1, Zenon
<1>5. Q \in SUBSET Places
  <2>. SUFFICES ASSUME NEW z \in P PROVE <<z[1] \o u, z[2], z[3]>> \in Places
    BY <1>2, Zenon
  <2>1. z[1] \in Seq(Steps) /\ z[2] \in Regs /\ z[3] \in Status
    BY SMT DEF Places
  <2>2. z[1] \o u \in Seq(Steps)
    BY <1>3, <2>1, SMT
  <2>. QED
    BY <2>1, <2>2, Zenon DEF Places
<1>6. Traced(Q, r2, t2)
  <2>. SUFFICES ASSUME NEW w \in Seq(Steps), NEW b \in Regs, NEW c \in Status, <<w, b, c>> \in Q
                PROVE  /\ w = <<>> => b = r2 /\ c = t2
                       /\ w # <<>> => \E b1 \in Regs, c1 \in Status :
                                        Does(Head(w), b, c, b1, c1) /\ <<Tail(w), b1, c1>> \in Q
    BY Zenon DEF Traced
  <2>1. CASE <<w, b, c>> \in U
    <3>1. w = <<>> => b = r2 /\ c = t2
      BY <1>2, <2>1, Zenon DEF Traced
    <3>2. ASSUME w # <<>>
          PROVE  \E b1 \in Regs, c1 \in Status : Does(Head(w), b, c, b1, c1) /\ <<Tail(w), b1, c1>> \in Q
      <4>1. PICK b1 \in Regs, c1 \in Status : Does(Head(w), b, c, b1, c1) /\ <<Tail(w), b1, c1>> \in U
        BY <1>2, <2>1, <3>2, Zenon DEF Traced
      <4>. QED
        BY <4>1, Zenon
    <3>. QED
      BY <3>1, <3>2
  <2>2. CASE <<w, b, c>> \notin U
    <3>1. PICK z \in P : <<w, b, c>> = <<z[1] \o u, z[2], z[3]>>
      BY <2>2, Zenon
    <3>. DEFINE a == z[1]
    <3>2. a \in Seq(Steps) /\ z = <<a, z[2], z[3]>>
      BY SMT DEF Places
    <3>3. w = a \o u /\ b = z[2] /\ c = z[3]
      BY <3>1, Zenon
    <3>. HIDE DEF a
    <3>4. <<a, b, c>> \in P
      BY <3>2, <3>3, Zenon
    <3>5. CASE a = <<>>
      <4>1. w = u
        BY <1>3, <3>3, <3>5, SMT
      <4>2. b = r1 /\ c = t1
        BY <1>1, <3>2, <3>4, <3>5, Zenon DEF Traced
      <4>. QED
        BY <1>2, <2>2, <4>1, <4>2, Zenon
    <3>6. CASE a # <<>>
      <4>1. w # <<>> /\ Head(w) = Head(a) /\ Tail(w) = Tail(a) \o u /\ Tail(a) \in Seq(Steps)
        BY <1>3, <3>2, <3>3, <3>6, SMT
      <4>2. PICK b1 \in Regs, c1 \in Status : Does(Head(a), b, c, b1, c1) /\ <<Tail(a), b1, c1>> \in P
        BY <1>1, <3>2, <3>4, <3>6, Zenon DEF Traced
      <4>3. <<Tail(a) \o u, b1, c1>> \in Q
        BY <1>4, <4>1, <4>2, Zenon
      <4>. QED
        BY <4>1, <4>2, <4>3, Zenon
    <3>. QED
      BY <3>5, <3>6
  <2>. QED
    BY <2>1, <2>2
<1>7. s \o u \in Seq(Steps)
  BY <1>3, SMT
<1>8. <<s \o u, r, t>> \in Q
  BY <1>1, <1>3, <1>4, Zenon
<1>. QED
  BY <1>3, <1>5, <1>6, <1>7, <1>8, Zenon DEF Leads

-----------------------------------------------------------------------------
(* Single steps.                                                           *)

ErrorCode == 1..(FirstFrequency - 1)

\* The steps of a call have their types.
LEMMA StepTypes ==
  /\ \A r \in Regs : Write(r) \in Steps /\ Write(r).op = "write" /\ Write(r).regs = r
  /\ \A b \in StatusBits, v \in 0..3, e \in ErrorCode :
       /\ Poll(b, v, e) \in Steps /\ Poll(b, v, e).op = "poll"
       /\ Poll(b, v, e).bit = b /\ Poll(b, v, e).want = v /\ Poll(b, v, e).err = e
  /\ Done \in Steps /\ Done.op = "return"
  BY Zenon DEF Steps, Write, Poll, Done, ErrorCode

\* A register write is a course of one step.
LEMMA WriteLeads ==
  ASSUME NEW r \in Regs, NEW t \in Status, NEW r1 \in Regs, NEW t1 \in Status,
         Safe(r, t), Safe(r1, t1), Writes(r, t, r1, t1)
  PROVE  Leads(<<Write(r1)>>, r, t, r1, t1)
<1>1. Does(Write(r1), r, t, r1, t1)
  BY StepTypes, Zenon DEF Does
<1>. QED
  BY <1>1, LeadsOne, Zenon

\* Registers r are in force, and the status settles from these bits.
At(r, c, i, p, l, o, k) ==
  /\ r \in Regs /\ c \in 0..3 /\ i \in Bit /\ p \in Bit /\ l \in Bit /\ o \in Bit /\ k \in Bit
  /\ Safe(r, Bits(c, i, p, l, o, k))

\* A poll waits for what the registers ask for; the status then settles from t1.
LEMMA PollLeads ==
  ASSUME NEW r \in Regs, NEW t \in Status, NEW t1 \in Status, NEW b \in StatusBits, NEW v \in 0..3,
         NEW e \in ErrorCode, Safe(r, t), Polls(r, t, b, v, t1)
  PROVE  Leads(<<Poll(b, v, e)>>, r, t, r, t1) /\ Safe(r, t1)
<1>1. Safe(r, t1)
  <2>1. /\ t1.clkst = t.clkst \/ t1.clkst = ClkTo(r)
        /\ t1.irefst = t.irefst \/ t1.irefst = r.irefs
        /\ t1.pllst = t.pllst \/ t1.pllst = r.plls
        /\ t1.lock0 = t.lock0 \/ t1.lock0 = LockTo(r)
    <3>1. r.clks # 3
      BY Zenon DEF Safe
    <3>. QED
      BY <3>1, TargetFields, Zenon DEF Polls
  <2>. QED
    BY <2>1, SMT DEF Safe
<1>2. Poll(b, v, e) \in Steps /\ Poll(b, v, e).op = "poll" /\ Poll(b, v, e).bit = b /\ Poll(b, v, e).want = v
  BY StepTypes, SMT
<1>3. Does(Poll(b, v, e), r, t, r, t1)
  BY <1>1, <1>2, Zenon DEF Does
<1>. QED
  BY <1>1, <1>3, LeadsOne, Zenon

\* The registers r ask for the value v of the status bit b; e is the code if it does not come.
Asks(b, v, e, r) ==
  /\ b = "clkst" => v = ClkTo(r)
  /\ b = "irefst" => v = r.irefs
  /\ b = "pllst" => v = r.plls
  /\ b = "lock0" => v = LockTo(r)
  /\ b = "oscinit0" => v = OscTo(r)
  /\ b = "ircst" => v = r.ircs
  /\ e \in ErrorCode

\* A poll of CLKST that asks for what CLKST settles to.
LEMMA PollClkst ==
  ASSUME NEW r, NEW c, NEW i, NEW p, NEW l, NEW o, NEW k, NEW v, NEW e,
         At(r, c, i, p, l, o, k), Asks("clkst", v, e, r)
  PROVE  /\ Leads(<<Poll("clkst", v, e)>>, r, Bits(c, i, p, l, o, k), r, Bits(v, i, p, l, o, k))
         /\ At(r, v, i, p, l, o, k)
<1>. DEFINE t == Bits(c, i, p, l, o, k)  t1 == Bits(v, i, p, l, o, k)
<1>0. v = ClkTo(r) /\ e \in ErrorCode
  BY Zenon DEF Asks
<1>1. r \in Regs /\ r.clks # 3 /\ Safe(r, t)
  BY Zenon DEF At, Safe
<1>2. v \in 0..3 /\ ("clkst" # "clkst" => v \in Bit)
  BY <1>0, <1>1, TargetTypes, SMT DEF Bit
<1>3. t \in Status /\ t1 \in Status
  BY <1>2, Zenon DEF At, Bits, Status
<1>4. Polls(r, t, "clkst", v, t1)
  <2>1. Target("clkst", r, t) = v /\ "clkst" \in StatusBits
    BY <1>0, <1>1, TargetFields, Zenon DEF StatusBits
  <2>. QED
    BY <2>1, Zenon DEF Polls, Bits
<1>. HIDE DEF t, t1
<1>5. "clkst" \in StatusBits
  BY Zenon DEF StatusBits
<1>6. Leads(<<Poll("clkst", v, e)>>, r, t, r, t1) /\ Safe(r, t1)
  BY <1>0, <1>1, <1>2, <1>3, <1>4, <1>5, PollLeads, Zenon
<1>. QED
  BY <1>1, <1>2, <1>6, Zenon DEF At, t, t1

\* A poll of IREFST that asks for what IREFST settles to.
LEMMA PollIrefst ==
  ASSUME NEW r, NEW c, NEW i, NEW p, NEW l, NEW o, NEW k, NEW v, NEW e,
         At(r, c, i, p, l, o, k), Asks("irefst", v, e, r)
  PROVE  /\ Leads(<<Poll("irefst", v, e)>>, r, Bits(c, i, p, l, o, k), r, Bits(c, v, p, l, o, k))
         /\ At(r, c, v, p, l, o, k)
<1>. DEFINE t == Bits(c, i, p, l, o, k)  t1 == Bits(c, v, p, l, o, k)
<1>0. v = r.irefs /\ e \in ErrorCode
  BY Zenon DEF Asks
<1>1. r \in Regs /\ r.clks # 3 /\ Safe(r, t)
  BY Zenon DEF At, Safe
<1>2. v \in 0..3 /\ ("irefst" # "clkst" => v \in Bit)
  BY <1>0, <1>1, TargetTypes, SMT DEF Bit
<1>3. t \in Status /\ t1 \in Status
  BY <1>2, Zenon DEF At, Bits, Status
<1>4. Polls(r, t, "irefst", v, t1)
  <2>1. Target("irefst", r, t) = v /\ "irefst" \in StatusBits
    BY <1>0, <1>1, TargetFields, Zenon DEF StatusBits
  <2>. QED
    BY <2>1, Zenon DEF Polls, Bits
<1>. HIDE DEF t, t1
<1>5. "irefst" \in StatusBits
  BY Zenon DEF StatusBits
<1>6. Leads(<<Poll("irefst", v, e)>>, r, t, r, t1) /\ Safe(r, t1)
  BY <1>0, <1>1, <1>2, <1>3, <1>4, <1>5, PollLeads, Zenon
<1>. QED
  BY <1>1, <1>2, <1>6, Zenon DEF At, t, t1

\* A poll of PLLST that asks for what PLLST settles to.
LEMMA PollPllst ==
  ASSUME NEW r, NEW c, NEW i, NEW p, NEW l, NEW o, NEW k, NEW v, NEW e,
         At(r, c, i, p, l, o, k), Asks("pllst", v, e, r)
  PROVE  /\ Leads(<<Poll("pllst", v, e)>>, r, Bits(c, i, p, l, o, k), r, Bits(c, i, v, l, o, k))
         /\ At(r, c, i, v, l, o, k)
<1>. DEFINE t == Bits(c, i, p, l, o, k)  t1 == Bits(c, i, v, l, o, k)
<1>0. v = r.plls /\ e \in ErrorCode
  BY Zenon DEF Asks
<1>1. r \in Regs /\ r.clks # 3 /\ Safe(r, t)
  BY Zenon DEF At, Safe
<1>2. v \in 0..3 /\ ("pllst" # "clkst" => v \in Bit)
  BY <1>0, <1>1, TargetTypes, SMT DEF Bit
<1>3. t \in Status /\ t1 \in Status
  BY <1>2, Zenon DEF At, Bits, Status
<1>4. Polls(r, t, "pllst", v, t1)
  <2>1. Target("pllst", r, t) = v /\ "pllst" \in StatusBits
    BY <1>0, <1>1, TargetFields, Zenon DEF StatusBits
  <2>. QED
    BY <2>1, Zenon DEF Polls, Bits
<1>. HIDE DEF t, t1
<1>5. "pllst" \in StatusBits
  BY Zenon DEF StatusBits
<1>6. Leads(<<Poll("pllst", v, e)>>, r, t, r, t1) /\ Safe(r, t1)
  BY <1>0, <1>1, <1>2, <1>3, <1>4, <1>5, PollLeads, Zenon
<1>. QED
  BY <1>1, <1>2, <1>6, Zenon DEF At, t, t1

\* A poll of LOCK0 that asks for what LOCK0 settles to.
LEMMA PollLock ==
  ASSUME NEW r, NEW c, NEW i, NEW p, NEW l, NEW o, NEW k, NEW v, NEW e,
         At(r, c, i, p, l, o, k), Asks("lock0", v, e, r)
  PROVE  /\ Leads(<<Poll("lock0", v, e)>>, r, Bits(c, i, p, l, o, k), r, Bits(c, i, p, v, o, k))
         /\ At(r, c, i, p, v, o, k)
<1>. DEFINE t == Bits(c, i, p, l, o, k)  t1 == Bits(c, i, p, v, o, k)
<1>0. v = LockTo(r) /\ e \in ErrorCode
  BY Zenon DEF Asks
<1>1. r \in Regs /\ r.clks # 3 /\ Safe(r, t)
  BY Zenon DEF At, Safe
<1>2. v \in 0..3 /\ ("lock0" # "clkst" => v \in Bit)
  BY <1>0, <1>1, TargetTypes, SMT DEF Bit
<1>3. t \in Status /\ t1 \in Status
  BY <1>2, Zenon DEF At, Bits, Status
<1>4. Polls(r, t, "lock0", v, t1)
  <2>1. Target("lock0", r, t) = v /\ "lock0" \in StatusBits
    BY <1>0, <1>1, TargetFields, Zenon DEF StatusBits
  <2>. QED
    BY <2>1, Zenon DEF Polls, Bits
<1>. HIDE DEF t, t1
<1>5. "lock0" \in StatusBits
  BY Zenon DEF StatusBits
<1>6. Leads(<<Poll("lock0", v, e)>>, r, t, r, t1) /\ Safe(r, t1)
  BY <1>0, <1>1, <1>2, <1>3, <1>4, <1>5, PollLeads, Zenon
<1>. QED
  BY <1>1, <1>2, <1>6, Zenon DEF At, t, t1

\* A poll of OSCINIT0 that asks for what OSCINIT0 settles to.
LEMMA PollOsc ==
  ASSUME NEW r, NEW c, NEW i, NEW p, NEW l, NEW o, NEW k, NEW v, NEW e,
         At(r, c, i, p, l, o, k), Asks("oscinit0", v, e, r)
  PROVE  /\ Leads(<<Poll("oscinit0", v, e)>>, r, Bits(c, i, p, l, o, k), r, Bits(c, i, p, l, v, k))
         /\ At(r, c, i, p, l, v, k)
<1>. DEFINE t == Bits(c, i, p, l, o, k)  t1 == Bits(c, i, p, l, v, k)
<1>0. v = OscTo(r) /\ e \in ErrorCode
  BY Zenon DEF Asks
<1>1. r \in Regs /\ r.clks # 3 /\ Safe(r, t)
  BY Zenon DEF At, Safe
<1>2. v \in 0..3 /\ ("oscinit0" # "clkst" => v \in Bit)
  BY <1>0, <1>1, TargetTypes, SMT DEF Bit
<1>3. t \in Status /\ t1 \in Status
  BY <1>2, Zenon DEF At, Bits, Status
<1>4. Polls(r, t, "oscinit0", v, t1)
  <2>1. Target("oscinit0", r, t) = v /\ "oscinit0" \in StatusBits
    BY <1>0, <1>1, TargetFields, Zenon DEF StatusBits
  <2>. QED
    BY <2>1, Zenon DEF Polls, Bits
<1>. HIDE DEF t, t1
<1>5. "oscinit0" \in StatusBits
  BY Zenon DEF StatusBits
<1>6. Leads(<<Poll("oscinit0", v, e)>>, r, t, r, t1) /\ Safe(r, t1)
  BY <1>0, <1>1, <1>2, <1>3, <1>4, <1>5, PollLeads, Zenon
<1>. QED
  BY <1>1, <1>2, <1>6, Zenon DEF At, t, t1

\* A poll of IRCST that asks for what IRCST settles to.
LEMMA PollIrcst ==
  ASSUME NEW r, NEW c, NEW i, NEW p, NEW l, NEW o, NEW k, NEW v, NEW e,
         At(r, c, i, p, l, o, k), Asks("ircst", v, e, r)
  PROVE  /\ Leads(<<Poll("ircst", v, e)>>, r, Bits(c, i, p, l, o, k), r, Bits(c, i, p, l, o, v))
         /\ At(r, c, i, p, l, o, v)
<1>. DEFINE t == Bits(c, i, p, l, o, k)  t1 == Bits(c, i, p, l, o, v)
<1>0. v = r.ircs /\ e \in ErrorCode
  BY Zenon DEF Asks
<1>1. r \in Regs /\ r.clks # 3 /\ Safe(r, t)
  BY Zenon DEF At, Safe
<1>2. v \in 0..3 /\ ("ircst" # "clkst" => v \in Bit)
  BY <1>0, <1>1, TargetTypes, SMT DEF Bit
<1>3. t \in Status /\ t1 \in Status
  BY <1>2, Zenon DEF At, Bits, Status
<1>4. Polls(r, t, "ircst", v, t1)
  <2>1. Target("ircst", r, t) = v /\ "ircst" \in StatusBits
    BY <1>0, <1>1, TargetFields, Zenon DEF StatusBits
  <2>. QED
    BY <2>1, Zenon DEF Polls, Bits
<1>. HIDE DEF t, t1
<1>5. "ircst" \in StatusBits
  BY Zenon DEF StatusBits
<1>6. Leads(<<Poll("ircst", v, e)>>, r, t, r, t1) /\ Safe(r, t1)
  BY <1>0, <1>1, <1>2, <1>3, <1>4, <1>5, PollLeads, Zenon
<1>. QED
  BY <1>1, <1>2, <1>6, Zenon DEF At, t, t1

\* Writing r1 over r while the status settles from c, i, p, l, o, k; LOCK0 and OSCINIT0 become l1 and
\* o1 at once.
WriteFits(r, r1, c, i, p, l, o, k, l1, o1) ==
  /\ r1 \in Regs /\ l1 \in Bit /\ o1 \in Bit
  /\ c = ClkTo(r) \/ ClkTo(r1) = ClkTo(r)
  /\ i = r.irefs \/ r1.irefs = r.irefs
  /\ p = r.plls \/ r1.plls = r.plls
  /\ l = LockTo(r) \/ LockTo(r1) = LockTo(r)
  /\ o = OscTo(r) \/ OscTo(r1) = OscTo(r)
  /\ k = r.ircs \/ r1.ircs = r.ircs
  /\ l1 = IF r1.prdiv0 # r.prdiv0 \/ r1.vdiv0 # r.vdiv0 \/ LockTo(r1) = 0 THEN 0 ELSE l
  /\ o1 = IF OscTo(r1) = 0 THEN 0 ELSE o
  /\ c = 3 \/ ClkTo(r) = 3 => r1.prdiv0 = r.prdiv0 /\ r1.vdiv0 = r.vdiv0
  /\ r1.oscsel # r.oscsel =>
       \A x \in {c, ClkTo(r)}, y \in {i, r.irefs}, z \in {p, r.plls} : UsesInternal(x, y, z)
  /\ r1.clks # 3
  /\ r1.cme0 = 1 => /\ r1.oscsel = 0
                    /\ \A x \in {c, ClkTo(r1)}, y \in {i, r1.irefs}, z \in {p, r1.plls} : UsesExternal(x, y, z)
  /\ r1.cme1 = 1 => r1.oscsel = 1 /\ i = 0 /\ r1.irefs = 0
  /\ c # 3 /\ ClkTo(r1) = 3 => l1 = 1 /\ LockTo(r1) = 1

\* A write that fits is a course of one step.
LEMMA WriteBits ==
  ASSUME NEW r, NEW r1, NEW c, NEW i, NEW p, NEW l, NEW o, NEW k, NEW l1, NEW o1,
         At(r, c, i, p, l, o, k), WriteFits(r, r1, c, i, p, l, o, k, l1, o1)
  PROVE  /\ Leads(<<Write(r1)>>, r, Bits(c, i, p, l, o, k), r1, Bits(c, i, p, l1, o1, k))
         /\ At(r1, c, i, p, l1, o1, k)
<1>. DEFINE t == Bits(c, i, p, l, o, k)  t1 == Bits(c, i, p, l1, o1, k)
<1>1. t \in Status /\ t1 \in Status /\ r \in Regs /\ r1 \in Regs
  BY Zenon DEF At, WriteFits, Bits, Status
<1>2. t.clkst = c /\ t.irefst = i /\ t.pllst = p /\ t.lock0 = l /\ t.oscinit0 = o /\ t.ircst = k
  BY Zenon DEF Bits
<1>3. t1.clkst = c /\ t1.irefst = i /\ t1.pllst = p /\ t1.lock0 = l1 /\ t1.oscinit0 = o1 /\ t1.ircst = k
  BY Zenon DEF Bits
<1>4. Safe(r, t)
  BY DEF At
<1>. HIDE DEF t, t1
<1>5. Safe(r1, t1)
  BY <1>3, SMT DEF WriteFits, Safe
<1>6. Writes(r, t, r1, t1)
  BY <1>2, <1>3, SMT DEF WriteFits, Writes
<1>7. Leads(<<Write(r1)>>, r, t, r1, t1)
  BY <1>1, <1>4, <1>5, <1>6, WriteLeads, Zenon
<1>. QED
  BY <1>5, <1>7, Zenon DEF t, t1, At, WriteFits

-----------------------------------------------------------------------------
(* The modes as the registers ask for them.                                *)

InMode(m, r) ==
  \/ m = "FEI" /\ r.clks = 0 /\ r.irefs = 1 /\ r.plls = 0 /\ r.lp = 0
  \/ m = "FEE" /\ r.clks = 0 /\ r.irefs = 0 /\ r.plls = 0 /\ r.lp = 0
  \/ m = "FBI" /\ r.clks = 1 /\ r.irefs = 1 /\ r.plls = 0 /\ r.lp = 0
  \/ m = "BLPI" /\ r.clks = 1 /\ r.irefs = 1 /\ r.plls = 0 /\ r.lp = 1
  \/ m = "FBE" /\ r.clks = 2 /\ r.irefs = 0 /\ r.plls = 0 /\ r.lp = 0
  \/ m = "PBE" /\ r.clks = 2 /\ r.irefs = 0 /\ r.plls = 1 /\ r.lp = 0
  \/ m = "BLPE" /\ r.clks = 2 /\ r.irefs = 0 /\ r.lp = 1
  \/ m = "PEE" /\ r.clks = 0 /\ r.irefs = 0 /\ r.plls = 1 /\ r.lp = 0

FastestClock == 50000000

\* What holds of the registers between calls: they ask for a mode, an armed monitor has its clock,
\* the RTC is selected in FEE only, an external clock in use has its divider, and the reference of the
\* PLL is a frequency.
Good(r) ==
  /\ r \in Regs
  /\ \E m \in Modes : InMode(m, r)
  /\ r.cme0 = 1 => r.irefs = 0 /\ r.oscsel = 0
  /\ r.cme1 = 1 => r.oscsel = 1
  /\ r.oscsel = 1 => InMode("FEE", r) /\ r.frdiv = 0
  /\ r.oscsel = 0 /\ r.irefs = 0 =>
       /\ r.range = RangeFor(board.xtal) /\ r.frdiv = FrdivFor(board.xtal) /\ board.xtal <= FastestClock
  /\ r.plls = 1 => board.xtal \div (r.prdiv0 + 1) >= FirstFrequency

\* Registers as they are between calls are safe: no monitor fires and the PLL in use is locked.
LEMMA GoodIsSafe ==
  ASSUME NEW r, Good(r)
  PROVE  /\ Safe(r, SettledBits(r)) /\ r.clks # 3 /\ ClkTo(r) \in 0..3 /\ LockTo(r) \in Bit /\ OscTo(r) \in Bit
         /\ r.irefs \in Bit /\ r.plls \in Bit /\ r.ircs \in Bit
<1>1. r \in Regs /\ r.clks # 3
  BY SMT DEF Good, InMode
<1>2. /\ ClkTo(r) \in 0..3 /\ LockTo(r) \in Bit /\ OscTo(r) \in Bit
      /\ r.irefs \in Bit /\ r.plls \in Bit /\ r.ircs \in Bit
  BY <1>1, TargetTypes
<1>. DEFINE t == SettledBits(r)
<1>3. t.clkst = ClkTo(r) /\ t.irefst = r.irefs /\ t.pllst = r.plls /\ t.lock0 = LockTo(r)
  BY Zenon DEF SettledBits, Bits
<1>. HIDE DEF t
<1>4. r.cme0 = 1 => UsesExternal(ClkTo(r), r.irefs, r.plls)
  BY <1>1, SMT DEF Good, InMode, UsesExternal, ClkTo, Regs, Bit
<1>5. ClkTo(r) = 3 => LockTo(r) = 1
  BY <1>1, SMT DEF Good, InMode, ClkTo, LockTo, Regs, Bit
<1>6. r.cme1 = 1 => r.irefs = 0
  BY <1>1, SMT DEF Good, InMode
<1>7. Safe(r, t)
  BY <1>1, <1>3, <1>4, <1>5, <1>6, SMT DEF Safe, Good
<1>. QED
  BY <1>1, <1>2, <1>7 DEF t

\* They are a place courses can begin.
LEMMA GoodAt ==
  ASSUME NEW r, Good(r)
  PROVE  At(r, ClkTo(r), r.irefs, r.plls, LockTo(r), OscTo(r), r.ircs)
  BY GoodIsSafe, Zenon DEF Good, At, SettledBits

\* Lists put together.
LEMMA SameLists ==
  ASSUME NEW S, NEW s \in Seq(S), NEW u \in Seq(S), Len(s) = Len(u), \A q \in 1..Len(s) : s[q] = u[q]
  PROVE  s = u
  BY SMT

\* Two steps, one after the other.
LEMMA ListOf2 ==
  ASSUME NEW S, NEW x1 \in S, NEW x2 \in S
  PROVE  <<x1>> \o <<x2>> = <<x1, x2>>
<1>. DEFINE s == <<x1>> \o <<x2>>  u == <<x1, x2>>
<1>1. s \in Seq(S) /\ Len(s) = 2 /\ s[1] = x1 /\ s[2] = x2
  BY SMT
<1>2. u \in Seq(S) /\ Len(u) = 2 /\ u[1] = x1 /\ u[2] = x2
  BY SMT
<1>. HIDE DEF s, u
<1>3. s = u
  BY <1>1, <1>2, SMT
<1>. QED
  BY <1>3 DEF s, u

\* Three steps.
LEMMA ListOf3 ==
  ASSUME NEW S, NEW x1 \in S, NEW x2 \in S, NEW x3 \in S
  PROVE  <<x1, x2>> \o <<x3>> = <<x1, x2, x3>>
<1>. DEFINE s == <<x1, x2>> \o <<x3>>  u == <<x1, x2, x3>>
<1>1. s \in Seq(S) /\ Len(s) = 3 /\ s[1] = x1 /\ s[2] = x2 /\ s[3] = x3
  BY SMT
<1>2. u \in Seq(S) /\ Len(u) = 3 /\ u[1] = x1 /\ u[2] = x2 /\ u[3] = x3
  BY SMT
<1>. HIDE DEF s, u
<1>3. s = u
  BY <1>1, <1>2, SMT
<1>. QED
  BY <1>3 DEF s, u

\* Four steps.
LEMMA ListOf4 ==
  ASSUME NEW S, NEW x1 \in S, NEW x2 \in S, NEW x3 \in S, NEW x4 \in S
  PROVE  <<x1, x2>> \o <<x3, x4>> = <<x1, x2, x3, x4>>
<1>. DEFINE s == <<x1, x2>> \o <<x3, x4>>  u == <<x1, x2, x3, x4>>
<1>1. s \in Seq(S) /\ Len(s) = 4 /\ s[1] = x1 /\ s[2] = x2 /\ s[3] = x3 /\ s[4] = x4
  BY SMT
<1>2. u \in Seq(S) /\ Len(u) = 4 /\ u[1] = x1 /\ u[2] = x2 /\ u[3] = x3 /\ u[4] = x4
  BY SMT
<1>. HIDE DEF s, u
<1>3. s = u
  BY <1>1, <1>2, SMT
<1>. QED
  BY <1>3 DEF s, u

\* The step of a course of one.
LEMMA OneStep ==
  ASSUME NEW x, NEW r, NEW t, NEW r1, NEW t1, Leads(<<x>>, r, t, r1, t1)
  PROVE  x \in Steps
<1>1. <<x>> \in Seq(Steps)
  BY LeadsFirst, Zenon
<1>. QED
  BY <1>1, SMT

\* Several steps in a row.
LEMMA Leads2 ==
  ASSUME NEW x1, NEW x2, NEW r, NEW t, NEW r1, NEW t1, NEW r2, NEW t2,
         Leads(<<x1>>, r, t, r1, t1), Leads(<<x2>>, r1, t1, r2, t2)
  PROVE  Leads(<<x1, x2>>, r, t, r2, t2)
<1>1. <<x1>> \o <<x2>> = <<x1, x2>>
  <2>1. x1 \in Steps /\ x2 \in Steps
    BY OneStep, Zenon
  <2>. QED
    BY <2>1, ListOf2, Zenon
<1>. QED
  BY <1>1, LeadsBoth, Zenon

\* Three steps in a row.
LEMMA Leads3 ==
  ASSUME NEW x1, NEW x2, NEW x3, NEW r, NEW t, NEW r1, NEW t1, NEW r2, NEW t2, NEW r3, NEW t3,
         Leads(<<x1>>, r, t, r1, t1), Leads(<<x2>>, r1, t1, r2, t2), Leads(<<x3>>, r2, t2, r3, t3)
  PROVE  Leads(<<x1, x2, x3>>, r, t, r3, t3)
<1>1. <<x1, x2>> \o <<x3>> = <<x1, x2, x3>>
  <2>1. x1 \in Steps /\ x2 \in Steps /\ x3 \in Steps
    BY OneStep, Zenon
  <2>. QED
    BY <2>1, ListOf3, Zenon
<1>2. Leads(<<x1, x2>>, r, t, r2, t2)
  BY Leads2, Zenon
<1>. QED
  BY <1>1, <1>2, LeadsBoth, Zenon

\* Four steps in a row.
LEMMA Leads4 ==
  ASSUME NEW x1, NEW x2, NEW x3, NEW x4, NEW r, NEW t, NEW r1, NEW t1, NEW r2, NEW t2, NEW r3, NEW t3,
         NEW r4, NEW t4,
         Leads(<<x1>>, r, t, r1, t1), Leads(<<x2>>, r1, t1, r2, t2), Leads(<<x3>>, r2, t2, r3, t3),
         Leads(<<x4>>, r3, t3, r4, t4)
  PROVE  Leads(<<x1, x2, x3, x4>>, r, t, r4, t4)
<1>1. <<x1, x2>> \o <<x3, x4>> = <<x1, x2, x3, x4>>
  <2>1. x1 \in Steps /\ x2 \in Steps /\ x3 \in Steps /\ x4 \in Steps
    BY OneStep, Zenon
  <2>. QED
    BY <2>1, ListOf4, Zenon
<1>2. Leads(<<x1, x2>>, r, t, r2, t2) /\ Leads(<<x3, x4>>, r2, t2, r4, t4)
  BY Leads2, Zenon
<1>. QED
  BY <1>1, <1>2, LeadsBoth, Zenon

\* Six steps in a row.
LEMMA Leads6 ==
  ASSUME NEW x1, NEW x2, NEW x3, NEW x4, NEW x5, NEW x6, NEW r, NEW t, NEW r3, NEW t3, NEW r6, NEW t6,
         Leads(<<x1, x2, x3>>, r, t, r3, t3), Leads(<<x4, x5, x6>>, r3, t3, r6, t6)
  PROVE  Leads(<<x1, x2, x3, x4, x5, x6>>, r, t, r6, t6)
<1>1. <<x1, x2, x3>> \o <<x4, x5, x6>> = <<x1, x2, x3, x4, x5, x6>>
  <2>1. x1 \in Steps /\ x2 \in Steps /\ x3 \in Steps /\ x4 \in Steps /\ x5 \in Steps /\ x6 \in Steps
    <3>1. <<x1, x2, x3>> \in Seq(Steps) /\ <<x4, x5, x6>> \in Seq(Steps)
      BY LeadsFirst, Zenon
    <3>. QED
      BY <3>1, SMT
  <2>. DEFINE s == <<x1, x2, x3>> \o <<x4, x5, x6>>  u == <<x1, x2, x3, x4, x5, x6>>
  <2>2. s \in Seq(Steps) /\ Len(s) = 6 /\ s[1] = x1 /\ s[2] = x2 /\ s[3] = x3 /\ s[4] = x4 /\ s[5] = x5 /\ s[6] = x6
    BY <2>1, SMT
  <2>3. u \in Seq(Steps) /\ Len(u) = 6 /\ u[1] = x1 /\ u[2] = x2 /\ u[3] = x3 /\ u[4] = x4 /\ u[5] = x5 /\ u[6] = x6
    BY <2>1, SMT
  <2>. HIDE DEF s, u
  <2>4. s = u
    <3>1. Len(s) = Len(u) /\ \A q \in 1..Len(s) : s[q] = u[q]
      BY <2>2, <2>3, SMT
    <3>. QED
      BY <2>2, <2>3, <3>1, SameLists, Zenon
  <2>. QED
    BY <2>4 DEF s, u
<1>. QED
  BY <1>1, LeadsBoth, Zenon

\* The bits registers settle to.
SettlesTo(r, c, i, p, l, o, k) ==
  c = ClkTo(r) /\ i = r.irefs /\ p = r.plls /\ l = LockTo(r) /\ o = OscTo(r) /\ k = r.ircs

\* The settled status of good registers, bit by bit.
LEMMA SettledAt ==
  ASSUME NEW r, Good(r), NEW c, NEW i, NEW p, NEW l, NEW o, NEW k, SettlesTo(r, c, i, p, l, o, k)
  PROVE  At(r, c, i, p, l, o, k) /\ SettledBits(r) = Bits(c, i, p, l, o, k)
  BY GoodAt, Zenon DEF SettledBits, SettlesTo

\* The error codes of the polls are no frequencies.
LEMMA Codes ==
  /\ \h11 \in ErrorCode /\ \h12 \in ErrorCode /\ \h13 \in ErrorCode /\ \h14 \in ErrorCode /\ \h15 \in ErrorCode
  /\ \h16 \in ErrorCode /\ \h18 \in ErrorCode /\ \h19 \in ErrorCode /\ \h1A \in ErrorCode /\ \h1B \in ErrorCode
  /\ \h23 \in ErrorCode /\ \h44 \in ErrorCode
  BY SMT DEF ErrorCode, FirstFrequency

\* The polls after the switch to the external reference.
AsksExt(r, e) == e = board.erefs /\ e \in Bit /\ r.irefs = 0 /\ OscTo(r) = e

\* OSCINIT0 for a crystal, then IREFST, are polled for what they settle to.
LEMMA PollExtLeads ==
  ASSUME NEW r, NEW c, NEW i, NEW p, NEW l, NEW k, NEW e,
         At(r, c, i, p, l, 0, k), AsksExt(r, e)
  PROVE  /\ Leads(PollExt, r, Bits(c, i, p, l, 0, k), r, Bits(c, 0, p, l, e, k))
         /\ At(r, c, 0, p, l, e, k)
<1>0. e = board.erefs /\ e \in Bit /\ r.irefs = 0 /\ OscTo(r) = e
  BY DEF AsksExt
<1>. DEFINE s == IF e = 1 THEN <<Poll("oscinit0", 1, \h23)>> ELSE <<>>
<1>1. Leads(s, r, Bits(c, i, p, l, 0, k), r, Bits(c, i, p, l, e, k)) /\ At(r, c, i, p, l, e, k)
  <2>1. CASE e = 1
    <3>1. Asks("oscinit0", 1, \h23, r)
      BY <1>0, <2>1, Codes, SMT DEF Asks
    <3>2. Leads(<<Poll("oscinit0", 1, \h23)>>, r, Bits(c, i, p, l, 0, k), r, Bits(c, i, p, l, 1, k))
          /\ At(r, c, i, p, l, 1, k)
      BY <3>1, PollOsc, Zenon
    <3>. QED
      BY <2>1, <3>2, Zenon
  <2>2. CASE e # 1
    <3>1. e = 0
      BY <1>0, <2>2, SMT DEF Bit
    <3>2. r \in Regs /\ Bits(c, i, p, l, 0, k) \in Status
      BY Zenon DEF At, Bits, Status
    <3>. QED
      BY <2>2, <3>1, <3>2, LeadsNone, Zenon
  <2>. QED
    BY <2>1, <2>2
<1>2. /\ Leads(<<Poll("irefst", 0, \h11)>>, r, Bits(c, i, p, l, e, k), r, Bits(c, 0, p, l, e, k))
      /\ At(r, c, 0, p, l, e, k)
  <2>1. Asks("irefst", 0, \h11, r)
    BY <1>0, Codes, SMT DEF Asks
  <2>. QED
    BY <1>1, <2>1, PollIrefst, Zenon
<1>3. PollExt = s \o <<Poll("irefst", 0, \h11)>>
  BY <1>0, Zenon DEF PollExt
<1>. HIDE DEF s
<1>. QED
  BY <1>1, <1>2, <1>3, LeadsBoth, Zenon

\* The polls for the PLL.
LEMMA PollPllLeads ==
  ASSUME NEW r, NEW c, NEW i, NEW p, NEW l, NEW o, NEW k,
         At(r, c, i, p, l, o, k), r.plls = 1, LockTo(r) = 1
  PROVE  /\ Leads(PollPll, r, Bits(c, i, p, l, o, k), r, Bits(c, i, 1, 1, o, k))
         /\ At(r, c, i, 1, 1, o, k)
<1>1. /\ Leads(<<Poll("pllst", 1, \h16)>>, r, Bits(c, i, p, l, o, k), r, Bits(c, i, 1, l, o, k))
      /\ At(r, c, i, 1, l, o, k)
  <2>1. Asks("pllst", 1, \h16, r)
    BY Codes, SMT DEF Asks
  <2>. QED
    BY <2>1, PollPllst, Zenon
<1>2. /\ Leads(<<Poll("lock0", 1, \h44)>>, r, Bits(c, i, 1, l, o, k), r, Bits(c, i, 1, 1, o, k))
      /\ At(r, c, i, 1, 1, o, k)
  <2>1. Asks("lock0", 1, \h44, r)
    BY Codes, SMT DEF Asks
  <2>. QED
    BY <1>1, <2>1, PollLock, Zenon
<1>. QED
  BY <1>1, <1>2, Leads2, Zenon DEF PollPll

\* Once the steps are done the registers are f and ask for mode m.
Reaches(steps, m, f) ==
  Leads(steps, mcg, SettledBits(mcg), f, SettledBits(f)) /\ Good(f) /\ InMode(m, f)

\* The names of the status bits, and the steps that are used everywhere.
LEMMA StatusBitNames ==
  /\ "clkst" \in StatusBits /\ "irefst" \in StatusBits /\ "pllst" \in StatusBits
  /\ "lock0" \in StatusBits /\ "oscinit0" \in StatusBits /\ "ircst" \in StatusBits
  BY Zenon DEF StatusBits

\* A poll is a step.
LEMMA PollType ==
  ASSUME NEW b, NEW v, NEW e, b \in StatusBits, v \in 0..3, e \in ErrorCode
  PROVE  Poll(b, v, e) \in Steps
  BY StepTypes, Zenon

\* A write is a step.
LEMMA WriteType ==
  ASSUME NEW r, r \in Regs
  PROVE  Write(r) \in Steps
  BY StepTypes, Zenon

\* The polls that the functions share are steps.
LEMMA StepLists ==
  /\ board.erefs \in Bit => PollExt \in Seq(Steps)
  /\ PollPll \in Seq(Steps)
  /\ \A v \in Bit : PollIrc(v) \in Steps
<1>1. 0 \in 0..3 /\ 1 \in 0..3 /\ \A v \in Bit : v \in 0..3
  BY SMT DEF Bit
<1>. DEFINE x == Poll("oscinit0", 1, \h23)  y == Poll("irefst", 0, \h11)
            z == Poll("pllst", 1, \h16)  u == Poll("lock0", 1, \h44)
<1>2. x \in Steps
  BY <1>1, Codes, StatusBitNames, PollType, Zenon
<1>3. y \in Steps
  BY <1>1, Codes, StatusBitNames, PollType, Zenon
<1>4. z \in Steps
  BY <1>1, Codes, StatusBitNames, PollType, Zenon
<1>5. u \in Steps
  BY <1>1, Codes, StatusBitNames, PollType, Zenon
<1>6. \A v \in Bit : PollIrc(v) \in Steps
  <2>. SUFFICES ASSUME NEW v \in Bit PROVE PollIrc(v) \in Steps
    OBVIOUS
  <2>. DEFINE e == IF v = 0 THEN \h13 ELSE \h14
  <2>1. e \in ErrorCode
    BY Codes, Zenon
  <2>. HIDE DEF e
  <2>2. Poll("ircst", v, e) \in Steps
    BY <1>1, <2>1, StatusBitNames, PollType, Zenon
  <2>. QED
    BY <2>2, Zenon DEF PollIrc, e
<1>7. PollPll = <<z, u>> /\ (board.erefs = 1 => PollExt = <<x>> \o <<y>>)
      /\ (board.erefs # 1 => PollExt = <<>> \o <<y>>)
  BY Zenon DEF PollPll, PollExt
<1>. HIDE DEF x, y, z, u
<1>8. <<z, u>> \in Seq(Steps) /\ <<x>> \o <<y>> \in Seq(Steps) /\ <<>> \o <<y>> \in Seq(Steps)
  BY <1>2, <1>3, <1>4, <1>5, SMT
<1>. QED
  BY <1>6, <1>7, <1>8, Zenon

\* IRCST is polled for the reference that was selected.
LEMMA PollIrcLeads ==
  ASSUME NEW r, NEW c, NEW i, NEW p, NEW l, NEW o, NEW k, NEW v,
         At(r, c, i, p, l, o, k), v = r.ircs
  PROVE  /\ Leads(<<PollIrc(v)>>, r, Bits(c, i, p, l, o, k), r, Bits(c, i, p, l, o, v))
         /\ At(r, c, i, p, l, o, v)
<1>. DEFINE e == IF v = 0 THEN \h13 ELSE \h14
<1>1. e \in ErrorCode
  BY Codes, Zenon
<1>2. PollIrc(v) = Poll("ircst", v, e)
  BY Zenon DEF PollIrc
<1>3. Asks("ircst", v, e, r)
  BY <1>1, SMT DEF Asks
<1>. HIDE DEF e
<1>. QED
  BY <1>2, <1>3, PollIrcst, Zenon

\* The dividers of the PLL that the driver accepts.
Dividers(p, v) == p \in 1..25 /\ v \in 24..55

\* No step at all.
LEMMA LeadsNoneAt ==
  ASSUME NEW r, NEW c, NEW i, NEW p, NEW l, NEW o, NEW k, At(r, c, i, p, l, o, k)
  PROVE  Leads(<<>>, r, Bits(c, i, p, l, o, k), r, Bits(c, i, p, l, o, k))
<1>1. r \in Regs /\ Bits(c, i, p, l, o, k) \in Status
  BY Zenon DEF At, Bits, Status
<1>. QED
  BY <1>1, LeadsNone, Zenon

\* pee_pbe.
LEMMA PeePbeCourse ==
  ASSUME board \in Board, mcg \in Regs
  PROVE  LET w1 == [mcg EXCEPT !.clks = OrClks2(mcg.clks)]
             s == <<Write(w1), Poll("clkst", 2, \h1A)>>
         IN /\ s \in Seq(Steps)
            /\ Good(mcg) /\ InMode("PEE", mcg) => Reaches(s, "PBE", w1)
<1>. DEFINE w1 == [mcg EXCEPT !.clks = OrClks2(mcg.clks)]
            h1A == \h1A
            s == <<Write(w1), Poll("clkst", 2, h1A)>>
            k == mcg.ircs  o == OscTo(mcg)
<1>1. k \in Bit /\ board.erefs \in Bit /\ 0 \in Bit /\ 1 \in Bit /\ 0 \in 0..3 /\ 1 \in 0..3 /\ 2 \in 0..3 /\ 3 \in 0..3 /\ 0 \in 0..7
  BY SMT DEF Regs, Board, Bit
<1>0. h1A \in ErrorCode
  BY Codes, Zenon
<1>. HIDE DEF h1A
<1>2. OrClks2(mcg.clks) \in 0..3 /\ (mcg.clks = 0 => OrClks2(mcg.clks) = 2)
  BY SMT DEF OrClks2, Regs
<1>3a. /\ w1 \in Regs
      /\ w1.clks = OrClks2(mcg.clks) /\ w1.frdiv = mcg.frdiv /\ w1.irefs = mcg.irefs /\ w1.range = mcg.range /\ w1.erefs0 = mcg.erefs0 /\ w1.lp = mcg.lp
      /\ w1.ircs = mcg.ircs /\ w1.prdiv0 = mcg.prdiv0 /\ w1.plls = mcg.plls /\ w1.cme0 = mcg.cme0 /\ w1.vdiv0 = mcg.vdiv0 /\ w1.oscsel = mcg.oscsel /\ w1.cme1 = mcg.cme1
  BY <1>1, <1>2, Zenon DEF Regs
<1>. HIDE DEF w1
<1>4. s \in Seq(Steps)
  <2>1. Write(w1) \in Steps
    BY <1>3a, WriteType, Zenon
  <2>2. Poll("clkst", 2, h1A) \in Steps
    BY <1>0, <1>1, StatusBitNames, PollType, Zenon
  <2>. QED
    BY <2>1, <2>2, SMT
<1>5. ASSUME Good(mcg), InMode("PEE", mcg) PROVE Reaches(s, "PBE", w1)
  <2>1. mcg.clks = 0 /\ mcg.irefs = 0 /\ mcg.plls = 1 /\ mcg.lp = 0 /\ mcg.oscsel = 0 /\ mcg.cme1 = 0
    BY <1>1, <1>5, SMT DEF Good, InMode, Regs, Bit
  <2>2. SettlesTo(mcg, 3, 0, 1, 1, o, k) /\ o \in Bit
    BY <1>1, <2>1, SMT DEF SettlesTo, ClkTo, LockTo, OscTo, Regs, Bit
  <2>3. WriteFits(mcg, w1, 3, 0, 1, 1, o, k, 1, o)
    BY <1>1, <1>2, <1>3a, <2>1, SMT DEF WriteFits, UsesExternal, UsesInternal, ClkTo, LockTo, OscTo, Regs, Bit
  <2>4. Asks("clkst", 2, h1A, w1)
    BY <1>0, <1>1, <1>2, <1>3a, <2>1, SMT DEF Asks, ClkTo, LockTo, OscTo, Regs, Bit
  <2>5. InMode("PBE", w1) /\ "PBE" \in Modes
    BY <1>1, <1>2, <1>3a, <2>1, SMT DEF InMode, Modes, Regs, Bit
  <2>6. /\ w1.cme0 = 1 => w1.irefs = 0 /\ w1.oscsel = 0
        /\ w1.cme1 = 1 => w1.oscsel = 1
        /\ w1.oscsel = 1 => InMode("FEE", w1) /\ w1.frdiv = 0
        /\ w1.oscsel = 0 /\ w1.irefs = 0 =>
             /\ w1.range = RangeFor(board.xtal) /\ w1.frdiv = FrdivFor(board.xtal)
             /\ board.xtal <= FastestClock
        /\ w1.plls = 1 => board.xtal \div (w1.prdiv0 + 1) >= FirstFrequency
    BY <1>1, <1>2, <1>3a, <2>1, <1>5, <2>5, SMT DEF InMode, Good, Regs, Bit
  <2>7. Good(w1)
    BY <1>3a, <2>5, <2>6, Zenon DEF Good
  <2>8. SettlesTo(w1, 2, 0, 1, 1, o, k)
    BY <1>1, <1>2, <1>3a, <2>1, <2>2, SMT DEF SettlesTo, ClkTo, LockTo, OscTo, Regs, Bit
  <2>. HIDE DEF k, o
  <2>9. At(mcg, 3, 0, 1, 1, o, k) /\ SettledBits(mcg) = Bits(3, 0, 1, 1, o, k)
    BY <1>5, <2>2, SettledAt, Zenon
  <2>10. At(w1, 3, 0, 1, 1, o, k)
    BY <2>9, <2>3, WriteBits, Zenon
  <2>11. Leads(<<Write(w1)>>, mcg, Bits(3, 0, 1, 1, o, k), w1, Bits(3, 0, 1, 1, o, k))
    BY <2>9, <2>3, WriteBits, Zenon
  <2>12. At(w1, 2, 0, 1, 1, o, k)
    BY <2>10, <2>4, PollClkst, Zenon
  <2>13. Leads(<<Poll("clkst", 2, h1A)>>, w1, Bits(3, 0, 1, 1, o, k), w1, Bits(2, 0, 1, 1, o, k))
    BY <2>10, <2>4, PollClkst, Zenon
  <2>14. Leads(<<Write(w1), Poll("clkst", 2, h1A)>>, mcg, Bits(3, 0, 1, 1, o, k), w1, Bits(2, 0, 1, 1, o, k))
    BY <2>11, <2>13, Leads2, Zenon
  <2>15. SettledBits(w1) = Bits(2, 0, 1, 1, o, k)
    BY <2>7, <2>8, SettledAt, Zenon
  <2>. QED
    BY <2>7, <2>5, <2>9, <2>14, <2>15, Zenon DEF Reaches
<1>. HIDE DEF k, o
<1>. QED
  BY <1>4, <1>5, Zenon DEF w1, h1A

\* fbe_fei.
LEMMA FbeFeiCourse ==
  ASSUME board \in Board, mcg \in Regs
  PROVE  LET w1 == [mcg EXCEPT !.cme0 = 0]
             w2 == [w1 EXCEPT !.clks = 0, !.irefs = 1]
             s == <<Write(w1), Write(w2), Poll("irefst", 1, \h12), Poll("clkst", 0, \h18)>>
         IN /\ s \in Seq(Steps)
            /\ Good(mcg) /\ InMode("FBE", mcg) => Reaches(s, "FEI", w2)
<1>. DEFINE w1 == [mcg EXCEPT !.cme0 = 0]
            w2 == [w1 EXCEPT !.clks = 0, !.irefs = 1]
            h12 == \h12
            h18 == \h18
            s == <<Write(w1), Write(w2), Poll("irefst", 1, h12), Poll("clkst", 0, h18)>>
            k == mcg.ircs  o == OscTo(mcg)
<1>1. k \in Bit /\ board.erefs \in Bit /\ 0 \in Bit /\ 1 \in Bit /\ 0 \in 0..3 /\ 1 \in 0..3 /\ 2 \in 0..3 /\ 3 \in 0..3 /\ 0 \in 0..7
  BY SMT DEF Regs, Board, Bit
<1>0. h12 \in ErrorCode /\ h18 \in ErrorCode
  BY Codes, Zenon
<1>. HIDE DEF h12, h18
<1>3a. /\ w1 \in Regs
      /\ w1.clks = mcg.clks /\ w1.frdiv = mcg.frdiv /\ w1.irefs = mcg.irefs /\ w1.range = mcg.range /\ w1.erefs0 = mcg.erefs0 /\ w1.lp = mcg.lp
      /\ w1.ircs = mcg.ircs /\ w1.prdiv0 = mcg.prdiv0 /\ w1.plls = mcg.plls /\ w1.cme0 = 0 /\ w1.vdiv0 = mcg.vdiv0 /\ w1.oscsel = mcg.oscsel /\ w1.cme1 = mcg.cme1
  BY <1>1, Zenon DEF Regs
<1>3b. /\ w2 \in Regs
      /\ w2.clks = 0 /\ w2.frdiv = w1.frdiv /\ w2.irefs = 1 /\ w2.range = w1.range /\ w2.erefs0 = w1.erefs0 /\ w2.lp = w1.lp
      /\ w2.ircs = w1.ircs /\ w2.prdiv0 = w1.prdiv0 /\ w2.plls = w1.plls /\ w2.cme0 = w1.cme0 /\ w2.vdiv0 = w1.vdiv0 /\ w2.oscsel = w1.oscsel /\ w2.cme1 = w1.cme1
  BY <1>1, <1>3a, Zenon DEF Regs
<1>. HIDE DEF w1, w2
<1>4. s \in Seq(Steps)
  <2>1. Write(w1) \in Steps
    BY <1>3a, <1>3b, WriteType, Zenon
  <2>2. Write(w2) \in Steps
    BY <1>3a, <1>3b, WriteType, Zenon
  <2>3. Poll("irefst", 1, h12) \in Steps
    BY <1>0, <1>1, StatusBitNames, PollType, Zenon
  <2>4. Poll("clkst", 0, h18) \in Steps
    BY <1>0, <1>1, StatusBitNames, PollType, Zenon
  <2>. QED
    BY <2>1, <2>2, <2>3, <2>4, SMT
<1>5. ASSUME Good(mcg), InMode("FBE", mcg) PROVE Reaches(s, "FEI", w2)
  <2>1. mcg.clks = 2 /\ mcg.irefs = 0 /\ mcg.plls = 0 /\ mcg.lp = 0 /\ mcg.oscsel = 0 /\ mcg.cme1 = 0
    BY <1>1, <1>5, SMT DEF Good, InMode, Regs, Bit
  <2>2. SettlesTo(mcg, 2, 0, 0, 0, o, k) /\ o \in Bit
    BY <1>1, <2>1, SMT DEF SettlesTo, ClkTo, LockTo, OscTo, Regs, Bit
  <2>3. WriteFits(mcg, w1, 2, 0, 0, 0, o, k, 0, o)
    BY <1>1, <1>3a, <1>3b, <2>1, SMT DEF WriteFits, UsesExternal, UsesInternal, ClkTo, LockTo, OscTo, Regs, Bit
  <2>4. WriteFits(w1, w2, 2, 0, 0, 0, o, k, 0, 0)
    BY <1>1, <1>3a, <1>3b, <2>1, SMT DEF WriteFits, UsesExternal, UsesInternal, ClkTo, LockTo, OscTo, Regs, Bit
  <2>5. Asks("irefst", 1, h12, w2)
    BY <1>0, <1>1, <1>3a, <1>3b, <2>1, SMT DEF Asks, ClkTo, LockTo, OscTo, Regs, Bit
  <2>6. Asks("clkst", 0, h18, w2)
    BY <1>0, <1>1, <1>3a, <1>3b, <2>1, SMT DEF Asks, ClkTo, LockTo, OscTo, Regs, Bit
  <2>7. InMode("FEI", w2) /\ "FEI" \in Modes
    BY <1>1, <1>3a, <1>3b, <2>1, SMT DEF InMode, Modes, Regs, Bit
  <2>8. /\ w2.cme0 = 1 => w2.irefs = 0 /\ w2.oscsel = 0
        /\ w2.cme1 = 1 => w2.oscsel = 1
        /\ w2.oscsel = 1 => InMode("FEE", w2) /\ w2.frdiv = 0
        /\ w2.oscsel = 0 /\ w2.irefs = 0 =>
             /\ w2.range = RangeFor(board.xtal) /\ w2.frdiv = FrdivFor(board.xtal)
             /\ board.xtal <= FastestClock
        /\ w2.plls = 1 => board.xtal \div (w2.prdiv0 + 1) >= FirstFrequency
    BY <1>1, <1>3a, <1>3b, <2>1, <1>5, <2>7, SMT DEF InMode, Good, Regs, Bit
  <2>9. Good(w2)
    BY <1>3b, <2>7, <2>8, Zenon DEF Good
  <2>10. SettlesTo(w2, 0, 1, 0, 0, 0, k)
    BY <1>1, <1>3a, <1>3b, <2>1, <2>2, SMT DEF SettlesTo, ClkTo, LockTo, OscTo, Regs, Bit
  <2>. HIDE DEF k, o
  <2>11. At(mcg, 2, 0, 0, 0, o, k) /\ SettledBits(mcg) = Bits(2, 0, 0, 0, o, k)
    BY <1>5, <2>2, SettledAt, Zenon
  <2>12. At(w1, 2, 0, 0, 0, o, k)
    BY <2>11, <2>3, WriteBits, Zenon
  <2>13. Leads(<<Write(w1)>>, mcg, Bits(2, 0, 0, 0, o, k), w1, Bits(2, 0, 0, 0, o, k))
    BY <2>11, <2>3, WriteBits, Zenon
  <2>14. At(w2, 2, 0, 0, 0, 0, k)
    BY <2>12, <2>4, WriteBits, Zenon
  <2>15. Leads(<<Write(w2)>>, w1, Bits(2, 0, 0, 0, o, k), w2, Bits(2, 0, 0, 0, 0, k))
    BY <2>12, <2>4, WriteBits, Zenon
  <2>16. At(w2, 2, 1, 0, 0, 0, k)
    BY <2>14, <2>5, PollIrefst, Zenon
  <2>17. Leads(<<Poll("irefst", 1, h12)>>, w2, Bits(2, 0, 0, 0, 0, k), w2, Bits(2, 1, 0, 0, 0, k))
    BY <2>14, <2>5, PollIrefst, Zenon
  <2>18. At(w2, 0, 1, 0, 0, 0, k)
    BY <2>16, <2>6, PollClkst, Zenon
  <2>19. Leads(<<Poll("clkst", 0, h18)>>, w2, Bits(2, 1, 0, 0, 0, k), w2, Bits(0, 1, 0, 0, 0, k))
    BY <2>16, <2>6, PollClkst, Zenon
  <2>20. Leads(<<Write(w1), Write(w2), Poll("irefst", 1, h12), Poll("clkst", 0, h18)>>, mcg, Bits(2, 0, 0, 0, o, k), w2, Bits(0, 1, 0, 0, 0, k))
    BY <2>13, <2>15, <2>17, <2>19, Leads4, Zenon
  <2>21. SettledBits(w2) = Bits(0, 1, 0, 0, 0, k)
    BY <2>9, <2>10, SettledAt, Zenon
  <2>. QED
    BY <2>9, <2>7, <2>11, <2>20, <2>21, Zenon DEF Reaches
<1>. HIDE DEF k, o
<1>. QED
  BY <1>4, <1>5, Zenon DEF w1, w2, h12, h18

\* pll_init.
LEMMA PllInitCourse ==
  ASSUME board \in Board, mcg \in Regs, NEW p, NEW v, Dividers(p, v)
  PROVE  LET c2 == [mcg EXCEPT !.range = PllRangeFor(board.xtal), !.erefs0 = board.erefs]
             c1 == [c2 EXCEPT !.clks = 2, !.irefs = 0, !.frdiv = FrdivFor(board.xtal)]
             cm == [c1 EXCEPT !.cme0 = 1]
             c5 == PllC5(cm, p)
             c6 == PllC6(cm, p, v)
             c9 == [c6 EXCEPT !.clks = 0]
             s == <<Write(c2), Write(c1)>> \o PollExt \o <<Poll("clkst", 2, \h1A), Write(cm), Write(c5), Write(c6)>> \o PollPll \o <<Write(c9), Poll("clkst", 3, \h1B)>>
         IN /\ s \in Seq(Steps)
            /\ Good(mcg) /\ InMode("FEI", mcg) /\ board.xtal \div p >= FirstFrequency /\ board.xtal <= FastestClock /\ PllRangeFor(board.xtal) = RangeFor(board.xtal) => Reaches(s, "PEE", c9)
<1>. DEFINE c2 == [mcg EXCEPT !.range = PllRangeFor(board.xtal), !.erefs0 = board.erefs]
            c1 == [c2 EXCEPT !.clks = 2, !.irefs = 0, !.frdiv = FrdivFor(board.xtal)]
            cm == [c1 EXCEPT !.cme0 = 1]
            c5 == PllC5(cm, p)
            c6 == PllC6(cm, p, v)
            c9 == [c6 EXCEPT !.clks = 0]
            h1A == \h1A
            h1B == \h1B
            s == <<Write(c2), Write(c1)>> \o PollExt \o <<Poll("clkst", 2, h1A), Write(cm), Write(c5), Write(c6)>> \o PollPll \o <<Write(c9), Poll("clkst", 3, h1B)>>
            k == mcg.ircs  o == OscTo(mcg)  e == board.erefs
<1>1. k \in Bit /\ board.erefs \in Bit /\ 0 \in Bit /\ 1 \in Bit /\ 0 \in 0..3 /\ 1 \in 0..3 /\ 2 \in 0..3 /\ 3 \in 0..3 /\ 0 \in 0..7
  BY SMT DEF Regs, Board, Bit
<1>0. h1A \in ErrorCode /\ h1B \in ErrorCode
  BY Codes, Zenon
<1>. HIDE DEF h1A, h1B
<1>2. PllRangeFor(board.xtal) \in 0..3 /\ FrdivFor(board.xtal) \in 0..7 /\ p - 1 \in 0..31 /\ v - 24 \in 0..31 /\ p - 1 + 1 = p
  BY SMT DEF Dividers, PllRangeFor, FrdivFor, Board
<1>3a. /\ c2 \in Regs
      /\ c2.clks = mcg.clks /\ c2.frdiv = mcg.frdiv /\ c2.irefs = mcg.irefs /\ c2.range = PllRangeFor(board.xtal) /\ c2.erefs0 = board.erefs /\ c2.lp = mcg.lp
      /\ c2.ircs = mcg.ircs /\ c2.prdiv0 = mcg.prdiv0 /\ c2.plls = mcg.plls /\ c2.cme0 = mcg.cme0 /\ c2.vdiv0 = mcg.vdiv0 /\ c2.oscsel = mcg.oscsel /\ c2.cme1 = mcg.cme1
  BY <1>1, <1>2, Zenon DEF Regs, PllC5, PllC6
<1>3b. /\ c1 \in Regs
      /\ c1.clks = 2 /\ c1.frdiv = FrdivFor(board.xtal) /\ c1.irefs = 0 /\ c1.range = c2.range /\ c1.erefs0 = c2.erefs0 /\ c1.lp = c2.lp
      /\ c1.ircs = c2.ircs /\ c1.prdiv0 = c2.prdiv0 /\ c1.plls = c2.plls /\ c1.cme0 = c2.cme0 /\ c1.vdiv0 = c2.vdiv0 /\ c1.oscsel = c2.oscsel /\ c1.cme1 = c2.cme1
  BY <1>1, <1>2, <1>3a, Zenon DEF Regs, PllC5, PllC6
<1>3c. /\ cm \in Regs
      /\ cm.clks = c1.clks /\ cm.frdiv = c1.frdiv /\ cm.irefs = c1.irefs /\ cm.range = c1.range /\ cm.erefs0 = c1.erefs0 /\ cm.lp = c1.lp
      /\ cm.ircs = c1.ircs /\ cm.prdiv0 = c1.prdiv0 /\ cm.plls = c1.plls /\ cm.cme0 = 1 /\ cm.vdiv0 = c1.vdiv0 /\ cm.oscsel = c1.oscsel /\ cm.cme1 = c1.cme1
  BY <1>1, <1>2, <1>3b, Zenon DEF Regs, PllC5, PllC6
<1>3d. /\ c5 \in Regs
      /\ c5.clks = cm.clks /\ c5.frdiv = cm.frdiv /\ c5.irefs = cm.irefs /\ c5.range = cm.range /\ c5.erefs0 = cm.erefs0 /\ c5.lp = cm.lp
      /\ c5.ircs = cm.ircs /\ c5.prdiv0 = p - 1 /\ c5.plls = cm.plls /\ c5.cme0 = cm.cme0 /\ c5.vdiv0 = cm.vdiv0 /\ c5.oscsel = cm.oscsel /\ c5.cme1 = cm.cme1
  BY <1>1, <1>2, <1>3c, Zenon DEF Regs, PllC5, PllC6
<1>3e. /\ c6 \in Regs
      /\ c6.clks = c5.clks /\ c6.frdiv = c5.frdiv /\ c6.irefs = c5.irefs /\ c6.range = c5.range /\ c6.erefs0 = c5.erefs0 /\ c6.lp = c5.lp
      /\ c6.ircs = c5.ircs /\ c6.prdiv0 = c5.prdiv0 /\ c6.plls = 1 /\ c6.cme0 = c5.cme0 /\ c6.vdiv0 = v - 24 /\ c6.oscsel = c5.oscsel /\ c6.cme1 = c5.cme1
  BY <1>1, <1>2, <1>3d, Zenon DEF Regs, PllC5, PllC6
<1>3f. /\ c9 \in Regs
      /\ c9.clks = 0 /\ c9.frdiv = c6.frdiv /\ c9.irefs = c6.irefs /\ c9.range = c6.range /\ c9.erefs0 = c6.erefs0 /\ c9.lp = c6.lp
      /\ c9.ircs = c6.ircs /\ c9.prdiv0 = c6.prdiv0 /\ c9.plls = c6.plls /\ c9.cme0 = c6.cme0 /\ c9.vdiv0 = c6.vdiv0 /\ c9.oscsel = c6.oscsel /\ c9.cme1 = c6.cme1
  BY <1>1, <1>2, <1>3e, Zenon DEF Regs, PllC5, PllC6
<1>. HIDE DEF c2, c1, cm, c5, c6, c9
<1>4. s \in Seq(Steps)
  <2>1. Write(c2) \in Steps
    BY <1>3a, <1>3b, <1>3c, <1>3d, <1>3e, <1>3f, WriteType, Zenon
  <2>2. Write(c1) \in Steps
    BY <1>3a, <1>3b, <1>3c, <1>3d, <1>3e, <1>3f, WriteType, Zenon
  <2>3. PollExt \in Seq(Steps)
    BY <1>1, StepLists, Zenon
  <2>4. Poll("clkst", 2, h1A) \in Steps
    BY <1>0, <1>1, StatusBitNames, PollType, Zenon
  <2>5. Write(cm) \in Steps
    BY <1>3a, <1>3b, <1>3c, <1>3d, <1>3e, <1>3f, WriteType, Zenon
  <2>6. Write(c5) \in Steps
    BY <1>3a, <1>3b, <1>3c, <1>3d, <1>3e, <1>3f, WriteType, Zenon
  <2>7. Write(c6) \in Steps
    BY <1>3a, <1>3b, <1>3c, <1>3d, <1>3e, <1>3f, WriteType, Zenon
  <2>8. PollPll \in Seq(Steps)
    BY <1>1, StepLists, Zenon
  <2>9. Write(c9) \in Steps
    BY <1>3a, <1>3b, <1>3c, <1>3d, <1>3e, <1>3f, WriteType, Zenon
  <2>10. Poll("clkst", 3, h1B) \in Steps
    BY <1>0, <1>1, StatusBitNames, PollType, Zenon
  <2>. QED
    BY <2>1, <2>2, <2>3, <2>4, <2>5, <2>6, <2>7, <2>8, <2>9, <2>10, SMT
<1>5. ASSUME Good(mcg), InMode("FEI", mcg), board.xtal \div p >= FirstFrequency, board.xtal <= FastestClock, PllRangeFor(board.xtal) = RangeFor(board.xtal) PROVE Reaches(s, "PEE", c9)
  <2>1. mcg.clks = 0 /\ mcg.irefs = 1 /\ mcg.plls = 0 /\ mcg.lp = 0 /\ mcg.oscsel = 0 /\ mcg.cme0 = 0 /\ mcg.cme1 = 0
    BY <1>1, <1>5, SMT DEF Good, InMode, Regs, Bit
  <2>2. SettlesTo(mcg, 0, 1, 0, 0, 0, k) /\ o \in Bit
    BY <1>1, <2>1, SMT DEF SettlesTo, ClkTo, LockTo, OscTo, Regs, Bit
  <2>3. WriteFits(mcg, c2, 0, 1, 0, 0, 0, k, 0, 0)
    BY <1>1, <1>2, <1>3a, <1>3b, <1>3c, <1>3d, <1>3e, <1>3f, <2>1, <1>5, SMT DEF WriteFits, UsesExternal, UsesInternal, ClkTo, LockTo, OscTo, Regs, Bit
  <2>4. WriteFits(c2, c1, 0, 1, 0, 0, 0, k, 0, 0)
    BY <1>1, <1>2, <1>3a, <1>3b, <1>3c, <1>3d, <1>3e, <1>3f, <2>1, <1>5, SMT DEF WriteFits, UsesExternal, UsesInternal, ClkTo, LockTo, OscTo, Regs, Bit
  <2>5. AsksExt(c1, e)
    BY <1>1, <1>2, <1>3a, <1>3b, <1>3c, <1>3d, <1>3e, <1>3f, <2>1, <1>5, SMT DEF AsksExt, OscTo, Regs, Bit
  <2>6. Asks("clkst", 2, h1A, c1)
    BY <1>0, <1>1, <1>2, <1>3a, <1>3b, <1>3c, <1>3d, <1>3e, <1>3f, <2>1, <1>5, SMT DEF Asks, ClkTo, LockTo, OscTo, Regs, Bit
  <2>7. WriteFits(c1, cm, 2, 0, 0, 0, e, k, 0, e)
    BY <1>1, <1>2, <1>3a, <1>3b, <1>3c, <1>3d, <1>3e, <1>3f, <2>1, <1>5, SMT DEF WriteFits, UsesExternal, UsesInternal, ClkTo, LockTo, OscTo, Regs, Bit
  <2>8. WriteFits(cm, c5, 2, 0, 0, 0, e, k, 0, e)
    BY <1>1, <1>2, <1>3a, <1>3b, <1>3c, <1>3d, <1>3e, <1>3f, <2>1, <1>5, SMT DEF WriteFits, UsesExternal, UsesInternal, ClkTo, LockTo, OscTo, Regs, Bit
  <2>9. WriteFits(c5, c6, 2, 0, 0, 0, e, k, 0, e)
    BY <1>1, <1>2, <1>3a, <1>3b, <1>3c, <1>3d, <1>3e, <1>3f, <2>1, <1>5, SMT DEF WriteFits, UsesExternal, UsesInternal, ClkTo, LockTo, OscTo, Regs, Bit
  <2>10. c6.plls = 1 /\ LockTo(c6) = 1
    BY <1>1, <1>2, <1>3a, <1>3b, <1>3c, <1>3d, <1>3e, <1>3f, <2>1, <1>5, SMT DEF LockTo, Regs, Bit
  <2>11. WriteFits(c6, c9, 2, 0, 1, 1, e, k, 1, e)
    BY <1>1, <1>2, <1>3a, <1>3b, <1>3c, <1>3d, <1>3e, <1>3f, <2>1, <1>5, SMT DEF WriteFits, UsesExternal, UsesInternal, ClkTo, LockTo, OscTo, Regs, Bit
  <2>12. Asks("clkst", 3, h1B, c9)
    BY <1>0, <1>1, <1>2, <1>3a, <1>3b, <1>3c, <1>3d, <1>3e, <1>3f, <2>1, <1>5, SMT DEF Asks, ClkTo, LockTo, OscTo, Regs, Bit
  <2>13. InMode("PEE", c9) /\ "PEE" \in Modes
    BY <1>1, <1>2, <1>3a, <1>3b, <1>3c, <1>3d, <1>3e, <1>3f, <2>1, <1>5, SMT DEF InMode, Modes, Regs, Bit
  <2>14. /\ c9.cme0 = 1 => c9.irefs = 0 /\ c9.oscsel = 0
         /\ c9.cme1 = 1 => c9.oscsel = 1
         /\ c9.oscsel = 1 => InMode("FEE", c9) /\ c9.frdiv = 0
         /\ c9.oscsel = 0 /\ c9.irefs = 0 =>
              /\ c9.range = RangeFor(board.xtal) /\ c9.frdiv = FrdivFor(board.xtal)
              /\ board.xtal <= FastestClock
         /\ c9.plls = 1 => board.xtal \div (c9.prdiv0 + 1) >= FirstFrequency
    BY <1>1, <1>2, <1>3a, <1>3b, <1>3c, <1>3d, <1>3e, <1>3f, <2>1, <1>5, <1>5, <2>13, SMT DEF InMode, Good, Regs, Bit
  <2>15. Good(c9)
    BY <1>3f, <2>13, <2>14, Zenon DEF Good
  <2>16. SettlesTo(c9, 3, 0, 1, 1, e, k)
    BY <1>1, <1>2, <1>3a, <1>3b, <1>3c, <1>3d, <1>3e, <1>3f, <2>1, <1>5, <2>2, SMT DEF SettlesTo, ClkTo, LockTo, OscTo, Regs, Bit
  <2>. HIDE DEF k, o, e
  <2>17. At(mcg, 0, 1, 0, 0, 0, k) /\ SettledBits(mcg) = Bits(0, 1, 0, 0, 0, k)
    BY <1>5, <2>2, SettledAt, Zenon
  <2>18. At(c2, 0, 1, 0, 0, 0, k)
    BY <2>17, <2>3, WriteBits, Zenon
  <2>19. Leads(<<Write(c2)>>, mcg, Bits(0, 1, 0, 0, 0, k), c2, Bits(0, 1, 0, 0, 0, k))
    BY <2>17, <2>3, WriteBits, Zenon
  <2>20. At(c1, 0, 1, 0, 0, 0, k)
    BY <2>18, <2>4, WriteBits, Zenon
  <2>21. Leads(<<Write(c1)>>, c2, Bits(0, 1, 0, 0, 0, k), c1, Bits(0, 1, 0, 0, 0, k))
    BY <2>18, <2>4, WriteBits, Zenon
  <2>22. At(c1, 0, 0, 0, 0, e, k)
    BY <2>20, <2>5, <1>1, PollExtLeads, Zenon
  <2>23. Leads(PollExt, c1, Bits(0, 1, 0, 0, 0, k), c1, Bits(0, 0, 0, 0, e, k))
    BY <2>20, <2>5, <1>1, PollExtLeads, Zenon
  <2>24. At(c1, 2, 0, 0, 0, e, k)
    BY <2>22, <2>6, PollClkst, Zenon
  <2>25. Leads(<<Poll("clkst", 2, h1A)>>, c1, Bits(0, 0, 0, 0, e, k), c1, Bits(2, 0, 0, 0, e, k))
    BY <2>22, <2>6, PollClkst, Zenon
  <2>26. At(cm, 2, 0, 0, 0, e, k)
    BY <2>24, <2>7, WriteBits, Zenon
  <2>27. Leads(<<Write(cm)>>, c1, Bits(2, 0, 0, 0, e, k), cm, Bits(2, 0, 0, 0, e, k))
    BY <2>24, <2>7, WriteBits, Zenon
  <2>28. At(c5, 2, 0, 0, 0, e, k)
    BY <2>26, <2>8, WriteBits, Zenon
  <2>29. Leads(<<Write(c5)>>, cm, Bits(2, 0, 0, 0, e, k), c5, Bits(2, 0, 0, 0, e, k))
    BY <2>26, <2>8, WriteBits, Zenon
  <2>30. At(c6, 2, 0, 0, 0, e, k)
    BY <2>28, <2>9, WriteBits, Zenon
  <2>31. Leads(<<Write(c6)>>, c5, Bits(2, 0, 0, 0, e, k), c6, Bits(2, 0, 0, 0, e, k))
    BY <2>28, <2>9, WriteBits, Zenon
  <2>32. At(c6, 2, 0, 1, 1, e, k)
    BY <2>30, <2>10, PollPllLeads, Zenon
  <2>33. Leads(PollPll, c6, Bits(2, 0, 0, 0, e, k), c6, Bits(2, 0, 1, 1, e, k))
    BY <2>30, <2>10, PollPllLeads, Zenon
  <2>34. At(c9, 2, 0, 1, 1, e, k)
    BY <2>32, <2>11, WriteBits, Zenon
  <2>35. Leads(<<Write(c9)>>, c6, Bits(2, 0, 1, 1, e, k), c9, Bits(2, 0, 1, 1, e, k))
    BY <2>32, <2>11, WriteBits, Zenon
  <2>36. At(c9, 3, 0, 1, 1, e, k)
    BY <2>34, <2>12, PollClkst, Zenon
  <2>37. Leads(<<Poll("clkst", 3, h1B)>>, c9, Bits(2, 0, 1, 1, e, k), c9, Bits(3, 0, 1, 1, e, k))
    BY <2>34, <2>12, PollClkst, Zenon
  <2>38. Leads(<<Write(c2), Write(c1)>>, mcg, Bits(0, 1, 0, 0, 0, k), c1, Bits(0, 1, 0, 0, 0, k))
    BY <2>19, <2>21, Leads2, Zenon
  <2>39. Leads(<<Poll("clkst", 2, h1A), Write(cm), Write(c5), Write(c6)>>, c1, Bits(0, 0, 0, 0, e, k), c6, Bits(2, 0, 0, 0, e, k))
    BY <2>25, <2>27, <2>29, <2>31, Leads4, Zenon
  <2>40. Leads(<<Write(c9), Poll("clkst", 3, h1B)>>, c6, Bits(2, 0, 1, 1, e, k), c9, Bits(3, 0, 1, 1, e, k))
    BY <2>35, <2>37, Leads2, Zenon
  <2>41. Leads(<<Write(c2), Write(c1)>> \o PollExt, mcg, Bits(0, 1, 0, 0, 0, k), c1, Bits(0, 0, 0, 0, e, k))
    BY <2>38, <2>23, LeadsBoth, Zenon
  <2>42. Leads(<<Write(c2), Write(c1)>> \o PollExt \o <<Poll("clkst", 2, h1A), Write(cm), Write(c5), Write(c6)>>, mcg, Bits(0, 1, 0, 0, 0, k), c6, Bits(2, 0, 0, 0, e, k))
    BY <2>41, <2>39, LeadsBoth, Zenon
  <2>43. Leads(<<Write(c2), Write(c1)>> \o PollExt \o <<Poll("clkst", 2, h1A), Write(cm), Write(c5), Write(c6)>> \o PollPll, mcg, Bits(0, 1, 0, 0, 0, k), c6, Bits(2, 0, 1, 1, e, k))
    BY <2>42, <2>33, LeadsBoth, Zenon
  <2>44. Leads(<<Write(c2), Write(c1)>> \o PollExt \o <<Poll("clkst", 2, h1A), Write(cm), Write(c5), Write(c6)>> \o PollPll \o <<Write(c9), Poll("clkst", 3, h1B)>>, mcg, Bits(0, 1, 0, 0, 0, k), c9, Bits(3, 0, 1, 1, e, k))
    BY <2>43, <2>40, LeadsBoth, Zenon
  <2>45. SettledBits(c9) = Bits(3, 0, 1, 1, e, k)
    BY <2>15, <2>16, SettledAt, Zenon
  <2>. QED
    BY <2>15, <2>13, <2>17, <2>44, <2>45, Zenon DEF Reaches
<1>. HIDE DEF k, o, e
<1>. QED
  BY <1>4, <1>5, Zenon DEF c2, c1, cm, c5, c6, c9, h1A, h1B

\* pbe_pee.
LEMMA PbePeeCourse ==
  ASSUME board \in Board, mcg \in Regs
  PROVE  LET w1 == [mcg EXCEPT !.clks = 0]
             s == <<Poll("lock0", 1, \h44), Write(w1), Poll("clkst", 3, \h1B)>>
         IN /\ s \in Seq(Steps)
            /\ Good(mcg) /\ InMode("PBE", mcg) => Reaches(s, "PEE", w1)
<1>. DEFINE w1 == [mcg EXCEPT !.clks = 0]
            h44 == \h44
            h1B == \h1B
            s == <<Poll("lock0", 1, h44), Write(w1), Poll("clkst", 3, h1B)>>
            k == mcg.ircs  o == OscTo(mcg)
<1>1. k \in Bit /\ board.erefs \in Bit /\ 0 \in Bit /\ 1 \in Bit /\ 0 \in 0..3 /\ 1 \in 0..3 /\ 2 \in 0..3 /\ 3 \in 0..3 /\ 0 \in 0..7
  BY SMT DEF Regs, Board, Bit
<1>0. h44 \in ErrorCode /\ h1B \in ErrorCode
  BY Codes, Zenon
<1>. HIDE DEF h44, h1B
<1>3a. /\ w1 \in Regs
      /\ w1.clks = 0 /\ w1.frdiv = mcg.frdiv /\ w1.irefs = mcg.irefs /\ w1.range = mcg.range /\ w1.erefs0 = mcg.erefs0 /\ w1.lp = mcg.lp
      /\ w1.ircs = mcg.ircs /\ w1.prdiv0 = mcg.prdiv0 /\ w1.plls = mcg.plls /\ w1.cme0 = mcg.cme0 /\ w1.vdiv0 = mcg.vdiv0 /\ w1.oscsel = mcg.oscsel /\ w1.cme1 = mcg.cme1
  BY <1>1, Zenon DEF Regs
<1>. HIDE DEF w1
<1>4. s \in Seq(Steps)
  <2>1. Poll("lock0", 1, h44) \in Steps
    BY <1>0, <1>1, StatusBitNames, PollType, Zenon
  <2>2. Write(w1) \in Steps
    BY <1>3a, WriteType, Zenon
  <2>3. Poll("clkst", 3, h1B) \in Steps
    BY <1>0, <1>1, StatusBitNames, PollType, Zenon
  <2>. QED
    BY <2>1, <2>2, <2>3, SMT
<1>5. ASSUME Good(mcg), InMode("PBE", mcg) PROVE Reaches(s, "PEE", w1)
  <2>1. mcg.clks = 2 /\ mcg.irefs = 0 /\ mcg.plls = 1 /\ mcg.lp = 0 /\ mcg.oscsel = 0 /\ mcg.cme1 = 0
    BY <1>1, <1>5, SMT DEF Good, InMode, Regs, Bit
  <2>2. SettlesTo(mcg, 2, 0, 1, 1, o, k) /\ o \in Bit
    BY <1>1, <2>1, SMT DEF SettlesTo, ClkTo, LockTo, OscTo, Regs, Bit
  <2>3. Asks("lock0", 1, h44, mcg)
    BY <1>0, <1>1, <1>3a, <2>1, SMT DEF Asks, ClkTo, LockTo, OscTo, Regs, Bit
  <2>4. WriteFits(mcg, w1, 2, 0, 1, 1, o, k, 1, o)
    BY <1>1, <1>3a, <2>1, SMT DEF WriteFits, UsesExternal, UsesInternal, ClkTo, LockTo, OscTo, Regs, Bit
  <2>5. Asks("clkst", 3, h1B, w1)
    BY <1>0, <1>1, <1>3a, <2>1, SMT DEF Asks, ClkTo, LockTo, OscTo, Regs, Bit
  <2>6. InMode("PEE", w1) /\ "PEE" \in Modes
    BY <1>1, <1>3a, <2>1, SMT DEF InMode, Modes, Regs, Bit
  <2>7. /\ w1.cme0 = 1 => w1.irefs = 0 /\ w1.oscsel = 0
        /\ w1.cme1 = 1 => w1.oscsel = 1
        /\ w1.oscsel = 1 => InMode("FEE", w1) /\ w1.frdiv = 0
        /\ w1.oscsel = 0 /\ w1.irefs = 0 =>
             /\ w1.range = RangeFor(board.xtal) /\ w1.frdiv = FrdivFor(board.xtal)
             /\ board.xtal <= FastestClock
        /\ w1.plls = 1 => board.xtal \div (w1.prdiv0 + 1) >= FirstFrequency
    BY <1>1, <1>3a, <2>1, <1>5, <2>6, SMT DEF InMode, Good, Regs, Bit
  <2>8. Good(w1)
    BY <1>3a, <2>6, <2>7, Zenon DEF Good
  <2>9. SettlesTo(w1, 3, 0, 1, 1, o, k)
    BY <1>1, <1>3a, <2>1, <2>2, SMT DEF SettlesTo, ClkTo, LockTo, OscTo, Regs, Bit
  <2>. HIDE DEF k, o
  <2>10. At(mcg, 2, 0, 1, 1, o, k) /\ SettledBits(mcg) = Bits(2, 0, 1, 1, o, k)
    BY <1>5, <2>2, SettledAt, Zenon
  <2>11. At(mcg, 2, 0, 1, 1, o, k)
    BY <2>10, <2>3, PollLock, Zenon
  <2>12. Leads(<<Poll("lock0", 1, h44)>>, mcg, Bits(2, 0, 1, 1, o, k), mcg, Bits(2, 0, 1, 1, o, k))
    BY <2>10, <2>3, PollLock, Zenon
  <2>13. At(w1, 2, 0, 1, 1, o, k)
    BY <2>11, <2>4, WriteBits, Zenon
  <2>14. Leads(<<Write(w1)>>, mcg, Bits(2, 0, 1, 1, o, k), w1, Bits(2, 0, 1, 1, o, k))
    BY <2>11, <2>4, WriteBits, Zenon
  <2>15. At(w1, 3, 0, 1, 1, o, k)
    BY <2>13, <2>5, PollClkst, Zenon
  <2>16. Leads(<<Poll("clkst", 3, h1B)>>, w1, Bits(2, 0, 1, 1, o, k), w1, Bits(3, 0, 1, 1, o, k))
    BY <2>13, <2>5, PollClkst, Zenon
  <2>17. Leads(<<Poll("lock0", 1, h44), Write(w1), Poll("clkst", 3, h1B)>>, mcg, Bits(2, 0, 1, 1, o, k), w1, Bits(3, 0, 1, 1, o, k))
    BY <2>12, <2>14, <2>16, Leads3, Zenon
  <2>18. SettledBits(w1) = Bits(3, 0, 1, 1, o, k)
    BY <2>8, <2>9, SettledAt, Zenon
  <2>. QED
    BY <2>8, <2>6, <2>10, <2>17, <2>18, Zenon DEF Reaches
<1>. HIDE DEF k, o
<1>. QED
  BY <1>4, <1>5, Zenon DEF w1, h44, h1B

\* pbe_fbe.
LEMMA PbeFbeCourse ==
  ASSUME board \in Board, mcg \in Regs
  PROVE  LET w1 == [mcg EXCEPT !.plls = 0]
             s == <<Write(w1), Poll("pllst", 0, \h15)>>
         IN /\ s \in Seq(Steps)
            /\ Good(mcg) /\ InMode("PBE", mcg) => Reaches(s, "FBE", w1)
<1>. DEFINE w1 == [mcg EXCEPT !.plls = 0]
            h15 == \h15
            s == <<Write(w1), Poll("pllst", 0, h15)>>
            k == mcg.ircs  o == OscTo(mcg)
<1>1. k \in Bit /\ board.erefs \in Bit /\ 0 \in Bit /\ 1 \in Bit /\ 0 \in 0..3 /\ 1 \in 0..3 /\ 2 \in 0..3 /\ 3 \in 0..3 /\ 0 \in 0..7
  BY SMT DEF Regs, Board, Bit
<1>0. h15 \in ErrorCode
  BY Codes, Zenon
<1>. HIDE DEF h15
<1>3a. /\ w1 \in Regs
      /\ w1.clks = mcg.clks /\ w1.frdiv = mcg.frdiv /\ w1.irefs = mcg.irefs /\ w1.range = mcg.range /\ w1.erefs0 = mcg.erefs0 /\ w1.lp = mcg.lp
      /\ w1.ircs = mcg.ircs /\ w1.prdiv0 = mcg.prdiv0 /\ w1.plls = 0 /\ w1.cme0 = mcg.cme0 /\ w1.vdiv0 = mcg.vdiv0 /\ w1.oscsel = mcg.oscsel /\ w1.cme1 = mcg.cme1
  BY <1>1, Zenon DEF Regs
<1>. HIDE DEF w1
<1>4. s \in Seq(Steps)
  <2>1. Write(w1) \in Steps
    BY <1>3a, WriteType, Zenon
  <2>2. Poll("pllst", 0, h15) \in Steps
    BY <1>0, <1>1, StatusBitNames, PollType, Zenon
  <2>. QED
    BY <2>1, <2>2, SMT
<1>5. ASSUME Good(mcg), InMode("PBE", mcg) PROVE Reaches(s, "FBE", w1)
  <2>1. mcg.clks = 2 /\ mcg.irefs = 0 /\ mcg.plls = 1 /\ mcg.lp = 0 /\ mcg.oscsel = 0 /\ mcg.cme1 = 0
    BY <1>1, <1>5, SMT DEF Good, InMode, Regs, Bit
  <2>2. SettlesTo(mcg, 2, 0, 1, 1, o, k) /\ o \in Bit
    BY <1>1, <2>1, SMT DEF SettlesTo, ClkTo, LockTo, OscTo, Regs, Bit
  <2>3. WriteFits(mcg, w1, 2, 0, 1, 1, o, k, 0, o)
    BY <1>1, <1>3a, <2>1, SMT DEF WriteFits, UsesExternal, UsesInternal, ClkTo, LockTo, OscTo, Regs, Bit
  <2>4. Asks("pllst", 0, h15, w1)
    BY <1>0, <1>1, <1>3a, <2>1, SMT DEF Asks, ClkTo, LockTo, OscTo, Regs, Bit
  <2>5. InMode("FBE", w1) /\ "FBE" \in Modes
    BY <1>1, <1>3a, <2>1, SMT DEF InMode, Modes, Regs, Bit
  <2>6. /\ w1.cme0 = 1 => w1.irefs = 0 /\ w1.oscsel = 0
        /\ w1.cme1 = 1 => w1.oscsel = 1
        /\ w1.oscsel = 1 => InMode("FEE", w1) /\ w1.frdiv = 0
        /\ w1.oscsel = 0 /\ w1.irefs = 0 =>
             /\ w1.range = RangeFor(board.xtal) /\ w1.frdiv = FrdivFor(board.xtal)
             /\ board.xtal <= FastestClock
        /\ w1.plls = 1 => board.xtal \div (w1.prdiv0 + 1) >= FirstFrequency
    BY <1>1, <1>3a, <2>1, <1>5, <2>5, SMT DEF InMode, Good, Regs, Bit
  <2>7. Good(w1)
    BY <1>3a, <2>5, <2>6, Zenon DEF Good
  <2>8. SettlesTo(w1, 2, 0, 0, 0, o, k)
    BY <1>1, <1>3a, <2>1, <2>2, SMT DEF SettlesTo, ClkTo, LockTo, OscTo, Regs, Bit
  <2>. HIDE DEF k, o
  <2>9. At(mcg, 2, 0, 1, 1, o, k) /\ SettledBits(mcg) = Bits(2, 0, 1, 1, o, k)
    BY <1>5, <2>2, SettledAt, Zenon
  <2>10. At(w1, 2, 0, 1, 0, o, k)
    BY <2>9, <2>3, WriteBits, Zenon
  <2>11. Leads(<<Write(w1)>>, mcg, Bits(2, 0, 1, 1, o, k), w1, Bits(2, 0, 1, 0, o, k))
    BY <2>9, <2>3, WriteBits, Zenon
  <2>12. At(w1, 2, 0, 0, 0, o, k)
    BY <2>10, <2>4, PollPllst, Zenon
  <2>13. Leads(<<Poll("pllst", 0, h15)>>, w1, Bits(2, 0, 1, 0, o, k), w1, Bits(2, 0, 0, 0, o, k))
    BY <2>10, <2>4, PollPllst, Zenon
  <2>14. Leads(<<Write(w1), Poll("pllst", 0, h15)>>, mcg, Bits(2, 0, 1, 1, o, k), w1, Bits(2, 0, 0, 0, o, k))
    BY <2>11, <2>13, Leads2, Zenon
  <2>15. SettledBits(w1) = Bits(2, 0, 0, 0, o, k)
    BY <2>7, <2>8, SettledAt, Zenon
  <2>. QED
    BY <2>7, <2>5, <2>9, <2>14, <2>15, Zenon DEF Reaches
<1>. HIDE DEF k, o
<1>. QED
  BY <1>4, <1>5, Zenon DEF w1, h15

\* fbe_pbe.
LEMMA FbePbeCourse ==
  ASSUME board \in Board, mcg \in Regs, NEW p, NEW v, Dividers(p, v)
  PROVE  LET c5 == PllC5(mcg, p)
             c6 == PllC6(mcg, p, v)
             s == <<Write(c5), Write(c6)>> \o PollPll
         IN /\ s \in Seq(Steps)
            /\ Good(mcg) /\ InMode("FBE", mcg) /\ board.xtal \div p >= FirstFrequency => Reaches(s, "PBE", c6)
<1>. DEFINE c5 == PllC5(mcg, p)
            c6 == PllC6(mcg, p, v)
            s == <<Write(c5), Write(c6)>> \o PollPll
            k == mcg.ircs  o == OscTo(mcg)
<1>1. k \in Bit /\ board.erefs \in Bit /\ 0 \in Bit /\ 1 \in Bit /\ 0 \in 0..3 /\ 1 \in 0..3 /\ 2 \in 0..3 /\ 3 \in 0..3 /\ 0 \in 0..7
  BY SMT DEF Regs, Board, Bit
<1>2. p - 1 \in 0..31 /\ v - 24 \in 0..31 /\ p - 1 + 1 = p
  BY SMT DEF Dividers
<1>3a. /\ c5 \in Regs
      /\ c5.clks = mcg.clks /\ c5.frdiv = mcg.frdiv /\ c5.irefs = mcg.irefs /\ c5.range = mcg.range /\ c5.erefs0 = mcg.erefs0 /\ c5.lp = mcg.lp
      /\ c5.ircs = mcg.ircs /\ c5.prdiv0 = p - 1 /\ c5.plls = mcg.plls /\ c5.cme0 = mcg.cme0 /\ c5.vdiv0 = mcg.vdiv0 /\ c5.oscsel = mcg.oscsel /\ c5.cme1 = mcg.cme1
  BY <1>1, <1>2, Zenon DEF Regs, PllC5, PllC6
<1>3b. /\ c6 \in Regs
      /\ c6.clks = c5.clks /\ c6.frdiv = c5.frdiv /\ c6.irefs = c5.irefs /\ c6.range = c5.range /\ c6.erefs0 = c5.erefs0 /\ c6.lp = c5.lp
      /\ c6.ircs = c5.ircs /\ c6.prdiv0 = c5.prdiv0 /\ c6.plls = 1 /\ c6.cme0 = c5.cme0 /\ c6.vdiv0 = v - 24 /\ c6.oscsel = c5.oscsel /\ c6.cme1 = c5.cme1
  BY <1>1, <1>2, <1>3a, Zenon DEF Regs, PllC5, PllC6
<1>. HIDE DEF c5, c6
<1>4. s \in Seq(Steps)
  <2>1. Write(c5) \in Steps
    BY <1>3a, <1>3b, WriteType, Zenon
  <2>2. Write(c6) \in Steps
    BY <1>3a, <1>3b, WriteType, Zenon
  <2>3. PollPll \in Seq(Steps)
    BY <1>1, StepLists, Zenon
  <2>. QED
    BY <2>1, <2>2, <2>3, SMT
<1>5. ASSUME Good(mcg), InMode("FBE", mcg), board.xtal \div p >= FirstFrequency PROVE Reaches(s, "PBE", c6)
  <2>1. mcg.clks = 2 /\ mcg.irefs = 0 /\ mcg.plls = 0 /\ mcg.lp = 0 /\ mcg.oscsel = 0 /\ mcg.cme1 = 0
    BY <1>1, <1>5, SMT DEF Good, InMode, Regs, Bit
  <2>2. SettlesTo(mcg, 2, 0, 0, 0, o, k) /\ o \in Bit
    BY <1>1, <2>1, SMT DEF SettlesTo, ClkTo, LockTo, OscTo, Regs, Bit
  <2>3. WriteFits(mcg, c5, 2, 0, 0, 0, o, k, 0, o)
    BY <1>1, <1>2, <1>3a, <1>3b, <2>1, <1>5, SMT DEF WriteFits, UsesExternal, UsesInternal, ClkTo, LockTo, OscTo, Regs, Bit
  <2>4. WriteFits(c5, c6, 2, 0, 0, 0, o, k, 0, o)
    BY <1>1, <1>2, <1>3a, <1>3b, <2>1, <1>5, SMT DEF WriteFits, UsesExternal, UsesInternal, ClkTo, LockTo, OscTo, Regs, Bit
  <2>5. c6.plls = 1 /\ LockTo(c6) = 1
    BY <1>1, <1>2, <1>3a, <1>3b, <2>1, <1>5, SMT DEF LockTo, Regs, Bit
  <2>6. InMode("PBE", c6) /\ "PBE" \in Modes
    BY <1>1, <1>2, <1>3a, <1>3b, <2>1, <1>5, SMT DEF InMode, Modes, Regs, Bit
  <2>7. /\ c6.cme0 = 1 => c6.irefs = 0 /\ c6.oscsel = 0
        /\ c6.cme1 = 1 => c6.oscsel = 1
        /\ c6.oscsel = 1 => InMode("FEE", c6) /\ c6.frdiv = 0
        /\ c6.oscsel = 0 /\ c6.irefs = 0 =>
             /\ c6.range = RangeFor(board.xtal) /\ c6.frdiv = FrdivFor(board.xtal)
             /\ board.xtal <= FastestClock
        /\ c6.plls = 1 => board.xtal \div (c6.prdiv0 + 1) >= FirstFrequency
    BY <1>1, <1>2, <1>3a, <1>3b, <2>1, <1>5, <1>5, <2>6, SMT DEF InMode, Good, Regs, Bit
  <2>8. Good(c6)
    BY <1>3b, <2>6, <2>7, Zenon DEF Good
  <2>9. SettlesTo(c6, 2, 0, 1, 1, o, k)
    BY <1>1, <1>2, <1>3a, <1>3b, <2>1, <1>5, <2>2, SMT DEF SettlesTo, ClkTo, LockTo, OscTo, Regs, Bit
  <2>. HIDE DEF k, o
  <2>10. At(mcg, 2, 0, 0, 0, o, k) /\ SettledBits(mcg) = Bits(2, 0, 0, 0, o, k)
    BY <1>5, <2>2, SettledAt, Zenon
  <2>11. At(c5, 2, 0, 0, 0, o, k)
    BY <2>10, <2>3, WriteBits, Zenon
  <2>12. Leads(<<Write(c5)>>, mcg, Bits(2, 0, 0, 0, o, k), c5, Bits(2, 0, 0, 0, o, k))
    BY <2>10, <2>3, WriteBits, Zenon
  <2>13. At(c6, 2, 0, 0, 0, o, k)
    BY <2>11, <2>4, WriteBits, Zenon
  <2>14. Leads(<<Write(c6)>>, c5, Bits(2, 0, 0, 0, o, k), c6, Bits(2, 0, 0, 0, o, k))
    BY <2>11, <2>4, WriteBits, Zenon
  <2>15. At(c6, 2, 0, 1, 1, o, k)
    BY <2>13, <2>5, PollPllLeads, Zenon
  <2>16. Leads(PollPll, c6, Bits(2, 0, 0, 0, o, k), c6, Bits(2, 0, 1, 1, o, k))
    BY <2>13, <2>5, PollPllLeads, Zenon
  <2>17. Leads(<<Write(c5), Write(c6)>>, mcg, Bits(2, 0, 0, 0, o, k), c6, Bits(2, 0, 0, 0, o, k))
    BY <2>12, <2>14, Leads2, Zenon
  <2>18. Leads(<<Write(c5), Write(c6)>> \o PollPll, mcg, Bits(2, 0, 0, 0, o, k), c6, Bits(2, 0, 1, 1, o, k))
    BY <2>17, <2>16, LeadsBoth, Zenon
  <2>19. SettledBits(c6) = Bits(2, 0, 1, 1, o, k)
    BY <2>8, <2>9, SettledAt, Zenon
  <2>. QED
    BY <2>8, <2>6, <2>10, <2>18, <2>19, Zenon DEF Reaches
<1>. HIDE DEF k, o
<1>. QED
  BY <1>4, <1>5, Zenon DEF c5, c6

\* pbe_blpe.
LEMMA PbeBlpeCourse ==
  ASSUME board \in Board, mcg \in Regs
  PROVE  LET w1 == [mcg EXCEPT !.lp = 1]
             s == <<Write(w1)>>
         IN /\ s \in Seq(Steps)
            /\ Good(mcg) /\ InMode("PBE", mcg) => Reaches(s, "BLPE", w1)
<1>. DEFINE w1 == [mcg EXCEPT !.lp = 1]
            s == <<Write(w1)>>
            k == mcg.ircs  o == OscTo(mcg)
<1>1. k \in Bit /\ board.erefs \in Bit /\ 0 \in Bit /\ 1 \in Bit /\ 0 \in 0..3 /\ 1 \in 0..3 /\ 2 \in 0..3 /\ 3 \in 0..3 /\ 0 \in 0..7
  BY SMT DEF Regs, Board, Bit
<1>3a. /\ w1 \in Regs
      /\ w1.clks = mcg.clks /\ w1.frdiv = mcg.frdiv /\ w1.irefs = mcg.irefs /\ w1.range = mcg.range /\ w1.erefs0 = mcg.erefs0 /\ w1.lp = 1
      /\ w1.ircs = mcg.ircs /\ w1.prdiv0 = mcg.prdiv0 /\ w1.plls = mcg.plls /\ w1.cme0 = mcg.cme0 /\ w1.vdiv0 = mcg.vdiv0 /\ w1.oscsel = mcg.oscsel /\ w1.cme1 = mcg.cme1
  BY <1>1, Zenon DEF Regs
<1>. HIDE DEF w1
<1>4. s \in Seq(Steps)
  <2>1. Write(w1) \in Steps
    BY <1>3a, WriteType, Zenon
  <2>. QED
    BY <2>1, SMT
<1>5. ASSUME Good(mcg), InMode("PBE", mcg) PROVE Reaches(s, "BLPE", w1)
  <2>1. mcg.clks = 2 /\ mcg.irefs = 0 /\ mcg.plls = 1 /\ mcg.lp = 0 /\ mcg.oscsel = 0 /\ mcg.cme1 = 0
    BY <1>1, <1>5, SMT DEF Good, InMode, Regs, Bit
  <2>2. SettlesTo(mcg, 2, 0, 1, 1, o, k) /\ o \in Bit
    BY <1>1, <2>1, SMT DEF SettlesTo, ClkTo, LockTo, OscTo, Regs, Bit
  <2>3. WriteFits(mcg, w1, 2, 0, 1, 1, o, k, 0, o)
    BY <1>1, <1>3a, <2>1, SMT DEF WriteFits, UsesExternal, UsesInternal, ClkTo, LockTo, OscTo, Regs, Bit
  <2>4. InMode("BLPE", w1) /\ "BLPE" \in Modes
    BY <1>1, <1>3a, <2>1, SMT DEF InMode, Modes, Regs, Bit
  <2>5. /\ w1.cme0 = 1 => w1.irefs = 0 /\ w1.oscsel = 0
        /\ w1.cme1 = 1 => w1.oscsel = 1
        /\ w1.oscsel = 1 => InMode("FEE", w1) /\ w1.frdiv = 0
        /\ w1.oscsel = 0 /\ w1.irefs = 0 =>
             /\ w1.range = RangeFor(board.xtal) /\ w1.frdiv = FrdivFor(board.xtal)
             /\ board.xtal <= FastestClock
        /\ w1.plls = 1 => board.xtal \div (w1.prdiv0 + 1) >= FirstFrequency
    BY <1>1, <1>3a, <2>1, <1>5, <2>4, SMT DEF InMode, Good, Regs, Bit
  <2>6. Good(w1)
    BY <1>3a, <2>4, <2>5, Zenon DEF Good
  <2>7. SettlesTo(w1, 2, 0, 1, 0, o, k)
    BY <1>1, <1>3a, <2>1, <2>2, SMT DEF SettlesTo, ClkTo, LockTo, OscTo, Regs, Bit
  <2>. HIDE DEF k, o
  <2>8. At(mcg, 2, 0, 1, 1, o, k) /\ SettledBits(mcg) = Bits(2, 0, 1, 1, o, k)
    BY <1>5, <2>2, SettledAt, Zenon
  <2>9. At(w1, 2, 0, 1, 0, o, k)
    BY <2>8, <2>3, WriteBits, Zenon
  <2>10. Leads(<<Write(w1)>>, mcg, Bits(2, 0, 1, 1, o, k), w1, Bits(2, 0, 1, 0, o, k))
    BY <2>8, <2>3, WriteBits, Zenon
  <2>11. SettledBits(w1) = Bits(2, 0, 1, 0, o, k)
    BY <2>6, <2>7, SettledAt, Zenon
  <2>. QED
    BY <2>6, <2>4, <2>8, <2>10, <2>11, Zenon DEF Reaches
<1>. HIDE DEF k, o
<1>. QED
  BY <1>4, <1>5, Zenon DEF w1

\* blpe_pbe.
LEMMA BlpePbeCourse ==
  ASSUME board \in Board, mcg \in Regs, NEW p, NEW v, Dividers(p, v)
  PROVE  LET c5 == PllC5(mcg, p)
             c6 == PllC6(mcg, p, v)
             c9 == [c6 EXCEPT !.lp = 0]
             s == <<Write(c5), Write(c6), Write(c9)>> \o PollPll
         IN /\ s \in Seq(Steps)
            /\ Good(mcg) /\ InMode("BLPE", mcg) /\ board.xtal \div p >= FirstFrequency => Reaches(s, "PBE", c9)
<1>. DEFINE c5 == PllC5(mcg, p)
            c6 == PllC6(mcg, p, v)
            c9 == [c6 EXCEPT !.lp = 0]
            s == <<Write(c5), Write(c6), Write(c9)>> \o PollPll
            k == mcg.ircs  o == OscTo(mcg)  q == mcg.plls
<1>1. k \in Bit /\ board.erefs \in Bit /\ 0 \in Bit /\ 1 \in Bit /\ 0 \in 0..3 /\ 1 \in 0..3 /\ 2 \in 0..3 /\ 3 \in 0..3 /\ 0 \in 0..7
  BY SMT DEF Regs, Board, Bit
<1>2. p - 1 \in 0..31 /\ v - 24 \in 0..31 /\ p - 1 + 1 = p
  BY SMT DEF Dividers
<1>3a. /\ c5 \in Regs
      /\ c5.clks = mcg.clks /\ c5.frdiv = mcg.frdiv /\ c5.irefs = mcg.irefs /\ c5.range = mcg.range /\ c5.erefs0 = mcg.erefs0 /\ c5.lp = mcg.lp
      /\ c5.ircs = mcg.ircs /\ c5.prdiv0 = p - 1 /\ c5.plls = mcg.plls /\ c5.cme0 = mcg.cme0 /\ c5.vdiv0 = mcg.vdiv0 /\ c5.oscsel = mcg.oscsel /\ c5.cme1 = mcg.cme1
  BY <1>1, <1>2, Zenon DEF Regs, PllC5, PllC6
<1>3b. /\ c6 \in Regs
      /\ c6.clks = c5.clks /\ c6.frdiv = c5.frdiv /\ c6.irefs = c5.irefs /\ c6.range = c5.range /\ c6.erefs0 = c5.erefs0 /\ c6.lp = c5.lp
      /\ c6.ircs = c5.ircs /\ c6.prdiv0 = c5.prdiv0 /\ c6.plls = 1 /\ c6.cme0 = c5.cme0 /\ c6.vdiv0 = v - 24 /\ c6.oscsel = c5.oscsel /\ c6.cme1 = c5.cme1
  BY <1>1, <1>2, <1>3a, Zenon DEF Regs, PllC5, PllC6
<1>3c. /\ c9 \in Regs
      /\ c9.clks = c6.clks /\ c9.frdiv = c6.frdiv /\ c9.irefs = c6.irefs /\ c9.range = c6.range /\ c9.erefs0 = c6.erefs0 /\ c9.lp = 0
      /\ c9.ircs = c6.ircs /\ c9.prdiv0 = c6.prdiv0 /\ c9.plls = c6.plls /\ c9.cme0 = c6.cme0 /\ c9.vdiv0 = c6.vdiv0 /\ c9.oscsel = c6.oscsel /\ c9.cme1 = c6.cme1
  BY <1>1, <1>2, <1>3b, Zenon DEF Regs, PllC5, PllC6
<1>. HIDE DEF c5, c6, c9
<1>4. s \in Seq(Steps)
  <2>1. Write(c5) \in Steps
    BY <1>3a, <1>3b, <1>3c, WriteType, Zenon
  <2>2. Write(c6) \in Steps
    BY <1>3a, <1>3b, <1>3c, WriteType, Zenon
  <2>3. Write(c9) \in Steps
    BY <1>3a, <1>3b, <1>3c, WriteType, Zenon
  <2>4. PollPll \in Seq(Steps)
    BY <1>1, StepLists, Zenon
  <2>. QED
    BY <2>1, <2>2, <2>3, <2>4, SMT
<1>5. ASSUME Good(mcg), InMode("BLPE", mcg), board.xtal \div p >= FirstFrequency PROVE Reaches(s, "PBE", c9)
  <2>1. mcg.clks = 2 /\ mcg.irefs = 0 /\ mcg.lp = 1 /\ mcg.oscsel = 0 /\ mcg.cme1 = 0
    BY <1>1, <1>5, SMT DEF Good, InMode, Regs, Bit
  <2>2. SettlesTo(mcg, 2, 0, q, 0, o, k) /\ o \in Bit
    BY <1>1, <2>1, SMT DEF SettlesTo, ClkTo, LockTo, OscTo, Regs, Bit
  <2>3. WriteFits(mcg, c5, 2, 0, q, 0, o, k, 0, o)
    BY <1>1, <1>2, <1>3a, <1>3b, <1>3c, <2>1, <1>5, SMT DEF WriteFits, UsesExternal, UsesInternal, ClkTo, LockTo, OscTo, Regs, Bit
  <2>4. WriteFits(c5, c6, 2, 0, q, 0, o, k, 0, o)
    BY <1>1, <1>2, <1>3a, <1>3b, <1>3c, <2>1, <1>5, SMT DEF WriteFits, UsesExternal, UsesInternal, ClkTo, LockTo, OscTo, Regs, Bit
  <2>5. WriteFits(c6, c9, 2, 0, q, 0, o, k, 0, o)
    BY <1>1, <1>2, <1>3a, <1>3b, <1>3c, <2>1, <1>5, SMT DEF WriteFits, UsesExternal, UsesInternal, ClkTo, LockTo, OscTo, Regs, Bit
  <2>6. c9.plls = 1 /\ LockTo(c9) = 1
    BY <1>1, <1>2, <1>3a, <1>3b, <1>3c, <2>1, <1>5, SMT DEF LockTo, Regs, Bit
  <2>7. InMode("PBE", c9) /\ "PBE" \in Modes
    BY <1>1, <1>2, <1>3a, <1>3b, <1>3c, <2>1, <1>5, SMT DEF InMode, Modes, Regs, Bit
  <2>8. /\ c9.cme0 = 1 => c9.irefs = 0 /\ c9.oscsel = 0
        /\ c9.cme1 = 1 => c9.oscsel = 1
        /\ c9.oscsel = 1 => InMode("FEE", c9) /\ c9.frdiv = 0
        /\ c9.oscsel = 0 /\ c9.irefs = 0 =>
             /\ c9.range = RangeFor(board.xtal) /\ c9.frdiv = FrdivFor(board.xtal)
             /\ board.xtal <= FastestClock
        /\ c9.plls = 1 => board.xtal \div (c9.prdiv0 + 1) >= FirstFrequency
    BY <1>1, <1>2, <1>3a, <1>3b, <1>3c, <2>1, <1>5, <1>5, <2>7, SMT DEF InMode, Good, Regs, Bit
  <2>9. Good(c9)
    BY <1>3c, <2>7, <2>8, Zenon DEF Good
  <2>10. SettlesTo(c9, 2, 0, 1, 1, o, k)
    BY <1>1, <1>2, <1>3a, <1>3b, <1>3c, <2>1, <1>5, <2>2, SMT DEF SettlesTo, ClkTo, LockTo, OscTo, Regs, Bit
  <2>. HIDE DEF k, o, q
  <2>11. At(mcg, 2, 0, q, 0, o, k) /\ SettledBits(mcg) = Bits(2, 0, q, 0, o, k)
    BY <1>5, <2>2, SettledAt, Zenon
  <2>12. At(c5, 2, 0, q, 0, o, k)
    BY <2>11, <2>3, WriteBits, Zenon
  <2>13. Leads(<<Write(c5)>>, mcg, Bits(2, 0, q, 0, o, k), c5, Bits(2, 0, q, 0, o, k))
    BY <2>11, <2>3, WriteBits, Zenon
  <2>14. At(c6, 2, 0, q, 0, o, k)
    BY <2>12, <2>4, WriteBits, Zenon
  <2>15. Leads(<<Write(c6)>>, c5, Bits(2, 0, q, 0, o, k), c6, Bits(2, 0, q, 0, o, k))
    BY <2>12, <2>4, WriteBits, Zenon
  <2>16. At(c9, 2, 0, q, 0, o, k)
    BY <2>14, <2>5, WriteBits, Zenon
  <2>17. Leads(<<Write(c9)>>, c6, Bits(2, 0, q, 0, o, k), c9, Bits(2, 0, q, 0, o, k))
    BY <2>14, <2>5, WriteBits, Zenon
  <2>18. At(c9, 2, 0, 1, 1, o, k)
    BY <2>16, <2>6, PollPllLeads, Zenon
  <2>19. Leads(PollPll, c9, Bits(2, 0, q, 0, o, k), c9, Bits(2, 0, 1, 1, o, k))
    BY <2>16, <2>6, PollPllLeads, Zenon
  <2>20. Leads(<<Write(c5), Write(c6), Write(c9)>>, mcg, Bits(2, 0, q, 0, o, k), c9, Bits(2, 0, q, 0, o, k))
    BY <2>13, <2>15, <2>17, Leads3, Zenon
  <2>21. Leads(<<Write(c5), Write(c6), Write(c9)>> \o PollPll, mcg, Bits(2, 0, q, 0, o, k), c9, Bits(2, 0, 1, 1, o, k))
    BY <2>20, <2>19, LeadsBoth, Zenon
  <2>22. SettledBits(c9) = Bits(2, 0, 1, 1, o, k)
    BY <2>9, <2>10, SettledAt, Zenon
  <2>. QED
    BY <2>9, <2>7, <2>11, <2>21, <2>22, Zenon DEF Reaches
<1>. HIDE DEF k, o, q
<1>. QED
  BY <1>4, <1>5, Zenon DEF c5, c6, c9

\* blpe_fbe.
LEMMA BlpeFbeCourse ==
  ASSUME board \in Board, mcg \in Regs
  PROVE  LET c6 == [mcg EXCEPT !.plls = 0]
             c9 == [c6 EXCEPT !.lp = 0]
             s == <<Write(c6), Write(c9), Poll("pllst", 0, \h15)>>
         IN /\ s \in Seq(Steps)
            /\ Good(mcg) /\ InMode("BLPE", mcg) => Reaches(s, "FBE", c9)
<1>. DEFINE c6 == [mcg EXCEPT !.plls = 0]
            c9 == [c6 EXCEPT !.lp = 0]
            h15 == \h15
            s == <<Write(c6), Write(c9), Poll("pllst", 0, h15)>>
            k == mcg.ircs  o == OscTo(mcg)  q == mcg.plls
<1>1. k \in Bit /\ board.erefs \in Bit /\ 0 \in Bit /\ 1 \in Bit /\ 0 \in 0..3 /\ 1 \in 0..3 /\ 2 \in 0..3 /\ 3 \in 0..3 /\ 0 \in 0..7
  BY SMT DEF Regs, Board, Bit
<1>0. h15 \in ErrorCode
  BY Codes, Zenon
<1>. HIDE DEF h15
<1>3a. /\ c6 \in Regs
      /\ c6.clks = mcg.clks /\ c6.frdiv = mcg.frdiv /\ c6.irefs = mcg.irefs /\ c6.range = mcg.range /\ c6.erefs0 = mcg.erefs0 /\ c6.lp = mcg.lp
      /\ c6.ircs = mcg.ircs /\ c6.prdiv0 = mcg.prdiv0 /\ c6.plls = 0 /\ c6.cme0 = mcg.cme0 /\ c6.vdiv0 = mcg.vdiv0 /\ c6.oscsel = mcg.oscsel /\ c6.cme1 = mcg.cme1
  BY <1>1, Zenon DEF Regs
<1>3b. /\ c9 \in Regs
      /\ c9.clks = c6.clks /\ c9.frdiv = c6.frdiv /\ c9.irefs = c6.irefs /\ c9.range = c6.range /\ c9.erefs0 = c6.erefs0 /\ c9.lp = 0
      /\ c9.ircs = c6.ircs /\ c9.prdiv0 = c6.prdiv0 /\ c9.plls = c6.plls /\ c9.cme0 = c6.cme0 /\ c9.vdiv0 = c6.vdiv0 /\ c9.oscsel = c6.oscsel /\ c9.cme1 = c6.cme1
  BY <1>1, <1>3a, Zenon DEF Regs
<1>. HIDE DEF c6, c9
<1>4. s \in Seq(Steps)
  <2>1. Write(c6) \in Steps
    BY <1>3a, <1>3b, WriteType, Zenon
  <2>2. Write(c9) \in Steps
    BY <1>3a, <1>3b, WriteType, Zenon
  <2>3. Poll("pllst", 0, h15) \in Steps
    BY <1>0, <1>1, StatusBitNames, PollType, Zenon
  <2>. QED
    BY <2>1, <2>2, <2>3, SMT
<1>5. ASSUME Good(mcg), InMode("BLPE", mcg) PROVE Reaches(s, "FBE", c9)
  <2>1. mcg.clks = 2 /\ mcg.irefs = 0 /\ mcg.lp = 1 /\ mcg.oscsel = 0 /\ mcg.cme1 = 0
    BY <1>1, <1>5, SMT DEF Good, InMode, Regs, Bit
  <2>2. SettlesTo(mcg, 2, 0, q, 0, o, k) /\ o \in Bit
    BY <1>1, <2>1, SMT DEF SettlesTo, ClkTo, LockTo, OscTo, Regs, Bit
  <2>3. WriteFits(mcg, c6, 2, 0, q, 0, o, k, 0, o)
    BY <1>1, <1>3a, <1>3b, <2>1, SMT DEF WriteFits, UsesExternal, UsesInternal, ClkTo, LockTo, OscTo, Regs, Bit
  <2>4. WriteFits(c6, c9, 2, 0, q, 0, o, k, 0, o)
    BY <1>1, <1>3a, <1>3b, <2>1, SMT DEF WriteFits, UsesExternal, UsesInternal, ClkTo, LockTo, OscTo, Regs, Bit
  <2>5. Asks("pllst", 0, h15, c9)
    BY <1>0, <1>1, <1>3a, <1>3b, <2>1, SMT DEF Asks, ClkTo, LockTo, OscTo, Regs, Bit
  <2>6. InMode("FBE", c9) /\ "FBE" \in Modes
    BY <1>1, <1>3a, <1>3b, <2>1, SMT DEF InMode, Modes, Regs, Bit
  <2>7. /\ c9.cme0 = 1 => c9.irefs = 0 /\ c9.oscsel = 0
        /\ c9.cme1 = 1 => c9.oscsel = 1
        /\ c9.oscsel = 1 => InMode("FEE", c9) /\ c9.frdiv = 0
        /\ c9.oscsel = 0 /\ c9.irefs = 0 =>
             /\ c9.range = RangeFor(board.xtal) /\ c9.frdiv = FrdivFor(board.xtal)
             /\ board.xtal <= FastestClock
        /\ c9.plls = 1 => board.xtal \div (c9.prdiv0 + 1) >= FirstFrequency
    BY <1>1, <1>3a, <1>3b, <2>1, <1>5, <2>6, SMT DEF InMode, Good, Regs, Bit
  <2>8. Good(c9)
    BY <1>3b, <2>6, <2>7, Zenon DEF Good
  <2>9. SettlesTo(c9, 2, 0, 0, 0, o, k)
    BY <1>1, <1>3a, <1>3b, <2>1, <2>2, SMT DEF SettlesTo, ClkTo, LockTo, OscTo, Regs, Bit
  <2>. HIDE DEF k, o, q
  <2>10. At(mcg, 2, 0, q, 0, o, k) /\ SettledBits(mcg) = Bits(2, 0, q, 0, o, k)
    BY <1>5, <2>2, SettledAt, Zenon
  <2>11. At(c6, 2, 0, q, 0, o, k)
    BY <2>10, <2>3, WriteBits, Zenon
  <2>12. Leads(<<Write(c6)>>, mcg, Bits(2, 0, q, 0, o, k), c6, Bits(2, 0, q, 0, o, k))
    BY <2>10, <2>3, WriteBits, Zenon
  <2>13. At(c9, 2, 0, q, 0, o, k)
    BY <2>11, <2>4, WriteBits, Zenon
  <2>14. Leads(<<Write(c9)>>, c6, Bits(2, 0, q, 0, o, k), c9, Bits(2, 0, q, 0, o, k))
    BY <2>11, <2>4, WriteBits, Zenon
  <2>15. At(c9, 2, 0, 0, 0, o, k)
    BY <2>13, <2>5, PollPllst, Zenon
  <2>16. Leads(<<Poll("pllst", 0, h15)>>, c9, Bits(2, 0, q, 0, o, k), c9, Bits(2, 0, 0, 0, o, k))
    BY <2>13, <2>5, PollPllst, Zenon
  <2>17. Leads(<<Write(c6), Write(c9), Poll("pllst", 0, h15)>>, mcg, Bits(2, 0, q, 0, o, k), c9, Bits(2, 0, 0, 0, o, k))
    BY <2>12, <2>14, <2>16, Leads3, Zenon
  <2>18. SettledBits(c9) = Bits(2, 0, 0, 0, o, k)
    BY <2>8, <2>9, SettledAt, Zenon
  <2>. QED
    BY <2>8, <2>6, <2>10, <2>17, <2>18, Zenon DEF Reaches
<1>. HIDE DEF k, o, q
<1>. QED
  BY <1>4, <1>5, Zenon DEF c6, c9, h15

\* fbe_blpe.
LEMMA FbeBlpeCourse ==
  ASSUME board \in Board, mcg \in Regs
  PROVE  LET w1 == [mcg EXCEPT !.lp = 1]
             s == <<Write(w1)>>
         IN /\ s \in Seq(Steps)
            /\ Good(mcg) /\ InMode("FBE", mcg) => Reaches(s, "BLPE", w1)
<1>. DEFINE w1 == [mcg EXCEPT !.lp = 1]
            s == <<Write(w1)>>
            k == mcg.ircs  o == OscTo(mcg)
<1>1. k \in Bit /\ board.erefs \in Bit /\ 0 \in Bit /\ 1 \in Bit /\ 0 \in 0..3 /\ 1 \in 0..3 /\ 2 \in 0..3 /\ 3 \in 0..3 /\ 0 \in 0..7
  BY SMT DEF Regs, Board, Bit
<1>3a. /\ w1 \in Regs
      /\ w1.clks = mcg.clks /\ w1.frdiv = mcg.frdiv /\ w1.irefs = mcg.irefs /\ w1.range = mcg.range /\ w1.erefs0 = mcg.erefs0 /\ w1.lp = 1
      /\ w1.ircs = mcg.ircs /\ w1.prdiv0 = mcg.prdiv0 /\ w1.plls = mcg.plls /\ w1.cme0 = mcg.cme0 /\ w1.vdiv0 = mcg.vdiv0 /\ w1.oscsel = mcg.oscsel /\ w1.cme1 = mcg.cme1
  BY <1>1, Zenon DEF Regs
<1>. HIDE DEF w1
<1>4. s \in Seq(Steps)
  <2>1. Write(w1) \in Steps
    BY <1>3a, WriteType, Zenon
  <2>. QED
    BY <2>1, SMT
<1>5. ASSUME Good(mcg), InMode("FBE", mcg) PROVE Reaches(s, "BLPE", w1)
  <2>1. mcg.clks = 2 /\ mcg.irefs = 0 /\ mcg.plls = 0 /\ mcg.lp = 0 /\ mcg.oscsel = 0 /\ mcg.cme1 = 0
    BY <1>1, <1>5, SMT DEF Good, InMode, Regs, Bit
  <2>2. SettlesTo(mcg, 2, 0, 0, 0, o, k) /\ o \in Bit
    BY <1>1, <2>1, SMT DEF SettlesTo, ClkTo, LockTo, OscTo, Regs, Bit
  <2>3. WriteFits(mcg, w1, 2, 0, 0, 0, o, k, 0, o)
    BY <1>1, <1>3a, <2>1, SMT DEF WriteFits, UsesExternal, UsesInternal, ClkTo, LockTo, OscTo, Regs, Bit
  <2>4. InMode("BLPE", w1) /\ "BLPE" \in Modes
    BY <1>1, <1>3a, <2>1, SMT DEF InMode, Modes, Regs, Bit
  <2>5. /\ w1.cme0 = 1 => w1.irefs = 0 /\ w1.oscsel = 0
        /\ w1.cme1 = 1 => w1.oscsel = 1
        /\ w1.oscsel = 1 => InMode("FEE", w1) /\ w1.frdiv = 0
        /\ w1.oscsel = 0 /\ w1.irefs = 0 =>
             /\ w1.range = RangeFor(board.xtal) /\ w1.frdiv = FrdivFor(board.xtal)
             /\ board.xtal <= FastestClock
        /\ w1.plls = 1 => board.xtal \div (w1.prdiv0 + 1) >= FirstFrequency
    BY <1>1, <1>3a, <2>1, <1>5, <2>4, SMT DEF InMode, Good, Regs, Bit
  <2>6. Good(w1)
    BY <1>3a, <2>4, <2>5, Zenon DEF Good
  <2>7. SettlesTo(w1, 2, 0, 0, 0, o, k)
    BY <1>1, <1>3a, <2>1, <2>2, SMT DEF SettlesTo, ClkTo, LockTo, OscTo, Regs, Bit
  <2>. HIDE DEF k, o
  <2>8. At(mcg, 2, 0, 0, 0, o, k) /\ SettledBits(mcg) = Bits(2, 0, 0, 0, o, k)
    BY <1>5, <2>2, SettledAt, Zenon
  <2>9. At(w1, 2, 0, 0, 0, o, k)
    BY <2>8, <2>3, WriteBits, Zenon
  <2>10. Leads(<<Write(w1)>>, mcg, Bits(2, 0, 0, 0, o, k), w1, Bits(2, 0, 0, 0, o, k))
    BY <2>8, <2>3, WriteBits, Zenon
  <2>11. SettledBits(w1) = Bits(2, 0, 0, 0, o, k)
    BY <2>6, <2>7, SettledAt, Zenon
  <2>. QED
    BY <2>6, <2>4, <2>8, <2>10, <2>11, Zenon DEF Reaches
<1>. HIDE DEF k, o
<1>. QED
  BY <1>4, <1>5, Zenon DEF w1

\* fei_fbe.
LEMMA FeiFbeCourse ==
  ASSUME board \in Board, mcg \in Regs
  PROVE  LET c2 == ExtC2
             c1 == ExtC1(2)
             cm == [ExtC1(2) EXCEPT !.cme0 = 1]
             s == <<Write(c2), Write(c1)>> \o PollExt \o <<Poll("clkst", 2, \h1A), Write(cm)>>
         IN /\ s \in Seq(Steps)
            /\ Good(mcg) /\ InMode("FEI", mcg) /\ board.xtal <= FastestClock => Reaches(s, "FBE", cm)
<1>. DEFINE c2 == ExtC2
            c1 == ExtC1(2)
            cm == [ExtC1(2) EXCEPT !.cme0 = 1]
            h1A == \h1A
            s == <<Write(c2), Write(c1)>> \o PollExt \o <<Poll("clkst", 2, h1A), Write(cm)>>
            k == mcg.ircs  o == OscTo(mcg)  e == board.erefs
<1>1. k \in Bit /\ board.erefs \in Bit /\ 0 \in Bit /\ 1 \in Bit /\ 0 \in 0..3 /\ 1 \in 0..3 /\ 2 \in 0..3 /\ 3 \in 0..3 /\ 0 \in 0..7
  BY SMT DEF Regs, Board, Bit
<1>0. h1A \in ErrorCode
  BY Codes, Zenon
<1>. HIDE DEF h1A
<1>2. RangeFor(board.xtal) \in 0..3 /\ FrdivFor(board.xtal) \in 0..7
  BY SMT DEF RangeFor, FrdivFor, Board
<1>3a. /\ c2 \in Regs
      /\ c2.clks = mcg.clks /\ c2.frdiv = mcg.frdiv /\ c2.irefs = mcg.irefs /\ c2.range = RangeFor(board.xtal) /\ c2.erefs0 = board.erefs /\ c2.lp = mcg.lp
      /\ c2.ircs = mcg.ircs /\ c2.prdiv0 = mcg.prdiv0 /\ c2.plls = mcg.plls /\ c2.cme0 = mcg.cme0 /\ c2.vdiv0 = mcg.vdiv0 /\ c2.oscsel = mcg.oscsel /\ c2.cme1 = mcg.cme1
  BY <1>1, <1>2, Zenon DEF Regs, ExtC1, ExtC2
<1>3b. /\ c1 \in Regs
      /\ c1.clks = 2 /\ c1.frdiv = FrdivFor(board.xtal) /\ c1.irefs = 0 /\ c1.range = c2.range /\ c1.erefs0 = c2.erefs0 /\ c1.lp = c2.lp
      /\ c1.ircs = c2.ircs /\ c1.prdiv0 = c2.prdiv0 /\ c1.plls = c2.plls /\ c1.cme0 = c2.cme0 /\ c1.vdiv0 = c2.vdiv0 /\ c1.oscsel = c2.oscsel /\ c1.cme1 = c2.cme1
  BY <1>1, <1>2, <1>3a, Zenon DEF Regs, ExtC1, ExtC2
<1>3c. /\ cm \in Regs
      /\ cm.clks = c1.clks /\ cm.frdiv = c1.frdiv /\ cm.irefs = c1.irefs /\ cm.range = c1.range /\ cm.erefs0 = c1.erefs0 /\ cm.lp = c1.lp
      /\ cm.ircs = c1.ircs /\ cm.prdiv0 = c1.prdiv0 /\ cm.plls = c1.plls /\ cm.cme0 = 1 /\ cm.vdiv0 = c1.vdiv0 /\ cm.oscsel = c1.oscsel /\ cm.cme1 = c1.cme1
  BY <1>1, <1>2, <1>3b, Zenon DEF Regs, ExtC1, ExtC2
<1>. HIDE DEF c2, c1, cm
<1>4. s \in Seq(Steps)
  <2>1. Write(c2) \in Steps
    BY <1>3a, <1>3b, <1>3c, WriteType, Zenon
  <2>2. Write(c1) \in Steps
    BY <1>3a, <1>3b, <1>3c, WriteType, Zenon
  <2>3. PollExt \in Seq(Steps)
    BY <1>1, StepLists, Zenon
  <2>4. Poll("clkst", 2, h1A) \in Steps
    BY <1>0, <1>1, StatusBitNames, PollType, Zenon
  <2>5. Write(cm) \in Steps
    BY <1>3a, <1>3b, <1>3c, WriteType, Zenon
  <2>. QED
    BY <2>1, <2>2, <2>3, <2>4, <2>5, SMT
<1>5. ASSUME Good(mcg), InMode("FEI", mcg), board.xtal <= FastestClock PROVE Reaches(s, "FBE", cm)
  <2>1. mcg.clks = 0 /\ mcg.irefs = 1 /\ mcg.plls = 0 /\ mcg.lp = 0 /\ mcg.oscsel = 0 /\ mcg.cme0 = 0 /\ mcg.cme1 = 0
    BY <1>1, <1>5, SMT DEF Good, InMode, Regs, Bit
  <2>2. SettlesTo(mcg, 0, 1, 0, 0, 0, k) /\ o \in Bit
    BY <1>1, <2>1, SMT DEF SettlesTo, ClkTo, LockTo, OscTo, Regs, Bit
  <2>3. WriteFits(mcg, c2, 0, 1, 0, 0, 0, k, 0, 0)
    BY <1>1, <1>2, <1>3a, <1>3b, <1>3c, <2>1, <1>5, SMT DEF WriteFits, UsesExternal, UsesInternal, ClkTo, LockTo, OscTo, Regs, Bit
  <2>4. WriteFits(c2, c1, 0, 1, 0, 0, 0, k, 0, 0)
    BY <1>1, <1>2, <1>3a, <1>3b, <1>3c, <2>1, <1>5, SMT DEF WriteFits, UsesExternal, UsesInternal, ClkTo, LockTo, OscTo, Regs, Bit
  <2>5. AsksExt(c1, e)
    BY <1>1, <1>2, <1>3a, <1>3b, <1>3c, <2>1, <1>5, SMT DEF AsksExt, OscTo, Regs, Bit
  <2>6. Asks("clkst", 2, h1A, c1)
    BY <1>0, <1>1, <1>2, <1>3a, <1>3b, <1>3c, <2>1, <1>5, SMT DEF Asks, ClkTo, LockTo, OscTo, Regs, Bit
  <2>7. WriteFits(c1, cm, 2, 0, 0, 0, e, k, 0, e)
    BY <1>1, <1>2, <1>3a, <1>3b, <1>3c, <2>1, <1>5, SMT DEF WriteFits, UsesExternal, UsesInternal, ClkTo, LockTo, OscTo, Regs, Bit
  <2>8. InMode("FBE", cm) /\ "FBE" \in Modes
    BY <1>1, <1>2, <1>3a, <1>3b, <1>3c, <2>1, <1>5, SMT DEF InMode, Modes, Regs, Bit
  <2>9. /\ cm.cme0 = 1 => cm.irefs = 0 /\ cm.oscsel = 0
        /\ cm.cme1 = 1 => cm.oscsel = 1
        /\ cm.oscsel = 1 => InMode("FEE", cm) /\ cm.frdiv = 0
        /\ cm.oscsel = 0 /\ cm.irefs = 0 =>
             /\ cm.range = RangeFor(board.xtal) /\ cm.frdiv = FrdivFor(board.xtal)
             /\ board.xtal <= FastestClock
        /\ cm.plls = 1 => board.xtal \div (cm.prdiv0 + 1) >= FirstFrequency
    BY <1>1, <1>2, <1>3a, <1>3b, <1>3c, <2>1, <1>5, <1>5, <2>8, SMT DEF InMode, Good, Regs, Bit
  <2>10. Good(cm)
    BY <1>3c, <2>8, <2>9, Zenon DEF Good
  <2>11. SettlesTo(cm, 2, 0, 0, 0, e, k)
    BY <1>1, <1>2, <1>3a, <1>3b, <1>3c, <2>1, <1>5, <2>2, SMT DEF SettlesTo, ClkTo, LockTo, OscTo, Regs, Bit
  <2>. HIDE DEF k, o, e
  <2>12. At(mcg, 0, 1, 0, 0, 0, k) /\ SettledBits(mcg) = Bits(0, 1, 0, 0, 0, k)
    BY <1>5, <2>2, SettledAt, Zenon
  <2>13. At(c2, 0, 1, 0, 0, 0, k)
    BY <2>12, <2>3, WriteBits, Zenon
  <2>14. Leads(<<Write(c2)>>, mcg, Bits(0, 1, 0, 0, 0, k), c2, Bits(0, 1, 0, 0, 0, k))
    BY <2>12, <2>3, WriteBits, Zenon
  <2>15. At(c1, 0, 1, 0, 0, 0, k)
    BY <2>13, <2>4, WriteBits, Zenon
  <2>16. Leads(<<Write(c1)>>, c2, Bits(0, 1, 0, 0, 0, k), c1, Bits(0, 1, 0, 0, 0, k))
    BY <2>13, <2>4, WriteBits, Zenon
  <2>17. At(c1, 0, 0, 0, 0, e, k)
    BY <2>15, <2>5, <1>1, PollExtLeads, Zenon
  <2>18. Leads(PollExt, c1, Bits(0, 1, 0, 0, 0, k), c1, Bits(0, 0, 0, 0, e, k))
    BY <2>15, <2>5, <1>1, PollExtLeads, Zenon
  <2>19. At(c1, 2, 0, 0, 0, e, k)
    BY <2>17, <2>6, PollClkst, Zenon
  <2>20. Leads(<<Poll("clkst", 2, h1A)>>, c1, Bits(0, 0, 0, 0, e, k), c1, Bits(2, 0, 0, 0, e, k))
    BY <2>17, <2>6, PollClkst, Zenon
  <2>21. At(cm, 2, 0, 0, 0, e, k)
    BY <2>19, <2>7, WriteBits, Zenon
  <2>22. Leads(<<Write(cm)>>, c1, Bits(2, 0, 0, 0, e, k), cm, Bits(2, 0, 0, 0, e, k))
    BY <2>19, <2>7, WriteBits, Zenon
  <2>23. Leads(<<Write(c2), Write(c1)>>, mcg, Bits(0, 1, 0, 0, 0, k), c1, Bits(0, 1, 0, 0, 0, k))
    BY <2>14, <2>16, Leads2, Zenon
  <2>24. Leads(<<Poll("clkst", 2, h1A), Write(cm)>>, c1, Bits(0, 0, 0, 0, e, k), cm, Bits(2, 0, 0, 0, e, k))
    BY <2>20, <2>22, Leads2, Zenon
  <2>25. Leads(<<Write(c2), Write(c1)>> \o PollExt, mcg, Bits(0, 1, 0, 0, 0, k), c1, Bits(0, 0, 0, 0, e, k))
    BY <2>23, <2>18, LeadsBoth, Zenon
  <2>26. Leads(<<Write(c2), Write(c1)>> \o PollExt \o <<Poll("clkst", 2, h1A), Write(cm)>>, mcg, Bits(0, 1, 0, 0, 0, k), cm, Bits(2, 0, 0, 0, e, k))
    BY <2>25, <2>24, LeadsBoth, Zenon
  <2>27. SettledBits(cm) = Bits(2, 0, 0, 0, e, k)
    BY <2>10, <2>11, SettledAt, Zenon
  <2>. QED
    BY <2>10, <2>8, <2>12, <2>26, <2>27, Zenon DEF Reaches
<1>. HIDE DEF k, o, e
<1>. QED
  BY <1>4, <1>5, Zenon DEF c2, c1, cm, h1A

\* fbi_fbe.
LEMMA FbiFbeCourse ==
  ASSUME board \in Board, mcg \in Regs
  PROVE  LET c2 == ExtC2
             c1 == ExtC1(2)
             cm == [ExtC1(2) EXCEPT !.cme0 = 1]
             s == <<Write(c2), Write(c1)>> \o PollExt \o <<Poll("clkst", 2, \h1A), Write(cm)>>
         IN /\ s \in Seq(Steps)
            /\ Good(mcg) /\ InMode("FBI", mcg) /\ board.xtal <= FastestClock => Reaches(s, "FBE", cm)
<1>. DEFINE c2 == ExtC2
            c1 == ExtC1(2)
            cm == [ExtC1(2) EXCEPT !.cme0 = 1]
            h1A == \h1A
            s == <<Write(c2), Write(c1)>> \o PollExt \o <<Poll("clkst", 2, h1A), Write(cm)>>
            k == mcg.ircs  o == OscTo(mcg)  e == board.erefs
<1>1. k \in Bit /\ board.erefs \in Bit /\ 0 \in Bit /\ 1 \in Bit /\ 0 \in 0..3 /\ 1 \in 0..3 /\ 2 \in 0..3 /\ 3 \in 0..3 /\ 0 \in 0..7
  BY SMT DEF Regs, Board, Bit
<1>0. h1A \in ErrorCode
  BY Codes, Zenon
<1>. HIDE DEF h1A
<1>2. RangeFor(board.xtal) \in 0..3 /\ FrdivFor(board.xtal) \in 0..7
  BY SMT DEF RangeFor, FrdivFor, Board
<1>3a. /\ c2 \in Regs
      /\ c2.clks = mcg.clks /\ c2.frdiv = mcg.frdiv /\ c2.irefs = mcg.irefs /\ c2.range = RangeFor(board.xtal) /\ c2.erefs0 = board.erefs /\ c2.lp = mcg.lp
      /\ c2.ircs = mcg.ircs /\ c2.prdiv0 = mcg.prdiv0 /\ c2.plls = mcg.plls /\ c2.cme0 = mcg.cme0 /\ c2.vdiv0 = mcg.vdiv0 /\ c2.oscsel = mcg.oscsel /\ c2.cme1 = mcg.cme1
  BY <1>1, <1>2, Zenon DEF Regs, ExtC1, ExtC2
<1>3b. /\ c1 \in Regs
      /\ c1.clks = 2 /\ c1.frdiv = FrdivFor(board.xtal) /\ c1.irefs = 0 /\ c1.range = c2.range /\ c1.erefs0 = c2.erefs0 /\ c1.lp = c2.lp
      /\ c1.ircs = c2.ircs /\ c1.prdiv0 = c2.prdiv0 /\ c1.plls = c2.plls /\ c1.cme0 = c2.cme0 /\ c1.vdiv0 = c2.vdiv0 /\ c1.oscsel = c2.oscsel /\ c1.cme1 = c2.cme1
  BY <1>1, <1>2, <1>3a, Zenon DEF Regs, ExtC1, ExtC2
<1>3c. /\ cm \in Regs
      /\ cm.clks = c1.clks /\ cm.frdiv = c1.frdiv /\ cm.irefs = c1.irefs /\ cm.range = c1.range /\ cm.erefs0 = c1.erefs0 /\ cm.lp = c1.lp
      /\ cm.ircs = c1.ircs /\ cm.prdiv0 = c1.prdiv0 /\ cm.plls = c1.plls /\ cm.cme0 = 1 /\ cm.vdiv0 = c1.vdiv0 /\ cm.oscsel = c1.oscsel /\ cm.cme1 = c1.cme1
  BY <1>1, <1>2, <1>3b, Zenon DEF Regs, ExtC1, ExtC2
<1>. HIDE DEF c2, c1, cm
<1>4. s \in Seq(Steps)
  <2>1. Write(c2) \in Steps
    BY <1>3a, <1>3b, <1>3c, WriteType, Zenon
  <2>2. Write(c1) \in Steps
    BY <1>3a, <1>3b, <1>3c, WriteType, Zenon
  <2>3. PollExt \in Seq(Steps)
    BY <1>1, StepLists, Zenon
  <2>4. Poll("clkst", 2, h1A) \in Steps
    BY <1>0, <1>1, StatusBitNames, PollType, Zenon
  <2>5. Write(cm) \in Steps
    BY <1>3a, <1>3b, <1>3c, WriteType, Zenon
  <2>. QED
    BY <2>1, <2>2, <2>3, <2>4, <2>5, SMT
<1>5. ASSUME Good(mcg), InMode("FBI", mcg), board.xtal <= FastestClock PROVE Reaches(s, "FBE", cm)
  <2>1. mcg.clks = 1 /\ mcg.irefs = 1 /\ mcg.plls = 0 /\ mcg.lp = 0 /\ mcg.oscsel = 0 /\ mcg.cme0 = 0 /\ mcg.cme1 = 0
    BY <1>1, <1>5, SMT DEF Good, InMode, Regs, Bit
  <2>2. SettlesTo(mcg, 1, 1, 0, 0, 0, k) /\ o \in Bit
    BY <1>1, <2>1, SMT DEF SettlesTo, ClkTo, LockTo, OscTo, Regs, Bit
  <2>3. WriteFits(mcg, c2, 1, 1, 0, 0, 0, k, 0, 0)
    BY <1>1, <1>2, <1>3a, <1>3b, <1>3c, <2>1, <1>5, SMT DEF WriteFits, UsesExternal, UsesInternal, ClkTo, LockTo, OscTo, Regs, Bit
  <2>4. WriteFits(c2, c1, 1, 1, 0, 0, 0, k, 0, 0)
    BY <1>1, <1>2, <1>3a, <1>3b, <1>3c, <2>1, <1>5, SMT DEF WriteFits, UsesExternal, UsesInternal, ClkTo, LockTo, OscTo, Regs, Bit
  <2>5. AsksExt(c1, e)
    BY <1>1, <1>2, <1>3a, <1>3b, <1>3c, <2>1, <1>5, SMT DEF AsksExt, OscTo, Regs, Bit
  <2>6. Asks("clkst", 2, h1A, c1)
    BY <1>0, <1>1, <1>2, <1>3a, <1>3b, <1>3c, <2>1, <1>5, SMT DEF Asks, ClkTo, LockTo, OscTo, Regs, Bit
  <2>7. WriteFits(c1, cm, 2, 0, 0, 0, e, k, 0, e)
    BY <1>1, <1>2, <1>3a, <1>3b, <1>3c, <2>1, <1>5, SMT DEF WriteFits, UsesExternal, UsesInternal, ClkTo, LockTo, OscTo, Regs, Bit
  <2>8. InMode("FBE", cm) /\ "FBE" \in Modes
    BY <1>1, <1>2, <1>3a, <1>3b, <1>3c, <2>1, <1>5, SMT DEF InMode, Modes, Regs, Bit
  <2>9. /\ cm.cme0 = 1 => cm.irefs = 0 /\ cm.oscsel = 0
        /\ cm.cme1 = 1 => cm.oscsel = 1
        /\ cm.oscsel = 1 => InMode("FEE", cm) /\ cm.frdiv = 0
        /\ cm.oscsel = 0 /\ cm.irefs = 0 =>
             /\ cm.range = RangeFor(board.xtal) /\ cm.frdiv = FrdivFor(board.xtal)
             /\ board.xtal <= FastestClock
        /\ cm.plls = 1 => board.xtal \div (cm.prdiv0 + 1) >= FirstFrequency
    BY <1>1, <1>2, <1>3a, <1>3b, <1>3c, <2>1, <1>5, <1>5, <2>8, SMT DEF InMode, Good, Regs, Bit
  <2>10. Good(cm)
    BY <1>3c, <2>8, <2>9, Zenon DEF Good
  <2>11. SettlesTo(cm, 2, 0, 0, 0, e, k)
    BY <1>1, <1>2, <1>3a, <1>3b, <1>3c, <2>1, <1>5, <2>2, SMT DEF SettlesTo, ClkTo, LockTo, OscTo, Regs, Bit
  <2>. HIDE DEF k, o, e
  <2>12. At(mcg, 1, 1, 0, 0, 0, k) /\ SettledBits(mcg) = Bits(1, 1, 0, 0, 0, k)
    BY <1>5, <2>2, SettledAt, Zenon
  <2>13. At(c2, 1, 1, 0, 0, 0, k)
    BY <2>12, <2>3, WriteBits, Zenon
  <2>14. Leads(<<Write(c2)>>, mcg, Bits(1, 1, 0, 0, 0, k), c2, Bits(1, 1, 0, 0, 0, k))
    BY <2>12, <2>3, WriteBits, Zenon
  <2>15. At(c1, 1, 1, 0, 0, 0, k)
    BY <2>13, <2>4, WriteBits, Zenon
  <2>16. Leads(<<Write(c1)>>, c2, Bits(1, 1, 0, 0, 0, k), c1, Bits(1, 1, 0, 0, 0, k))
    BY <2>13, <2>4, WriteBits, Zenon
  <2>17. At(c1, 1, 0, 0, 0, e, k)
    BY <2>15, <2>5, <1>1, PollExtLeads, Zenon
  <2>18. Leads(PollExt, c1, Bits(1, 1, 0, 0, 0, k), c1, Bits(1, 0, 0, 0, e, k))
    BY <2>15, <2>5, <1>1, PollExtLeads, Zenon
  <2>19. At(c1, 2, 0, 0, 0, e, k)
    BY <2>17, <2>6, PollClkst, Zenon
  <2>20. Leads(<<Poll("clkst", 2, h1A)>>, c1, Bits(1, 0, 0, 0, e, k), c1, Bits(2, 0, 0, 0, e, k))
    BY <2>17, <2>6, PollClkst, Zenon
  <2>21. At(cm, 2, 0, 0, 0, e, k)
    BY <2>19, <2>7, WriteBits, Zenon
  <2>22. Leads(<<Write(cm)>>, c1, Bits(2, 0, 0, 0, e, k), cm, Bits(2, 0, 0, 0, e, k))
    BY <2>19, <2>7, WriteBits, Zenon
  <2>23. Leads(<<Write(c2), Write(c1)>>, mcg, Bits(1, 1, 0, 0, 0, k), c1, Bits(1, 1, 0, 0, 0, k))
    BY <2>14, <2>16, Leads2, Zenon
  <2>24. Leads(<<Poll("clkst", 2, h1A), Write(cm)>>, c1, Bits(1, 0, 0, 0, e, k), cm, Bits(2, 0, 0, 0, e, k))
    BY <2>20, <2>22, Leads2, Zenon
  <2>25. Leads(<<Write(c2), Write(c1)>> \o PollExt, mcg, Bits(1, 1, 0, 0, 0, k), c1, Bits(1, 0, 0, 0, e, k))
    BY <2>23, <2>18, LeadsBoth, Zenon
  <2>26. Leads(<<Write(c2), Write(c1)>> \o PollExt \o <<Poll("clkst", 2, h1A), Write(cm)>>, mcg, Bits(1, 1, 0, 0, 0, k), cm, Bits(2, 0, 0, 0, e, k))
    BY <2>25, <2>24, LeadsBoth, Zenon
  <2>27. SettledBits(cm) = Bits(2, 0, 0, 0, e, k)
    BY <2>10, <2>11, SettledAt, Zenon
  <2>. QED
    BY <2>10, <2>8, <2>12, <2>26, <2>27, Zenon DEF Reaches
<1>. HIDE DEF k, o, e
<1>. QED
  BY <1>4, <1>5, Zenon DEF c2, c1, cm, h1A

\* fbe_fee.
LEMMA FbeFeeCourse ==
  ASSUME board \in Board, mcg \in Regs
  PROVE  LET w1 == [mcg EXCEPT !.clks = 0]
             s == <<Write(w1), Poll("clkst", 0, \h18)>>
         IN /\ s \in Seq(Steps)
            /\ Good(mcg) /\ InMode("FBE", mcg) => Reaches(s, "FEE", w1)
<1>. DEFINE w1 == [mcg EXCEPT !.clks = 0]
            h18 == \h18
            s == <<Write(w1), Poll("clkst", 0, h18)>>
            k == mcg.ircs  o == OscTo(mcg)
<1>1. k \in Bit /\ board.erefs \in Bit /\ 0 \in Bit /\ 1 \in Bit /\ 0 \in 0..3 /\ 1 \in 0..3 /\ 2 \in 0..3 /\ 3 \in 0..3 /\ 0 \in 0..7
  BY SMT DEF Regs, Board, Bit
<1>0. h18 \in ErrorCode
  BY Codes, Zenon
<1>. HIDE DEF h18
<1>3a. /\ w1 \in Regs
      /\ w1.clks = 0 /\ w1.frdiv = mcg.frdiv /\ w1.irefs = mcg.irefs /\ w1.range = mcg.range /\ w1.erefs0 = mcg.erefs0 /\ w1.lp = mcg.lp
      /\ w1.ircs = mcg.ircs /\ w1.prdiv0 = mcg.prdiv0 /\ w1.plls = mcg.plls /\ w1.cme0 = mcg.cme0 /\ w1.vdiv0 = mcg.vdiv0 /\ w1.oscsel = mcg.oscsel /\ w1.cme1 = mcg.cme1
  BY <1>1, Zenon DEF Regs
<1>. HIDE DEF w1
<1>4. s \in Seq(Steps)
  <2>1. Write(w1) \in Steps
    BY <1>3a, WriteType, Zenon
  <2>2. Poll("clkst", 0, h18) \in Steps
    BY <1>0, <1>1, StatusBitNames, PollType, Zenon
  <2>. QED
    BY <2>1, <2>2, SMT
<1>5. ASSUME Good(mcg), InMode("FBE", mcg) PROVE Reaches(s, "FEE", w1)
  <2>1. mcg.clks = 2 /\ mcg.irefs = 0 /\ mcg.plls = 0 /\ mcg.lp = 0 /\ mcg.oscsel = 0 /\ mcg.cme1 = 0
    BY <1>1, <1>5, SMT DEF Good, InMode, Regs, Bit
  <2>2. SettlesTo(mcg, 2, 0, 0, 0, o, k) /\ o \in Bit
    BY <1>1, <2>1, SMT DEF SettlesTo, ClkTo, LockTo, OscTo, Regs, Bit
  <2>3. WriteFits(mcg, w1, 2, 0, 0, 0, o, k, 0, o)
    BY <1>1, <1>3a, <2>1, SMT DEF WriteFits, UsesExternal, UsesInternal, ClkTo, LockTo, OscTo, Regs, Bit
  <2>4. Asks("clkst", 0, h18, w1)
    BY <1>0, <1>1, <1>3a, <2>1, SMT DEF Asks, ClkTo, LockTo, OscTo, Regs, Bit
  <2>5. InMode("FEE", w1) /\ "FEE" \in Modes
    BY <1>1, <1>3a, <2>1, SMT DEF InMode, Modes, Regs, Bit
  <2>6. /\ w1.cme0 = 1 => w1.irefs = 0 /\ w1.oscsel = 0
        /\ w1.cme1 = 1 => w1.oscsel = 1
        /\ w1.oscsel = 1 => InMode("FEE", w1) /\ w1.frdiv = 0
        /\ w1.oscsel = 0 /\ w1.irefs = 0 =>
             /\ w1.range = RangeFor(board.xtal) /\ w1.frdiv = FrdivFor(board.xtal)
             /\ board.xtal <= FastestClock
        /\ w1.plls = 1 => board.xtal \div (w1.prdiv0 + 1) >= FirstFrequency
    BY <1>1, <1>3a, <2>1, <1>5, <2>5, SMT DEF InMode, Good, Regs, Bit
  <2>7. Good(w1)
    BY <1>3a, <2>5, <2>6, Zenon DEF Good
  <2>8. SettlesTo(w1, 0, 0, 0, 0, o, k)
    BY <1>1, <1>3a, <2>1, <2>2, SMT DEF SettlesTo, ClkTo, LockTo, OscTo, Regs, Bit
  <2>. HIDE DEF k, o
  <2>9. At(mcg, 2, 0, 0, 0, o, k) /\ SettledBits(mcg) = Bits(2, 0, 0, 0, o, k)
    BY <1>5, <2>2, SettledAt, Zenon
  <2>10. At(w1, 2, 0, 0, 0, o, k)
    BY <2>9, <2>3, WriteBits, Zenon
  <2>11. Leads(<<Write(w1)>>, mcg, Bits(2, 0, 0, 0, o, k), w1, Bits(2, 0, 0, 0, o, k))
    BY <2>9, <2>3, WriteBits, Zenon
  <2>12. At(w1, 0, 0, 0, 0, o, k)
    BY <2>10, <2>4, PollClkst, Zenon
  <2>13. Leads(<<Poll("clkst", 0, h18)>>, w1, Bits(2, 0, 0, 0, o, k), w1, Bits(0, 0, 0, 0, o, k))
    BY <2>10, <2>4, PollClkst, Zenon
  <2>14. Leads(<<Write(w1), Poll("clkst", 0, h18)>>, mcg, Bits(2, 0, 0, 0, o, k), w1, Bits(0, 0, 0, 0, o, k))
    BY <2>11, <2>13, Leads2, Zenon
  <2>15. SettledBits(w1) = Bits(0, 0, 0, 0, o, k)
    BY <2>7, <2>8, SettledAt, Zenon
  <2>. QED
    BY <2>7, <2>5, <2>9, <2>14, <2>15, Zenon DEF Reaches
<1>. HIDE DEF k, o
<1>. QED
  BY <1>4, <1>5, Zenon DEF w1, h18

\* fee_fbe.
LEMMA FeeFbeCourse ==
  ASSUME board \in Board, mcg \in Regs
  PROVE  LET w1 == [mcg EXCEPT !.clks = OrClks2(mcg.clks)]
             s == <<Write(w1), Poll("clkst", 2, \h1A)>>
         IN /\ s \in Seq(Steps)
            /\ Good(mcg) /\ InMode("FEE", mcg) /\ mcg.oscsel = 0 => Reaches(s, "FBE", w1)
<1>. DEFINE w1 == [mcg EXCEPT !.clks = OrClks2(mcg.clks)]
            h1A == \h1A
            s == <<Write(w1), Poll("clkst", 2, h1A)>>
            k == mcg.ircs  o == OscTo(mcg)
<1>1. k \in Bit /\ board.erefs \in Bit /\ 0 \in Bit /\ 1 \in Bit /\ 0 \in 0..3 /\ 1 \in 0..3 /\ 2 \in 0..3 /\ 3 \in 0..3 /\ 0 \in 0..7
  BY SMT DEF Regs, Board, Bit
<1>0. h1A \in ErrorCode
  BY Codes, Zenon
<1>. HIDE DEF h1A
<1>2. OrClks2(mcg.clks) \in 0..3 /\ (mcg.clks = 0 => OrClks2(mcg.clks) = 2)
  BY SMT DEF OrClks2, Regs
<1>3a. /\ w1 \in Regs
      /\ w1.clks = OrClks2(mcg.clks) /\ w1.frdiv = mcg.frdiv /\ w1.irefs = mcg.irefs /\ w1.range = mcg.range /\ w1.erefs0 = mcg.erefs0 /\ w1.lp = mcg.lp
      /\ w1.ircs = mcg.ircs /\ w1.prdiv0 = mcg.prdiv0 /\ w1.plls = mcg.plls /\ w1.cme0 = mcg.cme0 /\ w1.vdiv0 = mcg.vdiv0 /\ w1.oscsel = mcg.oscsel /\ w1.cme1 = mcg.cme1
  BY <1>1, <1>2, Zenon DEF Regs
<1>. HIDE DEF w1
<1>4. s \in Seq(Steps)
  <2>1. Write(w1) \in Steps
    BY <1>3a, WriteType, Zenon
  <2>2. Poll("clkst", 2, h1A) \in Steps
    BY <1>0, <1>1, StatusBitNames, PollType, Zenon
  <2>. QED
    BY <2>1, <2>2, SMT
<1>5. ASSUME Good(mcg), InMode("FEE", mcg), mcg.oscsel = 0 PROVE Reaches(s, "FBE", w1)
  <2>1. mcg.clks = 0 /\ mcg.irefs = 0 /\ mcg.plls = 0 /\ mcg.lp = 0 /\ mcg.oscsel = 0 /\ mcg.cme1 = 0
    BY <1>1, <1>5, SMT DEF Good, InMode, Regs, Bit
  <2>2. SettlesTo(mcg, 0, 0, 0, 0, o, k) /\ o \in Bit
    BY <1>1, <2>1, SMT DEF SettlesTo, ClkTo, LockTo, OscTo, Regs, Bit
  <2>3. WriteFits(mcg, w1, 0, 0, 0, 0, o, k, 0, o)
    BY <1>1, <1>2, <1>3a, <2>1, SMT DEF WriteFits, UsesExternal, UsesInternal, ClkTo, LockTo, OscTo, Regs, Bit
  <2>4. Asks("clkst", 2, h1A, w1)
    BY <1>0, <1>1, <1>2, <1>3a, <2>1, SMT DEF Asks, ClkTo, LockTo, OscTo, Regs, Bit
  <2>5. InMode("FBE", w1) /\ "FBE" \in Modes
    BY <1>1, <1>2, <1>3a, <2>1, SMT DEF InMode, Modes, Regs, Bit
  <2>6. /\ w1.cme0 = 1 => w1.irefs = 0 /\ w1.oscsel = 0
        /\ w1.cme1 = 1 => w1.oscsel = 1
        /\ w1.oscsel = 1 => InMode("FEE", w1) /\ w1.frdiv = 0
        /\ w1.oscsel = 0 /\ w1.irefs = 0 =>
             /\ w1.range = RangeFor(board.xtal) /\ w1.frdiv = FrdivFor(board.xtal)
             /\ board.xtal <= FastestClock
        /\ w1.plls = 1 => board.xtal \div (w1.prdiv0 + 1) >= FirstFrequency
    BY <1>1, <1>2, <1>3a, <2>1, <1>5, <2>5, SMT DEF InMode, Good, Regs, Bit
  <2>7. Good(w1)
    BY <1>3a, <2>5, <2>6, Zenon DEF Good
  <2>8. SettlesTo(w1, 2, 0, 0, 0, o, k)
    BY <1>1, <1>2, <1>3a, <2>1, <2>2, SMT DEF SettlesTo, ClkTo, LockTo, OscTo, Regs, Bit
  <2>. HIDE DEF k, o
  <2>9. At(mcg, 0, 0, 0, 0, o, k) /\ SettledBits(mcg) = Bits(0, 0, 0, 0, o, k)
    BY <1>5, <2>2, SettledAt, Zenon
  <2>10. At(w1, 0, 0, 0, 0, o, k)
    BY <2>9, <2>3, WriteBits, Zenon
  <2>11. Leads(<<Write(w1)>>, mcg, Bits(0, 0, 0, 0, o, k), w1, Bits(0, 0, 0, 0, o, k))
    BY <2>9, <2>3, WriteBits, Zenon
  <2>12. At(w1, 2, 0, 0, 0, o, k)
    BY <2>10, <2>4, PollClkst, Zenon
  <2>13. Leads(<<Poll("clkst", 2, h1A)>>, w1, Bits(0, 0, 0, 0, o, k), w1, Bits(2, 0, 0, 0, o, k))
    BY <2>10, <2>4, PollClkst, Zenon
  <2>14. Leads(<<Write(w1), Poll("clkst", 2, h1A)>>, mcg, Bits(0, 0, 0, 0, o, k), w1, Bits(2, 0, 0, 0, o, k))
    BY <2>11, <2>13, Leads2, Zenon
  <2>15. SettledBits(w1) = Bits(2, 0, 0, 0, o, k)
    BY <2>7, <2>8, SettledAt, Zenon
  <2>. QED
    BY <2>7, <2>5, <2>9, <2>14, <2>15, Zenon DEF Reaches
<1>. HIDE DEF k, o
<1>. QED
  BY <1>4, <1>5, Zenon DEF w1, h1A

\* fbe_fbi.
LEMMA FbeFbiCourse ==
  ASSUME board \in Board, mcg \in Regs, NEW irc_select, irc_select \in Bit
  PROVE  LET c2 == [mcg EXCEPT !.ircs = irc_select]
             c6 == [c2 EXCEPT !.cme0 = 0]
             c1 == [c6 EXCEPT !.clks = 1, !.irefs = 1]
             s == <<Write(c2), Write(c6), Write(c1), PollIrc(irc_select), Poll("clkst", 1, \h19), Poll("irefst", 1, \h12)>>
         IN /\ s \in Seq(Steps)
            /\ Good(mcg) /\ InMode("FBE", mcg) => Reaches(s, "FBI", c1)
<1>. DEFINE c2 == [mcg EXCEPT !.ircs = irc_select]
            c6 == [c2 EXCEPT !.cme0 = 0]
            c1 == [c6 EXCEPT !.clks = 1, !.irefs = 1]
            h19 == \h19
            h12 == \h12
            s == <<Write(c2), Write(c6), Write(c1), PollIrc(irc_select), Poll("clkst", 1, h19), Poll("irefst", 1, h12)>>
            k == mcg.ircs  o == OscTo(mcg)
<1>1. k \in Bit /\ board.erefs \in Bit /\ 0 \in Bit /\ 1 \in Bit /\ 0 \in 0..3 /\ 1 \in 0..3 /\ 2 \in 0..3 /\ 3 \in 0..3 /\ 0 \in 0..7
  BY SMT DEF Regs, Board, Bit
<1>0. h19 \in ErrorCode /\ h12 \in ErrorCode
  BY Codes, Zenon
<1>. HIDE DEF h19, h12
<1>2. irc_select \in Bit
  BY Zenon
<1>3a. /\ c2 \in Regs
      /\ c2.clks = mcg.clks /\ c2.frdiv = mcg.frdiv /\ c2.irefs = mcg.irefs /\ c2.range = mcg.range /\ c2.erefs0 = mcg.erefs0 /\ c2.lp = mcg.lp
      /\ c2.ircs = irc_select /\ c2.prdiv0 = mcg.prdiv0 /\ c2.plls = mcg.plls /\ c2.cme0 = mcg.cme0 /\ c2.vdiv0 = mcg.vdiv0 /\ c2.oscsel = mcg.oscsel /\ c2.cme1 = mcg.cme1
  BY <1>1, <1>2, Zenon DEF Regs
<1>3b. /\ c6 \in Regs
      /\ c6.clks = c2.clks /\ c6.frdiv = c2.frdiv /\ c6.irefs = c2.irefs /\ c6.range = c2.range /\ c6.erefs0 = c2.erefs0 /\ c6.lp = c2.lp
      /\ c6.ircs = c2.ircs /\ c6.prdiv0 = c2.prdiv0 /\ c6.plls = c2.plls /\ c6.cme0 = 0 /\ c6.vdiv0 = c2.vdiv0 /\ c6.oscsel = c2.oscsel /\ c6.cme1 = c2.cme1
  BY <1>1, <1>2, <1>3a, Zenon DEF Regs
<1>3c. /\ c1 \in Regs
      /\ c1.clks = 1 /\ c1.frdiv = c6.frdiv /\ c1.irefs = 1 /\ c1.range = c6.range /\ c1.erefs0 = c6.erefs0 /\ c1.lp = c6.lp
      /\ c1.ircs = c6.ircs /\ c1.prdiv0 = c6.prdiv0 /\ c1.plls = c6.plls /\ c1.cme0 = c6.cme0 /\ c1.vdiv0 = c6.vdiv0 /\ c1.oscsel = c6.oscsel /\ c1.cme1 = c6.cme1
  BY <1>1, <1>2, <1>3b, Zenon DEF Regs
<1>. HIDE DEF c2, c6, c1
<1>4. s \in Seq(Steps)
  <2>1. Write(c2) \in Steps
    BY <1>3a, <1>3b, <1>3c, WriteType, Zenon
  <2>2. Write(c6) \in Steps
    BY <1>3a, <1>3b, <1>3c, WriteType, Zenon
  <2>3. Write(c1) \in Steps
    BY <1>3a, <1>3b, <1>3c, WriteType, Zenon
  <2>4. PollIrc(irc_select) \in Steps
    BY <1>1, <1>2, StepLists, Zenon
  <2>5. Poll("clkst", 1, h19) \in Steps
    BY <1>0, <1>1, StatusBitNames, PollType, Zenon
  <2>6. Poll("irefst", 1, h12) \in Steps
    BY <1>0, <1>1, StatusBitNames, PollType, Zenon
  <2>. QED
    BY <2>1, <2>2, <2>3, <2>4, <2>5, <2>6, SMT
<1>5. ASSUME Good(mcg), InMode("FBE", mcg) PROVE Reaches(s, "FBI", c1)
  <2>1. mcg.clks = 2 /\ mcg.irefs = 0 /\ mcg.plls = 0 /\ mcg.lp = 0 /\ mcg.oscsel = 0 /\ mcg.cme1 = 0
    BY <1>1, <1>5, SMT DEF Good, InMode, Regs, Bit
  <2>2. SettlesTo(mcg, 2, 0, 0, 0, o, k) /\ o \in Bit
    BY <1>1, <2>1, SMT DEF SettlesTo, ClkTo, LockTo, OscTo, Regs, Bit
  <2>3. WriteFits(mcg, c2, 2, 0, 0, 0, o, k, 0, o)
    BY <1>1, <1>2, <1>3a, <1>3b, <1>3c, <2>1, SMT DEF WriteFits, UsesExternal, UsesInternal, ClkTo, LockTo, OscTo, Regs, Bit
  <2>4. WriteFits(c2, c6, 2, 0, 0, 0, o, k, 0, o)
    BY <1>1, <1>2, <1>3a, <1>3b, <1>3c, <2>1, SMT DEF WriteFits, UsesExternal, UsesInternal, ClkTo, LockTo, OscTo, Regs, Bit
  <2>5. WriteFits(c6, c1, 2, 0, 0, 0, o, k, 0, 0)
    BY <1>1, <1>2, <1>3a, <1>3b, <1>3c, <2>1, SMT DEF WriteFits, UsesExternal, UsesInternal, ClkTo, LockTo, OscTo, Regs, Bit
  <2>6. irc_select = c1.ircs
    BY <1>1, <1>2, <1>3a, <1>3b, <1>3c, <2>1, SMT DEF Regs
  <2>7. Asks("clkst", 1, h19, c1)
    BY <1>0, <1>1, <1>2, <1>3a, <1>3b, <1>3c, <2>1, SMT DEF Asks, ClkTo, LockTo, OscTo, Regs, Bit
  <2>8. Asks("irefst", 1, h12, c1)
    BY <1>0, <1>1, <1>2, <1>3a, <1>3b, <1>3c, <2>1, SMT DEF Asks, ClkTo, LockTo, OscTo, Regs, Bit
  <2>9. InMode("FBI", c1) /\ "FBI" \in Modes
    BY <1>1, <1>2, <1>3a, <1>3b, <1>3c, <2>1, SMT DEF InMode, Modes, Regs, Bit
  <2>10. /\ c1.cme0 = 1 => c1.irefs = 0 /\ c1.oscsel = 0
         /\ c1.cme1 = 1 => c1.oscsel = 1
         /\ c1.oscsel = 1 => InMode("FEE", c1) /\ c1.frdiv = 0
         /\ c1.oscsel = 0 /\ c1.irefs = 0 =>
              /\ c1.range = RangeFor(board.xtal) /\ c1.frdiv = FrdivFor(board.xtal)
              /\ board.xtal <= FastestClock
         /\ c1.plls = 1 => board.xtal \div (c1.prdiv0 + 1) >= FirstFrequency
    BY <1>1, <1>2, <1>3a, <1>3b, <1>3c, <2>1, <1>5, <2>9, SMT DEF InMode, Good, Regs, Bit
  <2>11. Good(c1)
    BY <1>3c, <2>9, <2>10, Zenon DEF Good
  <2>12. SettlesTo(c1, 1, 1, 0, 0, 0, irc_select)
    BY <1>1, <1>2, <1>3a, <1>3b, <1>3c, <2>1, <2>2, SMT DEF SettlesTo, ClkTo, LockTo, OscTo, Regs, Bit
  <2>. HIDE DEF k, o
  <2>13. At(mcg, 2, 0, 0, 0, o, k) /\ SettledBits(mcg) = Bits(2, 0, 0, 0, o, k)
    BY <1>5, <2>2, SettledAt, Zenon
  <2>14. At(c2, 2, 0, 0, 0, o, k)
    BY <2>13, <2>3, WriteBits, Zenon
  <2>15. Leads(<<Write(c2)>>, mcg, Bits(2, 0, 0, 0, o, k), c2, Bits(2, 0, 0, 0, o, k))
    BY <2>13, <2>3, WriteBits, Zenon
  <2>16. At(c6, 2, 0, 0, 0, o, k)
    BY <2>14, <2>4, WriteBits, Zenon
  <2>17. Leads(<<Write(c6)>>, c2, Bits(2, 0, 0, 0, o, k), c6, Bits(2, 0, 0, 0, o, k))
    BY <2>14, <2>4, WriteBits, Zenon
  <2>18. At(c1, 2, 0, 0, 0, 0, k)
    BY <2>16, <2>5, WriteBits, Zenon
  <2>19. Leads(<<Write(c1)>>, c6, Bits(2, 0, 0, 0, o, k), c1, Bits(2, 0, 0, 0, 0, k))
    BY <2>16, <2>5, WriteBits, Zenon
  <2>20. At(c1, 2, 0, 0, 0, 0, irc_select)
    BY <2>18, <2>6, <1>1, PollIrcLeads, Zenon
  <2>21. Leads(<<PollIrc(irc_select)>>, c1, Bits(2, 0, 0, 0, 0, k), c1, Bits(2, 0, 0, 0, 0, irc_select))
    BY <2>18, <2>6, <1>1, PollIrcLeads, Zenon
  <2>22. At(c1, 1, 0, 0, 0, 0, irc_select)
    BY <2>20, <2>7, PollClkst, Zenon
  <2>23. Leads(<<Poll("clkst", 1, h19)>>, c1, Bits(2, 0, 0, 0, 0, irc_select), c1, Bits(1, 0, 0, 0, 0, irc_select))
    BY <2>20, <2>7, PollClkst, Zenon
  <2>24. At(c1, 1, 1, 0, 0, 0, irc_select)
    BY <2>22, <2>8, PollIrefst, Zenon
  <2>25. Leads(<<Poll("irefst", 1, h12)>>, c1, Bits(1, 0, 0, 0, 0, irc_select), c1, Bits(1, 1, 0, 0, 0, irc_select))
    BY <2>22, <2>8, PollIrefst, Zenon
  <2>26. Leads(<<Write(c2), Write(c6), Write(c1)>>, mcg, Bits(2, 0, 0, 0, o, k), c1, Bits(2, 0, 0, 0, 0, k))
    BY <2>15, <2>17, <2>19, Leads3, Zenon
  <2>27. Leads(<<PollIrc(irc_select), Poll("clkst", 1, h19), Poll("irefst", 1, h12)>>, c1, Bits(2, 0, 0, 0, 0, k), c1, Bits(1, 1, 0, 0, 0, irc_select))
    BY <2>21, <2>23, <2>25, Leads3, Zenon
  <2>28. Leads(<<Write(c2), Write(c6), Write(c1), PollIrc(irc_select), Poll("clkst", 1, h19), Poll("irefst", 1, h12)>>, mcg, Bits(2, 0, 0, 0, o, k), c1, Bits(1, 1, 0, 0, 0, irc_select))
    BY <2>26, <2>27, Leads6, Zenon
  <2>29. SettledBits(c1) = Bits(1, 1, 0, 0, 0, irc_select)
    BY <2>11, <2>12, SettledAt, Zenon
  <2>. QED
    BY <2>11, <2>9, <2>13, <2>28, <2>29, Zenon DEF Reaches
<1>. HIDE DEF k, o
<1>. QED
  BY <1>4, <1>5, Zenon DEF c2, c6, c1, h19, h12

\* fee_fbi.
LEMMA FeeFbiCourse ==
  ASSUME board \in Board, mcg \in Regs, NEW irc_select, irc_select \in Bit
  PROVE  LET c2 == [mcg EXCEPT !.ircs = irc_select]
             c6 == [c2 EXCEPT !.cme0 = 0]
             c1 == [c6 EXCEPT !.clks = OrClks1(c6.clks), !.irefs = 1]
             s == <<Write(c2), Write(c6), Write(c1), PollIrc(irc_select), Poll("clkst", 1, \h19), Poll("irefst", 1, \h12)>>
         IN /\ s \in Seq(Steps)
            /\ Good(mcg) /\ InMode("FEE", mcg) /\ mcg.oscsel = 0 => Reaches(s, "FBI", c1)
<1>. DEFINE c2 == [mcg EXCEPT !.ircs = irc_select]
            c6 == [c2 EXCEPT !.cme0 = 0]
            c1 == [c6 EXCEPT !.clks = OrClks1(c6.clks), !.irefs = 1]
            h19 == \h19
            h12 == \h12
            s == <<Write(c2), Write(c6), Write(c1), PollIrc(irc_select), Poll("clkst", 1, h19), Poll("irefst", 1, h12)>>
            k == mcg.ircs  o == OscTo(mcg)
<1>1. k \in Bit /\ board.erefs \in Bit /\ 0 \in Bit /\ 1 \in Bit /\ 0 \in 0..3 /\ 1 \in 0..3 /\ 2 \in 0..3 /\ 3 \in 0..3 /\ 0 \in 0..7
  BY SMT DEF Regs, Board, Bit
<1>0. h19 \in ErrorCode /\ h12 \in ErrorCode
  BY Codes, Zenon
<1>. HIDE DEF h19, h12
<1>2. irc_select \in Bit /\ OrClks1(mcg.clks) \in 0..3 /\ (mcg.clks = 0 => OrClks1(mcg.clks) = 1)
  BY SMT DEF OrClks1, Regs
<1>3a. /\ c2 \in Regs
      /\ c2.clks = mcg.clks /\ c2.frdiv = mcg.frdiv /\ c2.irefs = mcg.irefs /\ c2.range = mcg.range /\ c2.erefs0 = mcg.erefs0 /\ c2.lp = mcg.lp
      /\ c2.ircs = irc_select /\ c2.prdiv0 = mcg.prdiv0 /\ c2.plls = mcg.plls /\ c2.cme0 = mcg.cme0 /\ c2.vdiv0 = mcg.vdiv0 /\ c2.oscsel = mcg.oscsel /\ c2.cme1 = mcg.cme1
  BY <1>1, <1>2, Zenon DEF Regs
<1>3b. /\ c6 \in Regs
      /\ c6.clks = c2.clks /\ c6.frdiv = c2.frdiv /\ c6.irefs = c2.irefs /\ c6.range = c2.range /\ c6.erefs0 = c2.erefs0 /\ c6.lp = c2.lp
      /\ c6.ircs = c2.ircs /\ c6.prdiv0 = c2.prdiv0 /\ c6.plls = c2.plls /\ c6.cme0 = 0 /\ c6.vdiv0 = c2.vdiv0 /\ c6.oscsel = c2.oscsel /\ c6.cme1 = c2.cme1
  BY <1>1, <1>2, <1>3a, Zenon DEF Regs
<1>3c. /\ c1 \in Regs
      /\ c1.clks = OrClks1(c6.clks) /\ c1.frdiv = c6.frdiv /\ c1.irefs = 1 /\ c1.range = c6.range /\ c1.erefs0 = c6.erefs0 /\ c1.lp = c6.lp
      /\ c1.ircs = c6.ircs /\ c1.prdiv0 = c6.prdiv0 /\ c1.plls = c6.plls /\ c1.cme0 = c6.cme0 /\ c1.vdiv0 = c6.vdiv0 /\ c1.oscsel = c6.oscsel /\ c1.cme1 = c6.cme1
  BY <1>1, <1>2, <1>3b, Zenon DEF Regs
<1>. HIDE DEF c2, c6, c1
<1>4. s \in Seq(Steps)
  <2>1. Write(c2) \in Steps
    BY <1>3a, <1>3b, <1>3c, WriteType, Zenon
  <2>2. Write(c6) \in Steps
    BY <1>3a, <1>3b, <1>3c, WriteType, Zenon
  <2>3. Write(c1) \in Steps
    BY <1>3a, <1>3b, <1>3c, WriteType, Zenon
  <2>4. PollIrc(irc_select) \in Steps
    BY <1>1, <1>2, StepLists, Zenon
  <2>5. Poll("clkst", 1, h19) \in Steps
    BY <1>0, <1>1, StatusBitNames, PollType, Zenon
  <2>6. Poll("irefst", 1, h12) \in Steps
    BY <1>0, <1>1, StatusBitNames, PollType, Zenon
  <2>. QED
    BY <2>1, <2>2, <2>3, <2>4, <2>5, <2>6, SMT
<1>5. ASSUME Good(mcg), InMode("FEE", mcg), mcg.oscsel = 0 PROVE Reaches(s, "FBI", c1)
  <2>1. mcg.clks = 0 /\ mcg.irefs = 0 /\ mcg.plls = 0 /\ mcg.lp = 0 /\ mcg.oscsel = 0 /\ mcg.cme1 = 0
    BY <1>1, <1>5, SMT DEF Good, InMode, Regs, Bit
  <2>2. SettlesTo(mcg, 0, 0, 0, 0, o, k) /\ o \in Bit
    BY <1>1, <2>1, SMT DEF SettlesTo, ClkTo, LockTo, OscTo, Regs, Bit
  <2>3. WriteFits(mcg, c2, 0, 0, 0, 0, o, k, 0, o)
    BY <1>1, <1>2, <1>3a, <1>3b, <1>3c, <2>1, SMT DEF WriteFits, UsesExternal, UsesInternal, ClkTo, LockTo, OscTo, Regs, Bit
  <2>4. WriteFits(c2, c6, 0, 0, 0, 0, o, k, 0, o)
    BY <1>1, <1>2, <1>3a, <1>3b, <1>3c, <2>1, SMT DEF WriteFits, UsesExternal, UsesInternal, ClkTo, LockTo, OscTo, Regs, Bit
  <2>5. WriteFits(c6, c1, 0, 0, 0, 0, o, k, 0, 0)
    BY <1>1, <1>2, <1>3a, <1>3b, <1>3c, <2>1, SMT DEF WriteFits, UsesExternal, UsesInternal, ClkTo, LockTo, OscTo, Regs, Bit
  <2>6. irc_select = c1.ircs
    BY <1>1, <1>2, <1>3a, <1>3b, <1>3c, <2>1, SMT DEF Regs
  <2>7. Asks("clkst", 1, h19, c1)
    BY <1>0, <1>1, <1>2, <1>3a, <1>3b, <1>3c, <2>1, SMT DEF Asks, ClkTo, LockTo, OscTo, Regs, Bit
  <2>8. Asks("irefst", 1, h12, c1)
    BY <1>0, <1>1, <1>2, <1>3a, <1>3b, <1>3c, <2>1, SMT DEF Asks, ClkTo, LockTo, OscTo, Regs, Bit
  <2>9. InMode("FBI", c1) /\ "FBI" \in Modes
    BY <1>1, <1>2, <1>3a, <1>3b, <1>3c, <2>1, SMT DEF InMode, Modes, Regs, Bit
  <2>10. /\ c1.cme0 = 1 => c1.irefs = 0 /\ c1.oscsel = 0
         /\ c1.cme1 = 1 => c1.oscsel = 1
         /\ c1.oscsel = 1 => InMode("FEE", c1) /\ c1.frdiv = 0
         /\ c1.oscsel = 0 /\ c1.irefs = 0 =>
              /\ c1.range = RangeFor(board.xtal) /\ c1.frdiv = FrdivFor(board.xtal)
              /\ board.xtal <= FastestClock
         /\ c1.plls = 1 => board.xtal \div (c1.prdiv0 + 1) >= FirstFrequency
    BY <1>1, <1>2, <1>3a, <1>3b, <1>3c, <2>1, <1>5, <2>9, SMT DEF InMode, Good, Regs, Bit
  <2>11. Good(c1)
    BY <1>3c, <2>9, <2>10, Zenon DEF Good
  <2>12. SettlesTo(c1, 1, 1, 0, 0, 0, irc_select)
    BY <1>1, <1>2, <1>3a, <1>3b, <1>3c, <2>1, <2>2, SMT DEF SettlesTo, ClkTo, LockTo, OscTo, Regs, Bit
  <2>. HIDE DEF k, o
  <2>13. At(mcg, 0, 0, 0, 0, o, k) /\ SettledBits(mcg) = Bits(0, 0, 0, 0, o, k)
    BY <1>5, <2>2, SettledAt, Zenon
  <2>14. At(c2, 0, 0, 0, 0, o, k)
    BY <2>13, <2>3, WriteBits, Zenon
  <2>15. Leads(<<Write(c2)>>, mcg, Bits(0, 0, 0, 0, o, k), c2, Bits(0, 0, 0, 0, o, k))
    BY <2>13, <2>3, WriteBits, Zenon
  <2>16. At(c6, 0, 0, 0, 0, o, k)
    BY <2>14, <2>4, WriteBits, Zenon
  <2>17. Leads(<<Write(c6)>>, c2, Bits(0, 0, 0, 0, o, k), c6, Bits(0, 0, 0, 0, o, k))
    BY <2>14, <2>4, WriteBits, Zenon
  <2>18. At(c1, 0, 0, 0, 0, 0, k)
    BY <2>16, <2>5, WriteBits, Zenon
  <2>19. Leads(<<Write(c1)>>, c6, Bits(0, 0, 0, 0, o, k), c1, Bits(0, 0, 0, 0, 0, k))
    BY <2>16, <2>5, WriteBits, Zenon
  <2>20. At(c1, 0, 0, 0, 0, 0, irc_select)
    BY <2>18, <2>6, <1>1, PollIrcLeads, Zenon
  <2>21. Leads(<<PollIrc(irc_select)>>, c1, Bits(0, 0, 0, 0, 0, k), c1, Bits(0, 0, 0, 0, 0, irc_select))
    BY <2>18, <2>6, <1>1, PollIrcLeads, Zenon
  <2>22. At(c1, 1, 0, 0, 0, 0, irc_select)
    BY <2>20, <2>7, PollClkst, Zenon
  <2>23. Leads(<<Poll("clkst", 1, h19)>>, c1, Bits(0, 0, 0, 0, 0, irc_select), c1, Bits(1, 0, 0, 0, 0, irc_select))
    BY <2>20, <2>7, PollClkst, Zenon
  <2>24. At(c1, 1, 1, 0, 0, 0, irc_select)
    BY <2>22, <2>8, PollIrefst, Zenon
  <2>25. Leads(<<Poll("irefst", 1, h12)>>, c1, Bits(1, 0, 0, 0, 0, irc_select), c1, Bits(1, 1, 0, 0, 0, irc_select))
    BY <2>22, <2>8, PollIrefst, Zenon
  <2>26. Leads(<<Write(c2), Write(c6), Write(c1)>>, mcg, Bits(0, 0, 0, 0, o, k), c1, Bits(0, 0, 0, 0, 0, k))
    BY <2>15, <2>17, <2>19, Leads3, Zenon
  <2>27. Leads(<<PollIrc(irc_select), Poll("clkst", 1, h19), Poll("irefst", 1, h12)>>, c1, Bits(0, 0, 0, 0, 0, k), c1, Bits(1, 1, 0, 0, 0, irc_select))
    BY <2>21, <2>23, <2>25, Leads3, Zenon
  <2>28. Leads(<<Write(c2), Write(c6), Write(c1), PollIrc(irc_select), Poll("clkst", 1, h19), Poll("irefst", 1, h12)>>, mcg, Bits(0, 0, 0, 0, o, k), c1, Bits(1, 1, 0, 0, 0, irc_select))
    BY <2>26, <2>27, Leads6, Zenon
  <2>29. SettledBits(c1) = Bits(1, 1, 0, 0, 0, irc_select)
    BY <2>11, <2>12, SettledAt, Zenon
  <2>. QED
    BY <2>11, <2>9, <2>13, <2>28, <2>29, Zenon DEF Reaches
<1>. HIDE DEF k, o
<1>. QED
  BY <1>4, <1>5, Zenon DEF c2, c6, c1, h19, h12

\* fbi_blpi.
LEMMA FbiBlpiCourse ==
  ASSUME board \in Board, mcg \in Regs
  PROVE  LET w1 == [mcg EXCEPT !.lp = 1]
             s == <<Write(w1)>>
         IN /\ s \in Seq(Steps)
            /\ Good(mcg) /\ InMode("FBI", mcg) => Reaches(s, "BLPI", w1)
<1>. DEFINE w1 == [mcg EXCEPT !.lp = 1]
            s == <<Write(w1)>>
            k == mcg.ircs  o == OscTo(mcg)
<1>1. k \in Bit /\ board.erefs \in Bit /\ 0 \in Bit /\ 1 \in Bit /\ 0 \in 0..3 /\ 1 \in 0..3 /\ 2 \in 0..3 /\ 3 \in 0..3 /\ 0 \in 0..7
  BY SMT DEF Regs, Board, Bit
<1>3a. /\ w1 \in Regs
      /\ w1.clks = mcg.clks /\ w1.frdiv = mcg.frdiv /\ w1.irefs = mcg.irefs /\ w1.range = mcg.range /\ w1.erefs0 = mcg.erefs0 /\ w1.lp = 1
      /\ w1.ircs = mcg.ircs /\ w1.prdiv0 = mcg.prdiv0 /\ w1.plls = mcg.plls /\ w1.cme0 = mcg.cme0 /\ w1.vdiv0 = mcg.vdiv0 /\ w1.oscsel = mcg.oscsel /\ w1.cme1 = mcg.cme1
  BY <1>1, Zenon DEF Regs
<1>. HIDE DEF w1
<1>4. s \in Seq(Steps)
  <2>1. Write(w1) \in Steps
    BY <1>3a, WriteType, Zenon
  <2>. QED
    BY <2>1, SMT
<1>5. ASSUME Good(mcg), InMode("FBI", mcg) PROVE Reaches(s, "BLPI", w1)
  <2>1. mcg.clks = 1 /\ mcg.irefs = 1 /\ mcg.plls = 0 /\ mcg.lp = 0 /\ mcg.oscsel = 0 /\ mcg.cme0 = 0 /\ mcg.cme1 = 0
    BY <1>1, <1>5, SMT DEF Good, InMode, Regs, Bit
  <2>2. SettlesTo(mcg, 1, 1, 0, 0, 0, k) /\ o \in Bit
    BY <1>1, <2>1, SMT DEF SettlesTo, ClkTo, LockTo, OscTo, Regs, Bit
  <2>3. WriteFits(mcg, w1, 1, 1, 0, 0, 0, k, 0, 0)
    BY <1>1, <1>3a, <2>1, SMT DEF WriteFits, UsesExternal, UsesInternal, ClkTo, LockTo, OscTo, Regs, Bit
  <2>4. InMode("BLPI", w1) /\ "BLPI" \in Modes
    BY <1>1, <1>3a, <2>1, SMT DEF InMode, Modes, Regs, Bit
  <2>5. /\ w1.cme0 = 1 => w1.irefs = 0 /\ w1.oscsel = 0
        /\ w1.cme1 = 1 => w1.oscsel = 1
        /\ w1.oscsel = 1 => InMode("FEE", w1) /\ w1.frdiv = 0
        /\ w1.oscsel = 0 /\ w1.irefs = 0 =>
             /\ w1.range = RangeFor(board.xtal) /\ w1.frdiv = FrdivFor(board.xtal)
             /\ board.xtal <= FastestClock
        /\ w1.plls = 1 => board.xtal \div (w1.prdiv0 + 1) >= FirstFrequency
    BY <1>1, <1>3a, <2>1, <1>5, <2>4, SMT DEF InMode, Good, Regs, Bit
  <2>6. Good(w1)
    BY <1>3a, <2>4, <2>5, Zenon DEF Good
  <2>7. SettlesTo(w1, 1, 1, 0, 0, 0, k)
    BY <1>1, <1>3a, <2>1, <2>2, SMT DEF SettlesTo, ClkTo, LockTo, OscTo, Regs, Bit
  <2>. HIDE DEF k, o
  <2>8. At(mcg, 1, 1, 0, 0, 0, k) /\ SettledBits(mcg) = Bits(1, 1, 0, 0, 0, k)
    BY <1>5, <2>2, SettledAt, Zenon
  <2>9. At(w1, 1, 1, 0, 0, 0, k)
    BY <2>8, <2>3, WriteBits, Zenon
  <2>10. Leads(<<Write(w1)>>, mcg, Bits(1, 1, 0, 0, 0, k), w1, Bits(1, 1, 0, 0, 0, k))
    BY <2>8, <2>3, WriteBits, Zenon
  <2>11. SettledBits(w1) = Bits(1, 1, 0, 0, 0, k)
    BY <2>6, <2>7, SettledAt, Zenon
  <2>. QED
    BY <2>6, <2>4, <2>8, <2>10, <2>11, Zenon DEF Reaches
<1>. HIDE DEF k, o
<1>. QED
  BY <1>4, <1>5, Zenon DEF w1

\* blpi_fbi.
LEMMA BlpiFbiCourse ==
  ASSUME board \in Board, mcg \in Regs
  PROVE  LET w1 == [mcg EXCEPT !.lp = 0]
             s == <<Write(w1)>>
         IN /\ s \in Seq(Steps)
            /\ Good(mcg) /\ InMode("BLPI", mcg) => Reaches(s, "FBI", w1)
<1>. DEFINE w1 == [mcg EXCEPT !.lp = 0]
            s == <<Write(w1)>>
            k == mcg.ircs  o == OscTo(mcg)
<1>1. k \in Bit /\ board.erefs \in Bit /\ 0 \in Bit /\ 1 \in Bit /\ 0 \in 0..3 /\ 1 \in 0..3 /\ 2 \in 0..3 /\ 3 \in 0..3 /\ 0 \in 0..7
  BY SMT DEF Regs, Board, Bit
<1>3a. /\ w1 \in Regs
      /\ w1.clks = mcg.clks /\ w1.frdiv = mcg.frdiv /\ w1.irefs = mcg.irefs /\ w1.range = mcg.range /\ w1.erefs0 = mcg.erefs0 /\ w1.lp = 0
      /\ w1.ircs = mcg.ircs /\ w1.prdiv0 = mcg.prdiv0 /\ w1.plls = mcg.plls /\ w1.cme0 = mcg.cme0 /\ w1.vdiv0 = mcg.vdiv0 /\ w1.oscsel = mcg.oscsel /\ w1.cme1 = mcg.cme1
  BY <1>1, Zenon DEF Regs
<1>. HIDE DEF w1
<1>4. s \in Seq(Steps)
  <2>1. Write(w1) \in Steps
    BY <1>3a, WriteType, Zenon
  <2>. QED
    BY <2>1, SMT
<1>5. ASSUME Good(mcg), InMode("BLPI", mcg) PROVE Reaches(s, "FBI", w1)
  <2>1. mcg.clks = 1 /\ mcg.irefs = 1 /\ mcg.plls = 0 /\ mcg.lp = 1 /\ mcg.oscsel = 0 /\ mcg.cme0 = 0 /\ mcg.cme1 = 0
    BY <1>1, <1>5, SMT DEF Good, InMode, Regs, Bit
  <2>2. SettlesTo(mcg, 1, 1, 0, 0, 0, k) /\ o \in Bit
    BY <1>1, <2>1, SMT DEF SettlesTo, ClkTo, LockTo, OscTo, Regs, Bit
  <2>3. WriteFits(mcg, w1, 1, 1, 0, 0, 0, k, 0, 0)
    BY <1>1, <1>3a, <2>1, SMT DEF WriteFits, UsesExternal, UsesInternal, ClkTo, LockTo, OscTo, Regs, Bit
  <2>4. InMode("FBI", w1) /\ "FBI" \in Modes
    BY <1>1, <1>3a, <2>1, SMT DEF InMode, Modes, Regs, Bit
  <2>5. /\ w1.cme0 = 1 => w1.irefs = 0 /\ w1.oscsel = 0
        /\ w1.cme1 = 1 => w1.oscsel = 1
        /\ w1.oscsel = 1 => InMode("FEE", w1) /\ w1.frdiv = 0
        /\ w1.oscsel = 0 /\ w1.irefs = 0 =>
             /\ w1.range = RangeFor(board.xtal) /\ w1.frdiv = FrdivFor(board.xtal)
             /\ board.xtal <= FastestClock
        /\ w1.plls = 1 => board.xtal \div (w1.prdiv0 + 1) >= FirstFrequency
    BY <1>1, <1>3a, <2>1, <1>5, <2>4, SMT DEF InMode, Good, Regs, Bit
  <2>6. Good(w1)
    BY <1>3a, <2>4, <2>5, Zenon DEF Good
  <2>7. SettlesTo(w1, 1, 1, 0, 0, 0, k)
    BY <1>1, <1>3a, <2>1, <2>2, SMT DEF SettlesTo, ClkTo, LockTo, OscTo, Regs, Bit
  <2>. HIDE DEF k, o
  <2>8. At(mcg, 1, 1, 0, 0, 0, k) /\ SettledBits(mcg) = Bits(1, 1, 0, 0, 0, k)
    BY <1>5, <2>2, SettledAt, Zenon
  <2>9. At(w1, 1, 1, 0, 0, 0, k)
    BY <2>8, <2>3, WriteBits, Zenon
  <2>10. Leads(<<Write(w1)>>, mcg, Bits(1, 1, 0, 0, 0, k), w1, Bits(1, 1, 0, 0, 0, k))
    BY <2>8, <2>3, WriteBits, Zenon
  <2>11. SettledBits(w1) = Bits(1, 1, 0, 0, 0, k)
    BY <2>6, <2>7, SettledAt, Zenon
  <2>. QED
    BY <2>6, <2>4, <2>8, <2>10, <2>11, Zenon DEF Reaches
<1>. HIDE DEF k, o
<1>. QED
  BY <1>4, <1>5, Zenon DEF w1

\* fbi_fei.
LEMMA FbiFeiCourse ==
  ASSUME board \in Board, mcg \in Regs
  PROVE  LET w1 == [mcg EXCEPT !.clks = 0, !.irefs = 1]
             s == <<Write(w1), Poll("irefst", 1, \h12), Poll("clkst", 0, \h18)>>
         IN /\ s \in Seq(Steps)
            /\ Good(mcg) /\ InMode("FBI", mcg) => Reaches(s, "FEI", w1)
<1>. DEFINE w1 == [mcg EXCEPT !.clks = 0, !.irefs = 1]
            h12 == \h12
            h18 == \h18
            s == <<Write(w1), Poll("irefst", 1, h12), Poll("clkst", 0, h18)>>
            k == mcg.ircs  o == OscTo(mcg)
<1>1. k \in Bit /\ board.erefs \in Bit /\ 0 \in Bit /\ 1 \in Bit /\ 0 \in 0..3 /\ 1 \in 0..3 /\ 2 \in 0..3 /\ 3 \in 0..3 /\ 0 \in 0..7
  BY SMT DEF Regs, Board, Bit
<1>0. h12 \in ErrorCode /\ h18 \in ErrorCode
  BY Codes, Zenon
<1>. HIDE DEF h12, h18
<1>3a. /\ w1 \in Regs
      /\ w1.clks = 0 /\ w1.frdiv = mcg.frdiv /\ w1.irefs = 1 /\ w1.range = mcg.range /\ w1.erefs0 = mcg.erefs0 /\ w1.lp = mcg.lp
      /\ w1.ircs = mcg.ircs /\ w1.prdiv0 = mcg.prdiv0 /\ w1.plls = mcg.plls /\ w1.cme0 = mcg.cme0 /\ w1.vdiv0 = mcg.vdiv0 /\ w1.oscsel = mcg.oscsel /\ w1.cme1 = mcg.cme1
  BY <1>1, Zenon DEF Regs
<1>. HIDE DEF w1
<1>4. s \in Seq(Steps)
  <2>1. Write(w1) \in Steps
    BY <1>3a, WriteType, Zenon
  <2>2. Poll("irefst", 1, h12) \in Steps
    BY <1>0, <1>1, StatusBitNames, PollType, Zenon
  <2>3. Poll("clkst", 0, h18) \in Steps
    BY <1>0, <1>1, StatusBitNames, PollType, Zenon
  <2>. QED
    BY <2>1, <2>2, <2>3, SMT
<1>5. ASSUME Good(mcg), InMode("FBI", mcg) PROVE Reaches(s, "FEI", w1)
  <2>1. mcg.clks = 1 /\ mcg.irefs = 1 /\ mcg.plls = 0 /\ mcg.lp = 0 /\ mcg.oscsel = 0 /\ mcg.cme0 = 0 /\ mcg.cme1 = 0
    BY <1>1, <1>5, SMT DEF Good, InMode, Regs, Bit
  <2>2. SettlesTo(mcg, 1, 1, 0, 0, 0, k) /\ o \in Bit
    BY <1>1, <2>1, SMT DEF SettlesTo, ClkTo, LockTo, OscTo, Regs, Bit
  <2>3. WriteFits(mcg, w1, 1, 1, 0, 0, 0, k, 0, 0)
    BY <1>1, <1>3a, <2>1, SMT DEF WriteFits, UsesExternal, UsesInternal, ClkTo, LockTo, OscTo, Regs, Bit
  <2>4. Asks("irefst", 1, h12, w1)
    BY <1>0, <1>1, <1>3a, <2>1, SMT DEF Asks, ClkTo, LockTo, OscTo, Regs, Bit
  <2>5. Asks("clkst", 0, h18, w1)
    BY <1>0, <1>1, <1>3a, <2>1, SMT DEF Asks, ClkTo, LockTo, OscTo, Regs, Bit
  <2>6. InMode("FEI", w1) /\ "FEI" \in Modes
    BY <1>1, <1>3a, <2>1, SMT DEF InMode, Modes, Regs, Bit
  <2>7. /\ w1.cme0 = 1 => w1.irefs = 0 /\ w1.oscsel = 0
        /\ w1.cme1 = 1 => w1.oscsel = 1
        /\ w1.oscsel = 1 => InMode("FEE", w1) /\ w1.frdiv = 0
        /\ w1.oscsel = 0 /\ w1.irefs = 0 =>
             /\ w1.range = RangeFor(board.xtal) /\ w1.frdiv = FrdivFor(board.xtal)
             /\ board.xtal <= FastestClock
        /\ w1.plls = 1 => board.xtal \div (w1.prdiv0 + 1) >= FirstFrequency
    BY <1>1, <1>3a, <2>1, <1>5, <2>6, SMT DEF InMode, Good, Regs, Bit
  <2>8. Good(w1)
    BY <1>3a, <2>6, <2>7, Zenon DEF Good
  <2>9. SettlesTo(w1, 0, 1, 0, 0, 0, k)
    BY <1>1, <1>3a, <2>1, <2>2, SMT DEF SettlesTo, ClkTo, LockTo, OscTo, Regs, Bit
  <2>. HIDE DEF k, o
  <2>10. At(mcg, 1, 1, 0, 0, 0, k) /\ SettledBits(mcg) = Bits(1, 1, 0, 0, 0, k)
    BY <1>5, <2>2, SettledAt, Zenon
  <2>11. At(w1, 1, 1, 0, 0, 0, k)
    BY <2>10, <2>3, WriteBits, Zenon
  <2>12. Leads(<<Write(w1)>>, mcg, Bits(1, 1, 0, 0, 0, k), w1, Bits(1, 1, 0, 0, 0, k))
    BY <2>10, <2>3, WriteBits, Zenon
  <2>13. At(w1, 1, 1, 0, 0, 0, k)
    BY <2>11, <2>4, PollIrefst, Zenon
  <2>14. Leads(<<Poll("irefst", 1, h12)>>, w1, Bits(1, 1, 0, 0, 0, k), w1, Bits(1, 1, 0, 0, 0, k))
    BY <2>11, <2>4, PollIrefst, Zenon
  <2>15. At(w1, 0, 1, 0, 0, 0, k)
    BY <2>13, <2>5, PollClkst, Zenon
  <2>16. Leads(<<Poll("clkst", 0, h18)>>, w1, Bits(1, 1, 0, 0, 0, k), w1, Bits(0, 1, 0, 0, 0, k))
    BY <2>13, <2>5, PollClkst, Zenon
  <2>17. Leads(<<Write(w1), Poll("irefst", 1, h12), Poll("clkst", 0, h18)>>, mcg, Bits(1, 1, 0, 0, 0, k), w1, Bits(0, 1, 0, 0, 0, k))
    BY <2>12, <2>14, <2>16, Leads3, Zenon
  <2>18. SettledBits(w1) = Bits(0, 1, 0, 0, 0, k)
    BY <2>8, <2>9, SettledAt, Zenon
  <2>. QED
    BY <2>8, <2>6, <2>10, <2>17, <2>18, Zenon DEF Reaches
<1>. HIDE DEF k, o
<1>. QED
  BY <1>4, <1>5, Zenon DEF w1, h12, h18

\* fei_fbi.
LEMMA FeiFbiCourse ==
  ASSUME board \in Board, mcg \in Regs, NEW irc_select, irc_select \in Bit
  PROVE  LET c2 == [mcg EXCEPT !.ircs = irc_select]
             c1 == [c2 EXCEPT !.clks = 1]
             s == <<Write(c2), Write(c1), PollIrc(irc_select), Poll("clkst", 1, \h19)>>
         IN /\ s \in Seq(Steps)
            /\ Good(mcg) /\ InMode("FEI", mcg) => Reaches(s, "FBI", c1)
<1>. DEFINE c2 == [mcg EXCEPT !.ircs = irc_select]
            c1 == [c2 EXCEPT !.clks = 1]
            h19 == \h19
            s == <<Write(c2), Write(c1), PollIrc(irc_select), Poll("clkst", 1, h19)>>
            k == mcg.ircs  o == OscTo(mcg)
<1>1. k \in Bit /\ board.erefs \in Bit /\ 0 \in Bit /\ 1 \in Bit /\ 0 \in 0..3 /\ 1 \in 0..3 /\ 2 \in 0..3 /\ 3 \in 0..3 /\ 0 \in 0..7
  BY SMT DEF Regs, Board, Bit
<1>0. h19 \in ErrorCode
  BY Codes, Zenon
<1>. HIDE DEF h19
<1>2. irc_select \in Bit
  BY Zenon
<1>3a. /\ c2 \in Regs
      /\ c2.clks = mcg.clks /\ c2.frdiv = mcg.frdiv /\ c2.irefs = mcg.irefs /\ c2.range = mcg.range /\ c2.erefs0 = mcg.erefs0 /\ c2.lp = mcg.lp
      /\ c2.ircs = irc_select /\ c2.prdiv0 = mcg.prdiv0 /\ c2.plls = mcg.plls /\ c2.cme0 = mcg.cme0 /\ c2.vdiv0 = mcg.vdiv0 /\ c2.oscsel = mcg.oscsel /\ c2.cme1 = mcg.cme1
  BY <1>1, <1>2, Zenon DEF Regs
<1>3b. /\ c1 \in Regs
      /\ c1.clks = 1 /\ c1.frdiv = c2.frdiv /\ c1.irefs = c2.irefs /\ c1.range = c2.range /\ c1.erefs0 = c2.erefs0 /\ c1.lp = c2.lp
      /\ c1.ircs = c2.ircs /\ c1.prdiv0 = c2.prdiv0 /\ c1.plls = c2.plls /\ c1.cme0 = c2.cme0 /\ c1.vdiv0 = c2.vdiv0 /\ c1.oscsel = c2.oscsel /\ c1.cme1 = c2.cme1
  BY <1>1, <1>2, <1>3a, Zenon DEF Regs
<1>. HIDE DEF c2, c1
<1>4. s \in Seq(Steps)
  <2>1. Write(c2) \in Steps
    BY <1>3a, <1>3b, WriteType, Zenon
  <2>2. Write(c1) \in Steps
    BY <1>3a, <1>3b, WriteType, Zenon
  <2>3. PollIrc(irc_select) \in Steps
    BY <1>1, <1>2, StepLists, Zenon
  <2>4. Poll("clkst", 1, h19) \in Steps
    BY <1>0, <1>1, StatusBitNames, PollType, Zenon
  <2>. QED
    BY <2>1, <2>2, <2>3, <2>4, SMT
<1>5. ASSUME Good(mcg), InMode("FEI", mcg) PROVE Reaches(s, "FBI", c1)
  <2>1. mcg.clks = 0 /\ mcg.irefs = 1 /\ mcg.plls = 0 /\ mcg.lp = 0 /\ mcg.oscsel = 0 /\ mcg.cme0 = 0 /\ mcg.cme1 = 0
    BY <1>1, <1>5, SMT DEF Good, InMode, Regs, Bit
  <2>2. SettlesTo(mcg, 0, 1, 0, 0, 0, k) /\ o \in Bit
    BY <1>1, <2>1, SMT DEF SettlesTo, ClkTo, LockTo, OscTo, Regs, Bit
  <2>3. WriteFits(mcg, c2, 0, 1, 0, 0, 0, k, 0, 0)
    BY <1>1, <1>2, <1>3a, <1>3b, <2>1, SMT DEF WriteFits, UsesExternal, UsesInternal, ClkTo, LockTo, OscTo, Regs, Bit
  <2>4. WriteFits(c2, c1, 0, 1, 0, 0, 0, k, 0, 0)
    BY <1>1, <1>2, <1>3a, <1>3b, <2>1, SMT DEF WriteFits, UsesExternal, UsesInternal, ClkTo, LockTo, OscTo, Regs, Bit
  <2>5. irc_select = c1.ircs
    BY <1>1, <1>2, <1>3a, <1>3b, <2>1, SMT DEF Regs
  <2>6. Asks("clkst", 1, h19, c1)
    BY <1>0, <1>1, <1>2, <1>3a, <1>3b, <2>1, SMT DEF Asks, ClkTo, LockTo, OscTo, Regs, Bit
  <2>7. InMode("FBI", c1) /\ "FBI" \in Modes
    BY <1>1, <1>2, <1>3a, <1>3b, <2>1, SMT DEF InMode, Modes, Regs, Bit
  <2>8. /\ c1.cme0 = 1 => c1.irefs = 0 /\ c1.oscsel = 0
        /\ c1.cme1 = 1 => c1.oscsel = 1
        /\ c1.oscsel = 1 => InMode("FEE", c1) /\ c1.frdiv = 0
        /\ c1.oscsel = 0 /\ c1.irefs = 0 =>
             /\ c1.range = RangeFor(board.xtal) /\ c1.frdiv = FrdivFor(board.xtal)
             /\ board.xtal <= FastestClock
        /\ c1.plls = 1 => board.xtal \div (c1.prdiv0 + 1) >= FirstFrequency
    BY <1>1, <1>2, <1>3a, <1>3b, <2>1, <1>5, <2>7, SMT DEF InMode, Good, Regs, Bit
  <2>9. Good(c1)
    BY <1>3b, <2>7, <2>8, Zenon DEF Good
  <2>10. SettlesTo(c1, 1, 1, 0, 0, 0, irc_select)
    BY <1>1, <1>2, <1>3a, <1>3b, <2>1, <2>2, SMT DEF SettlesTo, ClkTo, LockTo, OscTo, Regs, Bit
  <2>. HIDE DEF k, o
  <2>11. At(mcg, 0, 1, 0, 0, 0, k) /\ SettledBits(mcg) = Bits(0, 1, 0, 0, 0, k)
    BY <1>5, <2>2, SettledAt, Zenon
  <2>12. At(c2, 0, 1, 0, 0, 0, k)
    BY <2>11, <2>3, WriteBits, Zenon
  <2>13. Leads(<<Write(c2)>>, mcg, Bits(0, 1, 0, 0, 0, k), c2, Bits(0, 1, 0, 0, 0, k))
    BY <2>11, <2>3, WriteBits, Zenon
  <2>14. At(c1, 0, 1, 0, 0, 0, k)
    BY <2>12, <2>4, WriteBits, Zenon
  <2>15. Leads(<<Write(c1)>>, c2, Bits(0, 1, 0, 0, 0, k), c1, Bits(0, 1, 0, 0, 0, k))
    BY <2>12, <2>4, WriteBits, Zenon
  <2>16. At(c1, 0, 1, 0, 0, 0, irc_select)
    BY <2>14, <2>5, <1>1, PollIrcLeads, Zenon
  <2>17. Leads(<<PollIrc(irc_select)>>, c1, Bits(0, 1, 0, 0, 0, k), c1, Bits(0, 1, 0, 0, 0, irc_select))
    BY <2>14, <2>5, <1>1, PollIrcLeads, Zenon
  <2>18. At(c1, 1, 1, 0, 0, 0, irc_select)
    BY <2>16, <2>6, PollClkst, Zenon
  <2>19. Leads(<<Poll("clkst", 1, h19)>>, c1, Bits(0, 1, 0, 0, 0, irc_select), c1, Bits(1, 1, 0, 0, 0, irc_select))
    BY <2>16, <2>6, PollClkst, Zenon
  <2>20. Leads(<<Write(c2), Write(c1), PollIrc(irc_select), Poll("clkst", 1, h19)>>, mcg, Bits(0, 1, 0, 0, 0, k), c1, Bits(1, 1, 0, 0, 0, irc_select))
    BY <2>13, <2>15, <2>17, <2>19, Leads4, Zenon
  <2>21. SettledBits(c1) = Bits(1, 1, 0, 0, 0, irc_select)
    BY <2>9, <2>10, SettledAt, Zenon
  <2>. QED
    BY <2>9, <2>7, <2>11, <2>20, <2>21, Zenon DEF Reaches
<1>. HIDE DEF k, o
<1>. QED
  BY <1>4, <1>5, Zenon DEF c2, c1, h19

\* fei_fee.
LEMMA FeiFeeCourse ==
  ASSUME board \in Board, mcg \in Regs
  PROVE  LET c2 == ExtC2
             c1 == ExtC1(0)
             cm == [ExtC1(0) EXCEPT !.cme0 = 1]
             s == <<Write(c2)>> \o (<<Write(c1)>> \o PollExt \o <<>> \o <<Write(cm)>>)
         IN /\ s \in Seq(Steps)
            /\ Good(mcg) /\ InMode("FEI", mcg) /\ board.xtal <= FastestClock => Reaches(s, "FEE", cm)
<1>. DEFINE c2 == ExtC2
            c1 == ExtC1(0)
            cm == [ExtC1(0) EXCEPT !.cme0 = 1]
            s == <<Write(c2)>> \o (<<Write(c1)>> \o PollExt \o <<>> \o <<Write(cm)>>)
            k == mcg.ircs  o == OscTo(mcg)  e == board.erefs
<1>1. k \in Bit /\ board.erefs \in Bit /\ 0 \in Bit /\ 1 \in Bit /\ 0 \in 0..3 /\ 1 \in 0..3 /\ 2 \in 0..3 /\ 3 \in 0..3 /\ 0 \in 0..7
  BY SMT DEF Regs, Board, Bit
<1>2. RangeFor(board.xtal) \in 0..3 /\ FrdivFor(board.xtal) \in 0..7
  BY SMT DEF RangeFor, FrdivFor, Board
<1>3a. /\ c2 \in Regs
      /\ c2.clks = mcg.clks /\ c2.frdiv = mcg.frdiv /\ c2.irefs = mcg.irefs /\ c2.range = RangeFor(board.xtal) /\ c2.erefs0 = board.erefs /\ c2.lp = mcg.lp
      /\ c2.ircs = mcg.ircs /\ c2.prdiv0 = mcg.prdiv0 /\ c2.plls = mcg.plls /\ c2.cme0 = mcg.cme0 /\ c2.vdiv0 = mcg.vdiv0 /\ c2.oscsel = mcg.oscsel /\ c2.cme1 = mcg.cme1
  BY <1>1, <1>2, Zenon DEF Regs, ExtC1, ExtC2
<1>3b. /\ c1 \in Regs
      /\ c1.clks = 0 /\ c1.frdiv = FrdivFor(board.xtal) /\ c1.irefs = 0 /\ c1.range = c2.range /\ c1.erefs0 = c2.erefs0 /\ c1.lp = c2.lp
      /\ c1.ircs = c2.ircs /\ c1.prdiv0 = c2.prdiv0 /\ c1.plls = c2.plls /\ c1.cme0 = c2.cme0 /\ c1.vdiv0 = c2.vdiv0 /\ c1.oscsel = c2.oscsel /\ c1.cme1 = c2.cme1
  BY <1>1, <1>2, <1>3a, Zenon DEF Regs, ExtC1, ExtC2
<1>3c. /\ cm \in Regs
      /\ cm.clks = c1.clks /\ cm.frdiv = c1.frdiv /\ cm.irefs = c1.irefs /\ cm.range = c1.range /\ cm.erefs0 = c1.erefs0 /\ cm.lp = c1.lp
      /\ cm.ircs = c1.ircs /\ cm.prdiv0 = c1.prdiv0 /\ cm.plls = c1.plls /\ cm.cme0 = 1 /\ cm.vdiv0 = c1.vdiv0 /\ cm.oscsel = c1.oscsel /\ cm.cme1 = c1.cme1
  BY <1>1, <1>2, <1>3b, Zenon DEF Regs, ExtC1, ExtC2
<1>. HIDE DEF c2, c1, cm
<1>4. s \in Seq(Steps)
  <2>1. Write(c2) \in Steps
    BY <1>3a, <1>3b, <1>3c, WriteType, Zenon
  <2>2. Write(c1) \in Steps
    BY <1>3a, <1>3b, <1>3c, WriteType, Zenon
  <2>3. PollExt \in Seq(Steps)
    BY <1>1, StepLists, Zenon
  <2>4. Write(cm) \in Steps
    BY <1>3a, <1>3b, <1>3c, WriteType, Zenon
  <2>. QED
    BY <2>1, <2>2, <2>3, <2>4, SMT
<1>5. ASSUME Good(mcg), InMode("FEI", mcg), board.xtal <= FastestClock PROVE Reaches(s, "FEE", cm)
  <2>1. mcg.clks = 0 /\ mcg.irefs = 1 /\ mcg.plls = 0 /\ mcg.lp = 0 /\ mcg.oscsel = 0 /\ mcg.cme0 = 0 /\ mcg.cme1 = 0
    BY <1>1, <1>5, SMT DEF Good, InMode, Regs, Bit
  <2>2. SettlesTo(mcg, 0, 1, 0, 0, 0, k) /\ o \in Bit
    BY <1>1, <2>1, SMT DEF SettlesTo, ClkTo, LockTo, OscTo, Regs, Bit
  <2>3. WriteFits(mcg, c2, 0, 1, 0, 0, 0, k, 0, 0)
    BY <1>1, <1>2, <1>3a, <1>3b, <1>3c, <2>1, <1>5, SMT DEF WriteFits, UsesExternal, UsesInternal, ClkTo, LockTo, OscTo, Regs, Bit
  <2>4. WriteFits(c2, c1, 0, 1, 0, 0, 0, k, 0, 0)
    BY <1>1, <1>2, <1>3a, <1>3b, <1>3c, <2>1, <1>5, SMT DEF WriteFits, UsesExternal, UsesInternal, ClkTo, LockTo, OscTo, Regs, Bit
  <2>5. AsksExt(c1, e)
    BY <1>1, <1>2, <1>3a, <1>3b, <1>3c, <2>1, <1>5, SMT DEF AsksExt, OscTo, Regs, Bit
  <2>6. WriteFits(c1, cm, 0, 0, 0, 0, e, k, 0, e)
    BY <1>1, <1>2, <1>3a, <1>3b, <1>3c, <2>1, <1>5, SMT DEF WriteFits, UsesExternal, UsesInternal, ClkTo, LockTo, OscTo, Regs, Bit
  <2>7. InMode("FEE", cm) /\ "FEE" \in Modes
    BY <1>1, <1>2, <1>3a, <1>3b, <1>3c, <2>1, <1>5, SMT DEF InMode, Modes, Regs, Bit
  <2>8. /\ cm.cme0 = 1 => cm.irefs = 0 /\ cm.oscsel = 0
        /\ cm.cme1 = 1 => cm.oscsel = 1
        /\ cm.oscsel = 1 => InMode("FEE", cm) /\ cm.frdiv = 0
        /\ cm.oscsel = 0 /\ cm.irefs = 0 =>
             /\ cm.range = RangeFor(board.xtal) /\ cm.frdiv = FrdivFor(board.xtal)
             /\ board.xtal <= FastestClock
        /\ cm.plls = 1 => board.xtal \div (cm.prdiv0 + 1) >= FirstFrequency
    BY <1>1, <1>2, <1>3a, <1>3b, <1>3c, <2>1, <1>5, <1>5, <2>7, SMT DEF InMode, Good, Regs, Bit
  <2>9. Good(cm)
    BY <1>3c, <2>7, <2>8, Zenon DEF Good
  <2>10. SettlesTo(cm, 0, 0, 0, 0, e, k)
    BY <1>1, <1>2, <1>3a, <1>3b, <1>3c, <2>1, <1>5, <2>2, SMT DEF SettlesTo, ClkTo, LockTo, OscTo, Regs, Bit
  <2>. HIDE DEF k, o, e
  <2>11. At(mcg, 0, 1, 0, 0, 0, k) /\ SettledBits(mcg) = Bits(0, 1, 0, 0, 0, k)
    BY <1>5, <2>2, SettledAt, Zenon
  <2>12. At(c2, 0, 1, 0, 0, 0, k)
    BY <2>11, <2>3, WriteBits, Zenon
  <2>13. Leads(<<Write(c2)>>, mcg, Bits(0, 1, 0, 0, 0, k), c2, Bits(0, 1, 0, 0, 0, k))
    BY <2>11, <2>3, WriteBits, Zenon
  <2>14. At(c1, 0, 1, 0, 0, 0, k)
    BY <2>12, <2>4, WriteBits, Zenon
  <2>15. Leads(<<Write(c1)>>, c2, Bits(0, 1, 0, 0, 0, k), c1, Bits(0, 1, 0, 0, 0, k))
    BY <2>12, <2>4, WriteBits, Zenon
  <2>16. At(c1, 0, 0, 0, 0, e, k)
    BY <2>14, <2>5, <1>1, PollExtLeads, Zenon
  <2>17. Leads(PollExt, c1, Bits(0, 1, 0, 0, 0, k), c1, Bits(0, 0, 0, 0, e, k))
    BY <2>14, <2>5, <1>1, PollExtLeads, Zenon
  <2>18. At(cm, 0, 0, 0, 0, e, k)
    BY <2>16, <2>6, WriteBits, Zenon
  <2>19. Leads(<<Write(cm)>>, c1, Bits(0, 0, 0, 0, e, k), cm, Bits(0, 0, 0, 0, e, k))
    BY <2>16, <2>6, WriteBits, Zenon
  <2>20. Leads(<<>>, c1, Bits(0, 0, 0, 0, e, k), c1, Bits(0, 0, 0, 0, e, k))
    BY <2>16, LeadsNoneAt, Zenon
  <2>21. Leads(<<Write(c1)>> \o PollExt, c2, Bits(0, 1, 0, 0, 0, k), c1, Bits(0, 0, 0, 0, e, k))
    BY <2>15, <2>17, LeadsBoth, Zenon
  <2>22. Leads(<<Write(c1)>> \o PollExt \o <<>>, c2, Bits(0, 1, 0, 0, 0, k), c1, Bits(0, 0, 0, 0, e, k))
    BY <2>21, <2>20, LeadsBoth, Zenon
  <2>23. Leads(<<Write(c1)>> \o PollExt \o <<>> \o <<Write(cm)>>, c2, Bits(0, 1, 0, 0, 0, k), cm, Bits(0, 0, 0, 0, e, k))
    BY <2>22, <2>19, LeadsBoth, Zenon
  <2>24. Leads(<<Write(c2)>> \o (<<Write(c1)>> \o PollExt \o <<>> \o <<Write(cm)>>), mcg, Bits(0, 1, 0, 0, 0, k), cm, Bits(0, 0, 0, 0, e, k))
    BY <2>13, <2>23, LeadsBoth, Zenon
  <2>25. SettledBits(cm) = Bits(0, 0, 0, 0, e, k)
    BY <2>9, <2>10, SettledAt, Zenon
  <2>. QED
    BY <2>9, <2>7, <2>11, <2>24, <2>25, Zenon DEF Reaches
<1>. HIDE DEF k, o, e
<1>. QED
  BY <1>4, <1>5, Zenon DEF c2, c1, cm

\* fei_fee when the FLL frequency is out of range.
LEMMA FeiFeeRefused ==
  ASSUME board \in Board, mcg \in Regs
  PROVE  LET c2 == ExtC2
             s == <<Write(c2)>> \o <<>>
         IN /\ s \in Seq(Steps)
            /\ Good(mcg) /\ InMode("FEI", mcg) => Reaches(s, "FEI", c2)
<1>. DEFINE c2 == ExtC2
            s == <<Write(c2)>> \o <<>>
            k == mcg.ircs  o == OscTo(mcg)
<1>1. k \in Bit /\ board.erefs \in Bit /\ 0 \in Bit /\ 1 \in Bit /\ 0 \in 0..3 /\ 1 \in 0..3 /\ 2 \in 0..3 /\ 3 \in 0..3 /\ 0 \in 0..7
  BY SMT DEF Regs, Board, Bit
<1>2. RangeFor(board.xtal) \in 0..3 /\ FrdivFor(board.xtal) \in 0..7
  BY SMT DEF RangeFor, FrdivFor, Board
<1>3a. /\ c2 \in Regs
      /\ c2.clks = mcg.clks /\ c2.frdiv = mcg.frdiv /\ c2.irefs = mcg.irefs /\ c2.range = RangeFor(board.xtal) /\ c2.erefs0 = board.erefs /\ c2.lp = mcg.lp
      /\ c2.ircs = mcg.ircs /\ c2.prdiv0 = mcg.prdiv0 /\ c2.plls = mcg.plls /\ c2.cme0 = mcg.cme0 /\ c2.vdiv0 = mcg.vdiv0 /\ c2.oscsel = mcg.oscsel /\ c2.cme1 = mcg.cme1
  BY <1>1, <1>2, Zenon DEF Regs, ExtC1, ExtC2
<1>. HIDE DEF c2
<1>4. s \in Seq(Steps)
  <2>1. Write(c2) \in Steps
    BY <1>3a, WriteType, Zenon
  <2>. QED
    BY <2>1, SMT
<1>5. ASSUME Good(mcg), InMode("FEI", mcg) PROVE Reaches(s, "FEI", c2)
  <2>1. mcg.clks = 0 /\ mcg.irefs = 1 /\ mcg.plls = 0 /\ mcg.lp = 0 /\ mcg.oscsel = 0 /\ mcg.cme0 = 0 /\ mcg.cme1 = 0
    BY <1>1, <1>5, SMT DEF Good, InMode, Regs, Bit
  <2>2. SettlesTo(mcg, 0, 1, 0, 0, 0, k) /\ o \in Bit
    BY <1>1, <2>1, SMT DEF SettlesTo, ClkTo, LockTo, OscTo, Regs, Bit
  <2>3. WriteFits(mcg, c2, 0, 1, 0, 0, 0, k, 0, 0)
    BY <1>1, <1>2, <1>3a, <2>1, SMT DEF WriteFits, UsesExternal, UsesInternal, ClkTo, LockTo, OscTo, Regs, Bit
  <2>4. InMode("FEI", c2) /\ "FEI" \in Modes
    BY <1>1, <1>2, <1>3a, <2>1, SMT DEF InMode, Modes, Regs, Bit
  <2>5. /\ c2.cme0 = 1 => c2.irefs = 0 /\ c2.oscsel = 0
        /\ c2.cme1 = 1 => c2.oscsel = 1
        /\ c2.oscsel = 1 => InMode("FEE", c2) /\ c2.frdiv = 0
        /\ c2.oscsel = 0 /\ c2.irefs = 0 =>
             /\ c2.range = RangeFor(board.xtal) /\ c2.frdiv = FrdivFor(board.xtal)
             /\ board.xtal <= FastestClock
        /\ c2.plls = 1 => board.xtal \div (c2.prdiv0 + 1) >= FirstFrequency
    BY <1>1, <1>2, <1>3a, <2>1, <1>5, <2>4, SMT DEF InMode, Good, Regs, Bit
  <2>6. Good(c2)
    BY <1>3a, <2>4, <2>5, Zenon DEF Good
  <2>7. SettlesTo(c2, 0, 1, 0, 0, 0, k)
    BY <1>1, <1>2, <1>3a, <2>1, <2>2, SMT DEF SettlesTo, ClkTo, LockTo, OscTo, Regs, Bit
  <2>. HIDE DEF k, o
  <2>8. At(mcg, 0, 1, 0, 0, 0, k) /\ SettledBits(mcg) = Bits(0, 1, 0, 0, 0, k)
    BY <1>5, <2>2, SettledAt, Zenon
  <2>9. At(c2, 0, 1, 0, 0, 0, k)
    BY <2>8, <2>3, WriteBits, Zenon
  <2>10. Leads(<<Write(c2)>>, mcg, Bits(0, 1, 0, 0, 0, k), c2, Bits(0, 1, 0, 0, 0, k))
    BY <2>8, <2>3, WriteBits, Zenon
  <2>11. Leads(<<>>, c2, Bits(0, 1, 0, 0, 0, k), c2, Bits(0, 1, 0, 0, 0, k))
    BY <2>9, LeadsNoneAt, Zenon
  <2>12. Leads(<<Write(c2)>> \o <<>>, mcg, Bits(0, 1, 0, 0, 0, k), c2, Bits(0, 1, 0, 0, 0, k))
    BY <2>10, <2>11, LeadsBoth, Zenon
  <2>13. SettledBits(c2) = Bits(0, 1, 0, 0, 0, k)
    BY <2>6, <2>7, SettledAt, Zenon
  <2>. QED
    BY <2>6, <2>4, <2>8, <2>12, <2>13, Zenon DEF Reaches
<1>. HIDE DEF k, o
<1>. QED
  BY <1>4, <1>5, Zenon DEF c2

\* fbi_fee.
LEMMA FbiFeeCourse ==
  ASSUME board \in Board, mcg \in Regs
  PROVE  LET c2 == ExtC2
             c1 == ExtC1(0)
             cm == [ExtC1(0) EXCEPT !.cme0 = 1]
             s == <<Write(c2)>> \o (<<Write(c1)>> \o PollExt \o <<Poll("clkst", 0, \h18)>> \o <<Write(cm)>>)
         IN /\ s \in Seq(Steps)
            /\ Good(mcg) /\ InMode("FBI", mcg) /\ board.xtal <= FastestClock => Reaches(s, "FEE", cm)
<1>. DEFINE c2 == ExtC2
            c1 == ExtC1(0)
            cm == [ExtC1(0) EXCEPT !.cme0 = 1]
            h18 == \h18
            s == <<Write(c2)>> \o (<<Write(c1)>> \o PollExt \o <<Poll("clkst", 0, h18)>> \o <<Write(cm)>>)
            k == mcg.ircs  o == OscTo(mcg)  e == board.erefs
<1>1. k \in Bit /\ board.erefs \in Bit /\ 0 \in Bit /\ 1 \in Bit /\ 0 \in 0..3 /\ 1 \in 0..3 /\ 2 \in 0..3 /\ 3 \in 0..3 /\ 0 \in 0..7
  BY SMT DEF Regs, Board, Bit
<1>0. h18 \in ErrorCode
  BY Codes, Zenon
<1>. HIDE DEF h18
<1>2. RangeFor(board.xtal) \in 0..3 /\ FrdivFor(board.xtal) \in 0..7
  BY SMT DEF RangeFor, FrdivFor, Board
<1>3a. /\ c2 \in Regs
      /\ c2.clks = mcg.clks /\ c2.frdiv = mcg.frdiv /\ c2.irefs = mcg.irefs /\ c2.range = RangeFor(board.xtal) /\ c2.erefs0 = board.erefs /\ c2.lp = mcg.lp
      /\ c2.ircs = mcg.ircs /\ c2.prdiv0 = mcg.prdiv0 /\ c2.plls = mcg.plls /\ c2.cme0 = mcg.cme0 /\ c2.vdiv0 = mcg.vdiv0 /\ c2.oscsel = mcg.oscsel /\ c2.cme1 = mcg.cme1
  BY <1>1, <1>2, Zenon DEF Regs, ExtC1, ExtC2
<1>3b. /\ c1 \in Regs
      /\ c1.clks = 0 /\ c1.frdiv = FrdivFor(board.xtal) /\ c1.irefs = 0 /\ c1.range = c2.range /\ c1.erefs0 = c2.erefs0 /\ c1.lp = c2.lp
      /\ c1.ircs = c2.ircs /\ c1.prdiv0 = c2.prdiv0 /\ c1.plls = c2.plls /\ c1.cme0 = c2.cme0 /\ c1.vdiv0 = c2.vdiv0 /\ c1.oscsel = c2.oscsel /\ c1.cme1 = c2.cme1
  BY <1>1, <1>2, <1>3a, Zenon DEF Regs, ExtC1, ExtC2
<1>3c. /\ cm \in Regs
      /\ cm.clks = c1.clks /\ cm.frdiv = c1.frdiv /\ cm.irefs = c1.irefs /\ cm.range = c1.range /\ cm.erefs0 = c1.erefs0 /\ cm.lp = c1.lp
      /\ cm.ircs = c1.ircs /\ cm.prdiv0 = c1.prdiv0 /\ cm.plls = c1.plls /\ cm.cme0 = 1 /\ cm.vdiv0 = c1.vdiv0 /\ cm.oscsel = c1.oscsel /\ cm.cme1 = c1.cme1
  BY <1>1, <1>2, <1>3b, Zenon DEF Regs, ExtC1, ExtC2
<1>. HIDE DEF c2, c1, cm
<1>4. s \in Seq(Steps)
  <2>1. Write(c2) \in Steps
    BY <1>3a, <1>3b, <1>3c, WriteType, Zenon
  <2>2. Write(c1) \in Steps
    BY <1>3a, <1>3b, <1>3c, WriteType, Zenon
  <2>3. PollExt \in Seq(Steps)
    BY <1>1, StepLists, Zenon
  <2>4. Poll("clkst", 0, h18) \in Steps
    BY <1>0, <1>1, StatusBitNames, PollType, Zenon
  <2>5. Write(cm) \in Steps
    BY <1>3a, <1>3b, <1>3c, WriteType, Zenon
  <2>. QED
    BY <2>1, <2>2, <2>3, <2>4, <2>5, SMT
<1>5. ASSUME Good(mcg), InMode("FBI", mcg), board.xtal <= FastestClock PROVE Reaches(s, "FEE", cm)
  <2>1. mcg.clks = 1 /\ mcg.irefs = 1 /\ mcg.plls = 0 /\ mcg.lp = 0 /\ mcg.oscsel = 0 /\ mcg.cme0 = 0 /\ mcg.cme1 = 0
    BY <1>1, <1>5, SMT DEF Good, InMode, Regs, Bit
  <2>2. SettlesTo(mcg, 1, 1, 0, 0, 0, k) /\ o \in Bit
    BY <1>1, <2>1, SMT DEF SettlesTo, ClkTo, LockTo, OscTo, Regs, Bit
  <2>3. WriteFits(mcg, c2, 1, 1, 0, 0, 0, k, 0, 0)
    BY <1>1, <1>2, <1>3a, <1>3b, <1>3c, <2>1, <1>5, SMT DEF WriteFits, UsesExternal, UsesInternal, ClkTo, LockTo, OscTo, Regs, Bit
  <2>4. WriteFits(c2, c1, 1, 1, 0, 0, 0, k, 0, 0)
    BY <1>1, <1>2, <1>3a, <1>3b, <1>3c, <2>1, <1>5, SMT DEF WriteFits, UsesExternal, UsesInternal, ClkTo, LockTo, OscTo, Regs, Bit
  <2>5. AsksExt(c1, e)
    BY <1>1, <1>2, <1>3a, <1>3b, <1>3c, <2>1, <1>5, SMT DEF AsksExt, OscTo, Regs, Bit
  <2>6. Asks("clkst", 0, h18, c1)
    BY <1>0, <1>1, <1>2, <1>3a, <1>3b, <1>3c, <2>1, <1>5, SMT DEF Asks, ClkTo, LockTo, OscTo, Regs, Bit
  <2>7. WriteFits(c1, cm, 0, 0, 0, 0, e, k, 0, e)
    BY <1>1, <1>2, <1>3a, <1>3b, <1>3c, <2>1, <1>5, SMT DEF WriteFits, UsesExternal, UsesInternal, ClkTo, LockTo, OscTo, Regs, Bit
  <2>8. InMode("FEE", cm) /\ "FEE" \in Modes
    BY <1>1, <1>2, <1>3a, <1>3b, <1>3c, <2>1, <1>5, SMT DEF InMode, Modes, Regs, Bit
  <2>9. /\ cm.cme0 = 1 => cm.irefs = 0 /\ cm.oscsel = 0
        /\ cm.cme1 = 1 => cm.oscsel = 1
        /\ cm.oscsel = 1 => InMode("FEE", cm) /\ cm.frdiv = 0
        /\ cm.oscsel = 0 /\ cm.irefs = 0 =>
             /\ cm.range = RangeFor(board.xtal) /\ cm.frdiv = FrdivFor(board.xtal)
             /\ board.xtal <= FastestClock
        /\ cm.plls = 1 => board.xtal \div (cm.prdiv0 + 1) >= FirstFrequency
    BY <1>1, <1>2, <1>3a, <1>3b, <1>3c, <2>1, <1>5, <1>5, <2>8, SMT DEF InMode, Good, Regs, Bit
  <2>10. Good(cm)
    BY <1>3c, <2>8, <2>9, Zenon DEF Good
  <2>11. SettlesTo(cm, 0, 0, 0, 0, e, k)
    BY <1>1, <1>2, <1>3a, <1>3b, <1>3c, <2>1, <1>5, <2>2, SMT DEF SettlesTo, ClkTo, LockTo, OscTo, Regs, Bit
  <2>. HIDE DEF k, o, e
  <2>12. At(mcg, 1, 1, 0, 0, 0, k) /\ SettledBits(mcg) = Bits(1, 1, 0, 0, 0, k)
    BY <1>5, <2>2, SettledAt, Zenon
  <2>13. At(c2, 1, 1, 0, 0, 0, k)
    BY <2>12, <2>3, WriteBits, Zenon
  <2>14. Leads(<<Write(c2)>>, mcg, Bits(1, 1, 0, 0, 0, k), c2, Bits(1, 1, 0, 0, 0, k))
    BY <2>12, <2>3, WriteBits, Zenon
  <2>15. At(c1, 1, 1, 0, 0, 0, k)
    BY <2>13, <2>4, WriteBits, Zenon
  <2>16. Leads(<<Write(c1)>>, c2, Bits(1, 1, 0, 0, 0, k), c1, Bits(1, 1, 0, 0, 0, k))
    BY <2>13, <2>4, WriteBits, Zenon
  <2>17. At(c1, 1, 0, 0, 0, e, k)
    BY <2>15, <2>5, <1>1, PollExtLeads, Zenon
  <2>18. Leads(PollExt, c1, Bits(1, 1, 0, 0, 0, k), c1, Bits(1, 0, 0, 0, e, k))
    BY <2>15, <2>5, <1>1, PollExtLeads, Zenon
  <2>19. At(c1, 0, 0, 0, 0, e, k)
    BY <2>17, <2>6, PollClkst, Zenon
  <2>20. Leads(<<Poll("clkst", 0, h18)>>, c1, Bits(1, 0, 0, 0, e, k), c1, Bits(0, 0, 0, 0, e, k))
    BY <2>17, <2>6, PollClkst, Zenon
  <2>21. At(cm, 0, 0, 0, 0, e, k)
    BY <2>19, <2>7, WriteBits, Zenon
  <2>22. Leads(<<Write(cm)>>, c1, Bits(0, 0, 0, 0, e, k), cm, Bits(0, 0, 0, 0, e, k))
    BY <2>19, <2>7, WriteBits, Zenon
  <2>23. Leads(<<Write(c1)>> \o PollExt, c2, Bits(1, 1, 0, 0, 0, k), c1, Bits(1, 0, 0, 0, e, k))
    BY <2>16, <2>18, LeadsBoth, Zenon
  <2>24. Leads(<<Write(c1)>> \o PollExt \o <<Poll("clkst", 0, h18)>>, c2, Bits(1, 1, 0, 0, 0, k), c1, Bits(0, 0, 0, 0, e, k))
    BY <2>23, <2>20, LeadsBoth, Zenon
  <2>25. Leads(<<Write(c1)>> \o PollExt \o <<Poll("clkst", 0, h18)>> \o <<Write(cm)>>, c2, Bits(1, 1, 0, 0, 0, k), cm, Bits(0, 0, 0, 0, e, k))
    BY <2>24, <2>22, LeadsBoth, Zenon
  <2>26. Leads(<<Write(c2)>> \o (<<Write(c1)>> \o PollExt \o <<Poll("clkst", 0, h18)>> \o <<Write(cm)>>), mcg, Bits(1, 1, 0, 0, 0, k), cm, Bits(0, 0, 0, 0, e, k))
    BY <2>14, <2>25, LeadsBoth, Zenon
  <2>27. SettledBits(cm) = Bits(0, 0, 0, 0, e, k)
    BY <2>10, <2>11, SettledAt, Zenon
  <2>. QED
    BY <2>10, <2>8, <2>12, <2>26, <2>27, Zenon DEF Reaches
<1>. HIDE DEF k, o, e
<1>. QED
  BY <1>4, <1>5, Zenon DEF c2, c1, cm, h18

\* fbi_fee when the FLL frequency is out of range.
LEMMA FbiFeeRefused ==
  ASSUME board \in Board, mcg \in Regs
  PROVE  LET c2 == ExtC2
             s == <<Write(c2)>> \o <<>>
         IN /\ s \in Seq(Steps)
            /\ Good(mcg) /\ InMode("FBI", mcg) => Reaches(s, "FBI", c2)
<1>. DEFINE c2 == ExtC2
            s == <<Write(c2)>> \o <<>>
            k == mcg.ircs  o == OscTo(mcg)
<1>1. k \in Bit /\ board.erefs \in Bit /\ 0 \in Bit /\ 1 \in Bit /\ 0 \in 0..3 /\ 1 \in 0..3 /\ 2 \in 0..3 /\ 3 \in 0..3 /\ 0 \in 0..7
  BY SMT DEF Regs, Board, Bit
<1>2. RangeFor(board.xtal) \in 0..3 /\ FrdivFor(board.xtal) \in 0..7
  BY SMT DEF RangeFor, FrdivFor, Board
<1>3a. /\ c2 \in Regs
      /\ c2.clks = mcg.clks /\ c2.frdiv = mcg.frdiv /\ c2.irefs = mcg.irefs /\ c2.range = RangeFor(board.xtal) /\ c2.erefs0 = board.erefs /\ c2.lp = mcg.lp
      /\ c2.ircs = mcg.ircs /\ c2.prdiv0 = mcg.prdiv0 /\ c2.plls = mcg.plls /\ c2.cme0 = mcg.cme0 /\ c2.vdiv0 = mcg.vdiv0 /\ c2.oscsel = mcg.oscsel /\ c2.cme1 = mcg.cme1
  BY <1>1, <1>2, Zenon DEF Regs, ExtC1, ExtC2
<1>. HIDE DEF c2
<1>4. s \in Seq(Steps)
  <2>1. Write(c2) \in Steps
    BY <1>3a, WriteType, Zenon
  <2>. QED
    BY <2>1, SMT
<1>5. ASSUME Good(mcg), InMode("FBI", mcg) PROVE Reaches(s, "FBI", c2)
  <2>1. mcg.clks = 1 /\ mcg.irefs = 1 /\ mcg.plls = 0 /\ mcg.lp = 0 /\ mcg.oscsel = 0 /\ mcg.cme0 = 0 /\ mcg.cme1 = 0
    BY <1>1, <1>5, SMT DEF Good, InMode, Regs, Bit
  <2>2. SettlesTo(mcg, 1, 1, 0, 0, 0, k) /\ o \in Bit
    BY <1>1, <2>1, SMT DEF SettlesTo, ClkTo, LockTo, OscTo, Regs, Bit
  <2>3. WriteFits(mcg, c2, 1, 1, 0, 0, 0, k, 0, 0)
    BY <1>1, <1>2, <1>3a, <2>1, SMT DEF WriteFits, UsesExternal, UsesInternal, ClkTo, LockTo, OscTo, Regs, Bit
  <2>4. InMode("FBI", c2) /\ "FBI" \in Modes
    BY <1>1, <1>2, <1>3a, <2>1, SMT DEF InMode, Modes, Regs, Bit
  <2>5. /\ c2.cme0 = 1 => c2.irefs = 0 /\ c2.oscsel = 0
        /\ c2.cme1 = 1 => c2.oscsel = 1
        /\ c2.oscsel = 1 => InMode("FEE", c2) /\ c2.frdiv = 0
        /\ c2.oscsel = 0 /\ c2.irefs = 0 =>
             /\ c2.range = RangeFor(board.xtal) /\ c2.frdiv = FrdivFor(board.xtal)
             /\ board.xtal <= FastestClock
        /\ c2.plls = 1 => board.xtal \div (c2.prdiv0 + 1) >= FirstFrequency
    BY <1>1, <1>2, <1>3a, <2>1, <1>5, <2>4, SMT DEF InMode, Good, Regs, Bit
  <2>6. Good(c2)
    BY <1>3a, <2>4, <2>5, Zenon DEF Good
  <2>7. SettlesTo(c2, 1, 1, 0, 0, 0, k)
    BY <1>1, <1>2, <1>3a, <2>1, <2>2, SMT DEF SettlesTo, ClkTo, LockTo, OscTo, Regs, Bit
  <2>. HIDE DEF k, o
  <2>8. At(mcg, 1, 1, 0, 0, 0, k) /\ SettledBits(mcg) = Bits(1, 1, 0, 0, 0, k)
    BY <1>5, <2>2, SettledAt, Zenon
  <2>9. At(c2, 1, 1, 0, 0, 0, k)
    BY <2>8, <2>3, WriteBits, Zenon
  <2>10. Leads(<<Write(c2)>>, mcg, Bits(1, 1, 0, 0, 0, k), c2, Bits(1, 1, 0, 0, 0, k))
    BY <2>8, <2>3, WriteBits, Zenon
  <2>11. Leads(<<>>, c2, Bits(1, 1, 0, 0, 0, k), c2, Bits(1, 1, 0, 0, 0, k))
    BY <2>9, LeadsNoneAt, Zenon
  <2>12. Leads(<<Write(c2)>> \o <<>>, mcg, Bits(1, 1, 0, 0, 0, k), c2, Bits(1, 1, 0, 0, 0, k))
    BY <2>10, <2>11, LeadsBoth, Zenon
  <2>13. SettledBits(c2) = Bits(1, 1, 0, 0, 0, k)
    BY <2>6, <2>7, SettledAt, Zenon
  <2>. QED
    BY <2>6, <2>4, <2>8, <2>12, <2>13, Zenon DEF Reaches
<1>. HIDE DEF k, o
<1>. QED
  BY <1>4, <1>5, Zenon DEF c2

\* fee_fei.
LEMMA FeeFeiCourse ==
  ASSUME board \in Board, mcg \in Regs
  PROVE  LET c6 == [mcg EXCEPT !.cme0 = 0]
             c1 == [c6 EXCEPT !.irefs = 1]
             s == <<Write(c6), Write(c1), Poll("irefst", 1, \h12)>>
         IN /\ s \in Seq(Steps)
            /\ Good(mcg) /\ InMode("FEE", mcg) /\ mcg.oscsel = 0 => Reaches(s, "FEI", c1)
<1>. DEFINE c6 == [mcg EXCEPT !.cme0 = 0]
            c1 == [c6 EXCEPT !.irefs = 1]
            h12 == \h12
            s == <<Write(c6), Write(c1), Poll("irefst", 1, h12)>>
            k == mcg.ircs  o == OscTo(mcg)
<1>1. k \in Bit /\ board.erefs \in Bit /\ 0 \in Bit /\ 1 \in Bit /\ 0 \in 0..3 /\ 1 \in 0..3 /\ 2 \in 0..3 /\ 3 \in 0..3 /\ 0 \in 0..7
  BY SMT DEF Regs, Board, Bit
<1>0. h12 \in ErrorCode
  BY Codes, Zenon
<1>. HIDE DEF h12
<1>3a. /\ c6 \in Regs
      /\ c6.clks = mcg.clks /\ c6.frdiv = mcg.frdiv /\ c6.irefs = mcg.irefs /\ c6.range = mcg.range /\ c6.erefs0 = mcg.erefs0 /\ c6.lp = mcg.lp
      /\ c6.ircs = mcg.ircs /\ c6.prdiv0 = mcg.prdiv0 /\ c6.plls = mcg.plls /\ c6.cme0 = 0 /\ c6.vdiv0 = mcg.vdiv0 /\ c6.oscsel = mcg.oscsel /\ c6.cme1 = mcg.cme1
  BY <1>1, Zenon DEF Regs
<1>3b. /\ c1 \in Regs
      /\ c1.clks = c6.clks /\ c1.frdiv = c6.frdiv /\ c1.irefs = 1 /\ c1.range = c6.range /\ c1.erefs0 = c6.erefs0 /\ c1.lp = c6.lp
      /\ c1.ircs = c6.ircs /\ c1.prdiv0 = c6.prdiv0 /\ c1.plls = c6.plls /\ c1.cme0 = c6.cme0 /\ c1.vdiv0 = c6.vdiv0 /\ c1.oscsel = c6.oscsel /\ c1.cme1 = c6.cme1
  BY <1>1, <1>3a, Zenon DEF Regs
<1>. HIDE DEF c6, c1
<1>4. s \in Seq(Steps)
  <2>1. Write(c6) \in Steps
    BY <1>3a, <1>3b, WriteType, Zenon
  <2>2. Write(c1) \in Steps
    BY <1>3a, <1>3b, WriteType, Zenon
  <2>3. Poll("irefst", 1, h12) \in Steps
    BY <1>0, <1>1, StatusBitNames, PollType, Zenon
  <2>. QED
    BY <2>1, <2>2, <2>3, SMT
<1>5. ASSUME Good(mcg), InMode("FEE", mcg), mcg.oscsel = 0 PROVE Reaches(s, "FEI", c1)
  <2>1. mcg.clks = 0 /\ mcg.irefs = 0 /\ mcg.plls = 0 /\ mcg.lp = 0 /\ mcg.oscsel = 0 /\ mcg.cme1 = 0
    BY <1>1, <1>5, SMT DEF Good, InMode, Regs, Bit
  <2>2. SettlesTo(mcg, 0, 0, 0, 0, o, k) /\ o \in Bit
    BY <1>1, <2>1, SMT DEF SettlesTo, ClkTo, LockTo, OscTo, Regs, Bit
  <2>3. WriteFits(mcg, c6, 0, 0, 0, 0, o, k, 0, o)
    BY <1>1, <1>3a, <1>3b, <2>1, SMT DEF WriteFits, UsesExternal, UsesInternal, ClkTo, LockTo, OscTo, Regs, Bit
  <2>4. WriteFits(c6, c1, 0, 0, 0, 0, o, k, 0, 0)
    BY <1>1, <1>3a, <1>3b, <2>1, SMT DEF WriteFits, UsesExternal, UsesInternal, ClkTo, LockTo, OscTo, Regs, Bit
  <2>5. Asks("irefst", 1, h12, c1)
    BY <1>0, <1>1, <1>3a, <1>3b, <2>1, SMT DEF Asks, ClkTo, LockTo, OscTo, Regs, Bit
  <2>6. InMode("FEI", c1) /\ "FEI" \in Modes
    BY <1>1, <1>3a, <1>3b, <2>1, SMT DEF InMode, Modes, Regs, Bit
  <2>7. /\ c1.cme0 = 1 => c1.irefs = 0 /\ c1.oscsel = 0
        /\ c1.cme1 = 1 => c1.oscsel = 1
        /\ c1.oscsel = 1 => InMode("FEE", c1) /\ c1.frdiv = 0
        /\ c1.oscsel = 0 /\ c1.irefs = 0 =>
             /\ c1.range = RangeFor(board.xtal) /\ c1.frdiv = FrdivFor(board.xtal)
             /\ board.xtal <= FastestClock
        /\ c1.plls = 1 => board.xtal \div (c1.prdiv0 + 1) >= FirstFrequency
    BY <1>1, <1>3a, <1>3b, <2>1, <1>5, <2>6, SMT DEF InMode, Good, Regs, Bit
  <2>8. Good(c1)
    BY <1>3b, <2>6, <2>7, Zenon DEF Good
  <2>9. SettlesTo(c1, 0, 1, 0, 0, 0, k)
    BY <1>1, <1>3a, <1>3b, <2>1, <2>2, SMT DEF SettlesTo, ClkTo, LockTo, OscTo, Regs, Bit
  <2>. HIDE DEF k, o
  <2>10. At(mcg, 0, 0, 0, 0, o, k) /\ SettledBits(mcg) = Bits(0, 0, 0, 0, o, k)
    BY <1>5, <2>2, SettledAt, Zenon
  <2>11. At(c6, 0, 0, 0, 0, o, k)
    BY <2>10, <2>3, WriteBits, Zenon
  <2>12. Leads(<<Write(c6)>>, mcg, Bits(0, 0, 0, 0, o, k), c6, Bits(0, 0, 0, 0, o, k))
    BY <2>10, <2>3, WriteBits, Zenon
  <2>13. At(c1, 0, 0, 0, 0, 0, k)
    BY <2>11, <2>4, WriteBits, Zenon
  <2>14. Leads(<<Write(c1)>>, c6, Bits(0, 0, 0, 0, o, k), c1, Bits(0, 0, 0, 0, 0, k))
    BY <2>11, <2>4, WriteBits, Zenon
  <2>15. At(c1, 0, 1, 0, 0, 0, k)
    BY <2>13, <2>5, PollIrefst, Zenon
  <2>16. Leads(<<Poll("irefst", 1, h12)>>, c1, Bits(0, 0, 0, 0, 0, k), c1, Bits(0, 1, 0, 0, 0, k))
    BY <2>13, <2>5, PollIrefst, Zenon
  <2>17. Leads(<<Write(c6), Write(c1), Poll("irefst", 1, h12)>>, mcg, Bits(0, 0, 0, 0, o, k), c1, Bits(0, 1, 0, 0, 0, k))
    BY <2>12, <2>14, <2>16, Leads3, Zenon
  <2>18. SettledBits(c1) = Bits(0, 1, 0, 0, 0, k)
    BY <2>8, <2>9, SettledAt, Zenon
  <2>. QED
    BY <2>8, <2>6, <2>10, <2>17, <2>18, Zenon DEF Reaches
<1>. HIDE DEF k, o
<1>. QED
  BY <1>4, <1>5, Zenon DEF c6, c1, h12

\* fei_fee_rtc.
LEMMA FeiFeeRtcCourse ==
  ASSUME board \in Board, mcg \in Regs
  PROVE  LET c7 == [mcg EXCEPT !.oscsel = 1]
             c1 == [c7 EXCEPT !.clks = 0, !.frdiv = 0, !.irefs = 0]
             cm == [c1 EXCEPT !.cme1 = 1]
             s == <<Write(c7), Write(c1), Poll("irefst", 0, \h11)>> \o <<Write(cm)>>
         IN /\ s \in Seq(Steps)
            /\ Good(mcg) /\ InMode("FEI", mcg) => Reaches(s, "FEE", cm)
<1>. DEFINE c7 == [mcg EXCEPT !.oscsel = 1]
            c1 == [c7 EXCEPT !.clks = 0, !.frdiv = 0, !.irefs = 0]
            cm == [c1 EXCEPT !.cme1 = 1]
            h11 == \h11
            s == <<Write(c7), Write(c1), Poll("irefst", 0, h11)>> \o <<Write(cm)>>
            k == mcg.ircs  o == OscTo(mcg)
<1>1. k \in Bit /\ board.erefs \in Bit /\ 0 \in Bit /\ 1 \in Bit /\ 0 \in 0..3 /\ 1 \in 0..3 /\ 2 \in 0..3 /\ 3 \in 0..3 /\ 0 \in 0..7
  BY SMT DEF Regs, Board, Bit
<1>0. h11 \in ErrorCode
  BY Codes, Zenon
<1>. HIDE DEF h11
<1>3a. /\ c7 \in Regs
      /\ c7.clks = mcg.clks /\ c7.frdiv = mcg.frdiv /\ c7.irefs = mcg.irefs /\ c7.range = mcg.range /\ c7.erefs0 = mcg.erefs0 /\ c7.lp = mcg.lp
      /\ c7.ircs = mcg.ircs /\ c7.prdiv0 = mcg.prdiv0 /\ c7.plls = mcg.plls /\ c7.cme0 = mcg.cme0 /\ c7.vdiv0 = mcg.vdiv0 /\ c7.oscsel = 1 /\ c7.cme1 = mcg.cme1
  BY <1>1, Zenon DEF Regs
<1>3b. /\ c1 \in Regs
      /\ c1.clks = 0 /\ c1.frdiv = 0 /\ c1.irefs = 0 /\ c1.range = c7.range /\ c1.erefs0 = c7.erefs0 /\ c1.lp = c7.lp
      /\ c1.ircs = c7.ircs /\ c1.prdiv0 = c7.prdiv0 /\ c1.plls = c7.plls /\ c1.cme0 = c7.cme0 /\ c1.vdiv0 = c7.vdiv0 /\ c1.oscsel = c7.oscsel /\ c1.cme1 = c7.cme1
  BY <1>1, <1>3a, Zenon DEF Regs
<1>3c. /\ cm \in Regs
      /\ cm.clks = c1.clks /\ cm.frdiv = c1.frdiv /\ cm.irefs = c1.irefs /\ cm.range = c1.range /\ cm.erefs0 = c1.erefs0 /\ cm.lp = c1.lp
      /\ cm.ircs = c1.ircs /\ cm.prdiv0 = c1.prdiv0 /\ cm.plls = c1.plls /\ cm.cme0 = c1.cme0 /\ cm.vdiv0 = c1.vdiv0 /\ cm.oscsel = c1.oscsel /\ cm.cme1 = 1
  BY <1>1, <1>3b, Zenon DEF Regs
<1>. HIDE DEF c7, c1, cm
<1>4. s \in Seq(Steps)
  <2>1. Write(c7) \in Steps
    BY <1>3a, <1>3b, <1>3c, WriteType, Zenon
  <2>2. Write(c1) \in Steps
    BY <1>3a, <1>3b, <1>3c, WriteType, Zenon
  <2>3. Poll("irefst", 0, h11) \in Steps
    BY <1>0, <1>1, StatusBitNames, PollType, Zenon
  <2>4. Write(cm) \in Steps
    BY <1>3a, <1>3b, <1>3c, WriteType, Zenon
  <2>. QED
    BY <2>1, <2>2, <2>3, <2>4, SMT
<1>5. ASSUME Good(mcg), InMode("FEI", mcg) PROVE Reaches(s, "FEE", cm)
  <2>1. mcg.clks = 0 /\ mcg.irefs = 1 /\ mcg.plls = 0 /\ mcg.lp = 0 /\ mcg.oscsel = 0 /\ mcg.cme0 = 0 /\ mcg.cme1 = 0
    BY <1>1, <1>5, SMT DEF Good, InMode, Regs, Bit
  <2>2. SettlesTo(mcg, 0, 1, 0, 0, 0, k) /\ o \in Bit
    BY <1>1, <2>1, SMT DEF SettlesTo, ClkTo, LockTo, OscTo, Regs, Bit
  <2>3. WriteFits(mcg, c7, 0, 1, 0, 0, 0, k, 0, 0)
    BY <1>1, <1>3a, <1>3b, <1>3c, <2>1, SMT DEF WriteFits, UsesExternal, UsesInternal, ClkTo, LockTo, OscTo, Regs, Bit
  <2>4. WriteFits(c7, c1, 0, 1, 0, 0, 0, k, 0, 0)
    BY <1>1, <1>3a, <1>3b, <1>3c, <2>1, SMT DEF WriteFits, UsesExternal, UsesInternal, ClkTo, LockTo, OscTo, Regs, Bit
  <2>5. Asks("irefst", 0, h11, c1)
    BY <1>0, <1>1, <1>3a, <1>3b, <1>3c, <2>1, SMT DEF Asks, ClkTo, LockTo, OscTo, Regs, Bit
  <2>6. WriteFits(c1, cm, 0, 0, 0, 0, 0, k, 0, 0)
    BY <1>1, <1>3a, <1>3b, <1>3c, <2>1, SMT DEF WriteFits, UsesExternal, UsesInternal, ClkTo, LockTo, OscTo, Regs, Bit
  <2>7. InMode("FEE", cm) /\ "FEE" \in Modes
    BY <1>1, <1>3a, <1>3b, <1>3c, <2>1, SMT DEF InMode, Modes, Regs, Bit
  <2>8. /\ cm.cme0 = 1 => cm.irefs = 0 /\ cm.oscsel = 0
        /\ cm.cme1 = 1 => cm.oscsel = 1
        /\ cm.oscsel = 1 => InMode("FEE", cm) /\ cm.frdiv = 0
        /\ cm.oscsel = 0 /\ cm.irefs = 0 =>
             /\ cm.range = RangeFor(board.xtal) /\ cm.frdiv = FrdivFor(board.xtal)
             /\ board.xtal <= FastestClock
        /\ cm.plls = 1 => board.xtal \div (cm.prdiv0 + 1) >= FirstFrequency
    BY <1>1, <1>3a, <1>3b, <1>3c, <2>1, <1>5, <2>7, SMT DEF InMode, Good, Regs, Bit
  <2>9. Good(cm)
    BY <1>3c, <2>7, <2>8, Zenon DEF Good
  <2>10. SettlesTo(cm, 0, 0, 0, 0, 0, k)
    BY <1>1, <1>3a, <1>3b, <1>3c, <2>1, <2>2, SMT DEF SettlesTo, ClkTo, LockTo, OscTo, Regs, Bit
  <2>. HIDE DEF k, o
  <2>11. At(mcg, 0, 1, 0, 0, 0, k) /\ SettledBits(mcg) = Bits(0, 1, 0, 0, 0, k)
    BY <1>5, <2>2, SettledAt, Zenon
  <2>12. At(c7, 0, 1, 0, 0, 0, k)
    BY <2>11, <2>3, WriteBits, Zenon
  <2>13. Leads(<<Write(c7)>>, mcg, Bits(0, 1, 0, 0, 0, k), c7, Bits(0, 1, 0, 0, 0, k))
    BY <2>11, <2>3, WriteBits, Zenon
  <2>14. At(c1, 0, 1, 0, 0, 0, k)
    BY <2>12, <2>4, WriteBits, Zenon
  <2>15. Leads(<<Write(c1)>>, c7, Bits(0, 1, 0, 0, 0, k), c1, Bits(0, 1, 0, 0, 0, k))
    BY <2>12, <2>4, WriteBits, Zenon
  <2>16. At(c1, 0, 0, 0, 0, 0, k)
    BY <2>14, <2>5, PollIrefst, Zenon
  <2>17. Leads(<<Poll("irefst", 0, h11)>>, c1, Bits(0, 1, 0, 0, 0, k), c1, Bits(0, 0, 0, 0, 0, k))
    BY <2>14, <2>5, PollIrefst, Zenon
  <2>18. At(cm, 0, 0, 0, 0, 0, k)
    BY <2>16, <2>6, WriteBits, Zenon
  <2>19. Leads(<<Write(cm)>>, c1, Bits(0, 0, 0, 0, 0, k), cm, Bits(0, 0, 0, 0, 0, k))
    BY <2>16, <2>6, WriteBits, Zenon
  <2>20. Leads(<<Write(c7), Write(c1), Poll("irefst", 0, h11)>>, mcg, Bits(0, 1, 0, 0, 0, k), c1, Bits(0, 0, 0, 0, 0, k))
    BY <2>13, <2>15, <2>17, Leads3, Zenon
  <2>21. Leads(<<Write(c7), Write(c1), Poll("irefst", 0, h11)>> \o <<Write(cm)>>, mcg, Bits(0, 1, 0, 0, 0, k), cm, Bits(0, 0, 0, 0, 0, k))
    BY <2>20, <2>19, LeadsBoth, Zenon
  <2>22. SettledBits(cm) = Bits(0, 0, 0, 0, 0, k)
    BY <2>9, <2>10, SettledAt, Zenon
  <2>. QED
    BY <2>9, <2>7, <2>11, <2>21, <2>22, Zenon DEF Reaches
<1>. HIDE DEF k, o
<1>. QED
  BY <1>4, <1>5, Zenon DEF c7, c1, cm, h11

\* fei_fee_rtc when the FLL frequency is out of range.
LEMMA FeiFeeRtcRefused ==
  ASSUME board \in Board, mcg \in Regs
  PROVE  LET c7 == [mcg EXCEPT !.oscsel = 1]
             c1 == [c7 EXCEPT !.clks = 0, !.frdiv = 0, !.irefs = 0]
             s == <<Write(c7), Write(c1), Poll("irefst", 0, \h11)>> \o <<>>
         IN /\ s \in Seq(Steps)
            /\ Good(mcg) /\ InMode("FEI", mcg) => Reaches(s, "FEE", c1)
<1>. DEFINE c7 == [mcg EXCEPT !.oscsel = 1]
            c1 == [c7 EXCEPT !.clks = 0, !.frdiv = 0, !.irefs = 0]
            h11 == \h11
            s == <<Write(c7), Write(c1), Poll("irefst", 0, h11)>> \o <<>>
            k == mcg.ircs  o == OscTo(mcg)
<1>1. k \in Bit /\ board.erefs \in Bit /\ 0 \in Bit /\ 1 \in Bit /\ 0 \in 0..3 /\ 1 \in 0..3 /\ 2 \in 0..3 /\ 3 \in 0..3 /\ 0 \in 0..7
  BY SMT DEF Regs, Board, Bit
<1>0. h11 \in ErrorCode
  BY Codes, Zenon
<1>. HIDE DEF h11
<1>3a. /\ c7 \in Regs
      /\ c7.clks = mcg.clks /\ c7.frdiv = mcg.frdiv /\ c7.irefs = mcg.irefs /\ c7.range = mcg.range /\ c7.erefs0 = mcg.erefs0 /\ c7.lp = mcg.lp
      /\ c7.ircs = mcg.ircs /\ c7.prdiv0 = mcg.prdiv0 /\ c7.plls = mcg.plls /\ c7.cme0 = mcg.cme0 /\ c7.vdiv0 = mcg.vdiv0 /\ c7.oscsel = 1 /\ c7.cme1 = mcg.cme1
  BY <1>1, Zenon DEF Regs
<1>3b. /\ c1 \in Regs
      /\ c1.clks = 0 /\ c1.frdiv = 0 /\ c1.irefs = 0 /\ c1.range = c7.range /\ c1.erefs0 = c7.erefs0 /\ c1.lp = c7.lp
      /\ c1.ircs = c7.ircs /\ c1.prdiv0 = c7.prdiv0 /\ c1.plls = c7.plls /\ c1.cme0 = c7.cme0 /\ c1.vdiv0 = c7.vdiv0 /\ c1.oscsel = c7.oscsel /\ c1.cme1 = c7.cme1
  BY <1>1, <1>3a, Zenon DEF Regs
<1>. HIDE DEF c7, c1
<1>4. s \in Seq(Steps)
  <2>1. Write(c7) \in Steps
    BY <1>3a, <1>3b, WriteType, Zenon
  <2>2. Write(c1) \in Steps
    BY <1>3a, <1>3b, WriteType, Zenon
  <2>3. Poll("irefst", 0, h11) \in Steps
    BY <1>0, <1>1, StatusBitNames, PollType, Zenon
  <2>. QED
    BY <2>1, <2>2, <2>3, SMT
<1>5. ASSUME Good(mcg), InMode("FEI", mcg) PROVE Reaches(s, "FEE", c1)
  <2>1. mcg.clks = 0 /\ mcg.irefs = 1 /\ mcg.plls = 0 /\ mcg.lp = 0 /\ mcg.oscsel = 0 /\ mcg.cme0 = 0 /\ mcg.cme1 = 0
    BY <1>1, <1>5, SMT DEF Good, InMode, Regs, Bit
  <2>2. SettlesTo(mcg, 0, 1, 0, 0, 0, k) /\ o \in Bit
    BY <1>1, <2>1, SMT DEF SettlesTo, ClkTo, LockTo, OscTo, Regs, Bit
  <2>3. WriteFits(mcg, c7, 0, 1, 0, 0, 0, k, 0, 0)
    BY <1>1, <1>3a, <1>3b, <2>1, SMT DEF WriteFits, UsesExternal, UsesInternal, ClkTo, LockTo, OscTo, Regs, Bit
  <2>4. WriteFits(c7, c1, 0, 1, 0, 0, 0, k, 0, 0)
    BY <1>1, <1>3a, <1>3b, <2>1, SMT DEF WriteFits, UsesExternal, UsesInternal, ClkTo, LockTo, OscTo, Regs, Bit
  <2>5. Asks("irefst", 0, h11, c1)
    BY <1>0, <1>1, <1>3a, <1>3b, <2>1, SMT DEF Asks, ClkTo, LockTo, OscTo, Regs, Bit
  <2>6. InMode("FEE", c1) /\ "FEE" \in Modes
    BY <1>1, <1>3a, <1>3b, <2>1, SMT DEF InMode, Modes, Regs, Bit
  <2>7. /\ c1.cme0 = 1 => c1.irefs = 0 /\ c1.oscsel = 0
        /\ c1.cme1 = 1 => c1.oscsel = 1
        /\ c1.oscsel = 1 => InMode("FEE", c1) /\ c1.frdiv = 0
        /\ c1.oscsel = 0 /\ c1.irefs = 0 =>
             /\ c1.range = RangeFor(board.xtal) /\ c1.frdiv = FrdivFor(board.xtal)
             /\ board.xtal <= FastestClock
        /\ c1.plls = 1 => board.xtal \div (c1.prdiv0 + 1) >= FirstFrequency
    BY <1>1, <1>3a, <1>3b, <2>1, <1>5, <2>6, SMT DEF InMode, Good, Regs, Bit
  <2>8. Good(c1)
    BY <1>3b, <2>6, <2>7, Zenon DEF Good
  <2>9. SettlesTo(c1, 0, 0, 0, 0, 0, k)
    BY <1>1, <1>3a, <1>3b, <2>1, <2>2, SMT DEF SettlesTo, ClkTo, LockTo, OscTo, Regs, Bit
  <2>. HIDE DEF k, o
  <2>10. At(mcg, 0, 1, 0, 0, 0, k) /\ SettledBits(mcg) = Bits(0, 1, 0, 0, 0, k)
    BY <1>5, <2>2, SettledAt, Zenon
  <2>11. At(c7, 0, 1, 0, 0, 0, k)
    BY <2>10, <2>3, WriteBits, Zenon
  <2>12. Leads(<<Write(c7)>>, mcg, Bits(0, 1, 0, 0, 0, k), c7, Bits(0, 1, 0, 0, 0, k))
    BY <2>10, <2>3, WriteBits, Zenon
  <2>13. At(c1, 0, 1, 0, 0, 0, k)
    BY <2>11, <2>4, WriteBits, Zenon
  <2>14. Leads(<<Write(c1)>>, c7, Bits(0, 1, 0, 0, 0, k), c1, Bits(0, 1, 0, 0, 0, k))
    BY <2>11, <2>4, WriteBits, Zenon
  <2>15. At(c1, 0, 0, 0, 0, 0, k)
    BY <2>13, <2>5, PollIrefst, Zenon
  <2>16. Leads(<<Poll("irefst", 0, h11)>>, c1, Bits(0, 1, 0, 0, 0, k), c1, Bits(0, 0, 0, 0, 0, k))
    BY <2>13, <2>5, PollIrefst, Zenon
  <2>17. Leads(<<Write(c7), Write(c1), Poll("irefst", 0, h11)>>, mcg, Bits(0, 1, 0, 0, 0, k), c1, Bits(0, 0, 0, 0, 0, k))
    BY <2>12, <2>14, <2>16, Leads3, Zenon
  <2>18. Leads(<<>>, c1, Bits(0, 0, 0, 0, 0, k), c1, Bits(0, 0, 0, 0, 0, k))
    BY <2>15, LeadsNoneAt, Zenon
  <2>19. Leads(<<Write(c7), Write(c1), Poll("irefst", 0, h11)>> \o <<>>, mcg, Bits(0, 1, 0, 0, 0, k), c1, Bits(0, 0, 0, 0, 0, k))
    BY <2>17, <2>18, LeadsBoth, Zenon
  <2>20. SettledBits(c1) = Bits(0, 0, 0, 0, 0, k)
    BY <2>8, <2>9, SettledAt, Zenon
  <2>. QED
    BY <2>8, <2>6, <2>10, <2>19, <2>20, Zenon DEF Reaches
<1>. HIDE DEF k, o
<1>. QED
  BY <1>4, <1>5, Zenon DEF c7, c1, h11

\* fee_fei_rtc.
LEMMA FeeFeiRtcCourse ==
  ASSUME board \in Board, mcg \in Regs
  PROVE  LET c8 == [mcg EXCEPT !.cme1 = 0]
             c1 == [c8 EXCEPT !.irefs = 1]
             c7 == [c1 EXCEPT !.oscsel = 0]
             s == <<Write(c8), Write(c1), Poll("irefst", 1, \h12), Write(c7)>>
         IN /\ s \in Seq(Steps)
            /\ Good(mcg) /\ InMode("FEE", mcg) /\ mcg.oscsel = 1 => Reaches(s, "FEI", c7)
<1>. DEFINE c8 == [mcg EXCEPT !.cme1 = 0]
            c1 == [c8 EXCEPT !.irefs = 1]
            c7 == [c1 EXCEPT !.oscsel = 0]
            h12 == \h12
            s == <<Write(c8), Write(c1), Poll("irefst", 1, h12), Write(c7)>>
            k == mcg.ircs  o == OscTo(mcg)
<1>1. k \in Bit /\ board.erefs \in Bit /\ 0 \in Bit /\ 1 \in Bit /\ 0 \in 0..3 /\ 1 \in 0..3 /\ 2 \in 0..3 /\ 3 \in 0..3 /\ 0 \in 0..7
  BY SMT DEF Regs, Board, Bit
<1>0. h12 \in ErrorCode
  BY Codes, Zenon
<1>. HIDE DEF h12
<1>3a. /\ c8 \in Regs
      /\ c8.clks = mcg.clks /\ c8.frdiv = mcg.frdiv /\ c8.irefs = mcg.irefs /\ c8.range = mcg.range /\ c8.erefs0 = mcg.erefs0 /\ c8.lp = mcg.lp
      /\ c8.ircs = mcg.ircs /\ c8.prdiv0 = mcg.prdiv0 /\ c8.plls = mcg.plls /\ c8.cme0 = mcg.cme0 /\ c8.vdiv0 = mcg.vdiv0 /\ c8.oscsel = mcg.oscsel /\ c8.cme1 = 0
  BY <1>1, Zenon DEF Regs
<1>3b. /\ c1 \in Regs
      /\ c1.clks = c8.clks /\ c1.frdiv = c8.frdiv /\ c1.irefs = 1 /\ c1.range = c8.range /\ c1.erefs0 = c8.erefs0 /\ c1.lp = c8.lp
      /\ c1.ircs = c8.ircs /\ c1.prdiv0 = c8.prdiv0 /\ c1.plls = c8.plls /\ c1.cme0 = c8.cme0 /\ c1.vdiv0 = c8.vdiv0 /\ c1.oscsel = c8.oscsel /\ c1.cme1 = c8.cme1
  BY <1>1, <1>3a, Zenon DEF Regs
<1>3c. /\ c7 \in Regs
      /\ c7.clks = c1.clks /\ c7.frdiv = c1.frdiv /\ c7.irefs = c1.irefs /\ c7.range = c1.range /\ c7.erefs0 = c1.erefs0 /\ c7.lp = c1.lp
      /\ c7.ircs = c1.ircs /\ c7.prdiv0 = c1.prdiv0 /\ c7.plls = c1.plls /\ c7.cme0 = c1.cme0 /\ c7.vdiv0 = c1.vdiv0 /\ c7.oscsel = 0 /\ c7.cme1 = c1.cme1
  BY <1>1, <1>3b, Zenon DEF Regs
<1>. HIDE DEF c8, c1, c7
<1>4. s \in Seq(Steps)
  <2>1. Write(c8) \in Steps
    BY <1>3a, <1>3b, <1>3c, WriteType, Zenon
  <2>2. Write(c1) \in Steps
    BY <1>3a, <1>3b, <1>3c, WriteType, Zenon
  <2>3. Poll("irefst", 1, h12) \in Steps
    BY <1>0, <1>1, StatusBitNames, PollType, Zenon
  <2>4. Write(c7) \in Steps
    BY <1>3a, <1>3b, <1>3c, WriteType, Zenon
  <2>. QED
    BY <2>1, <2>2, <2>3, <2>4, SMT
<1>5. ASSUME Good(mcg), InMode("FEE", mcg), mcg.oscsel = 1 PROVE Reaches(s, "FEI", c7)
  <2>1. mcg.clks = 0 /\ mcg.irefs = 0 /\ mcg.plls = 0 /\ mcg.lp = 0 /\ mcg.oscsel = 1 /\ mcg.cme0 = 0 /\ mcg.frdiv = 0
    BY <1>1, <1>5, SMT DEF Good, InMode, Regs, Bit
  <2>2. SettlesTo(mcg, 0, 0, 0, 0, 0, k) /\ o \in Bit
    BY <1>1, <2>1, SMT DEF SettlesTo, ClkTo, LockTo, OscTo, Regs, Bit
  <2>3. WriteFits(mcg, c8, 0, 0, 0, 0, 0, k, 0, 0)
    BY <1>1, <1>3a, <1>3b, <1>3c, <2>1, SMT DEF WriteFits, UsesExternal, UsesInternal, ClkTo, LockTo, OscTo, Regs, Bit
  <2>4. WriteFits(c8, c1, 0, 0, 0, 0, 0, k, 0, 0)
    BY <1>1, <1>3a, <1>3b, <1>3c, <2>1, SMT DEF WriteFits, UsesExternal, UsesInternal, ClkTo, LockTo, OscTo, Regs, Bit
  <2>5. Asks("irefst", 1, h12, c1)
    BY <1>0, <1>1, <1>3a, <1>3b, <1>3c, <2>1, SMT DEF Asks, ClkTo, LockTo, OscTo, Regs, Bit
  <2>6. WriteFits(c1, c7, 0, 1, 0, 0, 0, k, 0, 0)
    BY <1>1, <1>3a, <1>3b, <1>3c, <2>1, SMT DEF WriteFits, UsesExternal, UsesInternal, ClkTo, LockTo, OscTo, Regs, Bit
  <2>7. InMode("FEI", c7) /\ "FEI" \in Modes
    BY <1>1, <1>3a, <1>3b, <1>3c, <2>1, SMT DEF InMode, Modes, Regs, Bit
  <2>8. /\ c7.cme0 = 1 => c7.irefs = 0 /\ c7.oscsel = 0
        /\ c7.cme1 = 1 => c7.oscsel = 1
        /\ c7.oscsel = 1 => InMode("FEE", c7) /\ c7.frdiv = 0
        /\ c7.oscsel = 0 /\ c7.irefs = 0 =>
             /\ c7.range = RangeFor(board.xtal) /\ c7.frdiv = FrdivFor(board.xtal)
             /\ board.xtal <= FastestClock
        /\ c7.plls = 1 => board.xtal \div (c7.prdiv0 + 1) >= FirstFrequency
    BY <1>1, <1>3a, <1>3b, <1>3c, <2>1, <1>5, <2>7, SMT DEF InMode, Good, Regs, Bit
  <2>9. Good(c7)
    BY <1>3c, <2>7, <2>8, Zenon DEF Good
  <2>10. SettlesTo(c7, 0, 1, 0, 0, 0, k)
    BY <1>1, <1>3a, <1>3b, <1>3c, <2>1, <2>2, SMT DEF SettlesTo, ClkTo, LockTo, OscTo, Regs, Bit
  <2>. HIDE DEF k, o
  <2>11. At(mcg, 0, 0, 0, 0, 0, k) /\ SettledBits(mcg) = Bits(0, 0, 0, 0, 0, k)
    BY <1>5, <2>2, SettledAt, Zenon
  <2>12. At(c8, 0, 0, 0, 0, 0, k)
    BY <2>11, <2>3, WriteBits, Zenon
  <2>13. Leads(<<Write(c8)>>, mcg, Bits(0, 0, 0, 0, 0, k), c8, Bits(0, 0, 0, 0, 0, k))
    BY <2>11, <2>3, WriteBits, Zenon
  <2>14. At(c1, 0, 0, 0, 0, 0, k)
    BY <2>12, <2>4, WriteBits, Zenon
  <2>15. Leads(<<Write(c1)>>, c8, Bits(0, 0, 0, 0, 0, k), c1, Bits(0, 0, 0, 0, 0, k))
    BY <2>12, <2>4, WriteBits, Zenon
  <2>16. At(c1, 0, 1, 0, 0, 0, k)
    BY <2>14, <2>5, PollIrefst, Zenon
  <2>17. Leads(<<Poll("irefst", 1, h12)>>, c1, Bits(0, 0, 0, 0, 0, k), c1, Bits(0, 1, 0, 0, 0, k))
    BY <2>14, <2>5, PollIrefst, Zenon
  <2>18. At(c7, 0, 1, 0, 0, 0, k)
    BY <2>16, <2>6, WriteBits, Zenon
  <2>19. Leads(<<Write(c7)>>, c1, Bits(0, 1, 0, 0, 0, k), c7, Bits(0, 1, 0, 0, 0, k))
    BY <2>16, <2>6, WriteBits, Zenon
  <2>20. Leads(<<Write(c8), Write(c1), Poll("irefst", 1, h12), Write(c7)>>, mcg, Bits(0, 0, 0, 0, 0, k), c7, Bits(0, 1, 0, 0, 0, k))
    BY <2>13, <2>15, <2>17, <2>19, Leads4, Zenon
  <2>21. SettledBits(c7) = Bits(0, 1, 0, 0, 0, k)
    BY <2>9, <2>10, SettledAt, Zenon
  <2>. QED
    BY <2>9, <2>7, <2>11, <2>20, <2>21, Zenon DEF Reaches
<1>. HIDE DEF k, o
<1>. QED
  BY <1>4, <1>5, Zenon DEF c8, c1, c7, h12

\* clk_monitor_0.
LEMMA MonitorCourse ==
  ASSUME board \in Board, mcg \in Regs, NEW en, en \in Bit
  PROVE  LET w1 == [mcg EXCEPT !.cme0 = en]
             s == <<Write(w1)>>
         IN /\ s \in Seq(Steps)
            /\ \A m \in Modes : Good(mcg) /\ InMode(m, mcg) /\ (en = 1 => m \in External /\ mcg.oscsel = 0)
                                  => Reaches(s, m, w1)
<1>. DEFINE w1 == [mcg EXCEPT !.cme0 = en]
            s == <<Write(w1)>>
            c == ClkTo(mcg)  i == mcg.irefs  p == mcg.plls  l == LockTo(mcg)  o == OscTo(mcg)  k == mcg.ircs
<1>1. /\ w1 \in Regs
      /\ w1.clks = mcg.clks /\ w1.frdiv = mcg.frdiv /\ w1.irefs = mcg.irefs /\ w1.range = mcg.range /\ w1.erefs0 = mcg.erefs0 /\ w1.lp = mcg.lp
      /\ w1.ircs = mcg.ircs /\ w1.prdiv0 = mcg.prdiv0 /\ w1.plls = mcg.plls /\ w1.cme0 = en /\ w1.vdiv0 = mcg.vdiv0 /\ w1.oscsel = mcg.oscsel /\ w1.cme1 = mcg.cme1
  BY Zenon DEF Regs
<1>. HIDE DEF w1
<1>2. s \in Seq(Steps)
  <2>1. Write(w1) \in Steps
    BY <1>1, WriteType, Zenon
  <2>. QED
    BY <2>1, SMT
<1>3. ASSUME NEW m \in Modes, Good(mcg), InMode(m, mcg), en = 1 => m \in External /\ mcg.oscsel = 0
      PROVE  Reaches(s, m, w1)
  <2>1. InMode(m, w1)
    BY <1>1, <1>3, SMT DEF InMode
  <2>2. /\ w1.cme0 = 1 => w1.irefs = 0 /\ w1.oscsel = 0
        /\ w1.cme1 = 1 => w1.oscsel = 1
        /\ w1.oscsel = 1 => InMode("FEE", w1) /\ w1.frdiv = 0
        /\ w1.oscsel = 0 /\ w1.irefs = 0 =>
             /\ w1.range = RangeFor(board.xtal) /\ w1.frdiv = FrdivFor(board.xtal)
             /\ board.xtal <= FastestClock
        /\ w1.plls = 1 => board.xtal \div (w1.prdiv0 + 1) >= FirstFrequency
    BY <1>1, <1>3, SMT DEF InMode, Good, External
  <2>3. Good(w1)
    BY <1>1, <1>3, <2>1, <2>2, Zenon DEF Good
  <2>4a. SettlesTo(mcg, c, i, p, l, o, k)
    BY <1>1, Zenon DEF SettlesTo, ClkTo, LockTo, OscTo
  <2>4. SettlesTo(w1, c, i, p, l, o, k)
    BY <1>1, Zenon DEF SettlesTo, ClkTo, LockTo, OscTo
  <2>4b. Good(mcg)
    BY <1>3
  <2>5. l \in Bit /\ o \in Bit /\ mcg.clks # 3
    BY <1>3, GoodIsSafe, Zenon
  <2>6. WriteFits(mcg, w1, c, i, p, l, o, k, l, o)
    BY <1>1, <1>3, <2>3, <2>4a, <2>4, <2>5, SMT DEF WriteFits, UsesExternal, UsesInternal, ClkTo, LockTo, OscTo, Regs, Bit,
       Good, InMode, SettlesTo
  <2>. HIDE DEF c, i, p, l, o, k
  <2>7. At(mcg, c, i, p, l, o, k) /\ SettledBits(mcg) = Bits(c, i, p, l, o, k)
    BY <2>4b, <2>4a, SettledAt, Zenon
  <2>8. SettledBits(w1) = Bits(c, i, p, l, o, k)
    BY <2>3, <2>4, SettledAt, Zenon
  <2>9. Leads(s, mcg, Bits(c, i, p, l, o, k), w1, Bits(c, i, p, l, o, k))
    BY <2>6, <2>7, WriteBits, Zenon
  <2>. QED
    BY <2>1, <2>3, <2>7, <2>8, <2>9, Zenon DEF Reaches
<1>. QED
  BY <1>2, <1>3, Zenon DEF w1

-----------------------------------------------------------------------------
(* The mode, the frequency and the verdict of a call.                      *)

\* Once everything has settled the status shows the mode the registers ask for.
LEMMA ModeIs ==
  ASSUME Good(mcg), st = SettledBits(mcg)
  PROVE  /\ st \in Status /\ what_mcg_mode \in Modes
         /\ \A m \in Modes : what_mcg_mode = m <=> InMode(m, mcg)
<1>1. /\ st.clkst = ClkTo(mcg) /\ st.irefst = mcg.irefs /\ st.pllst = mcg.plls
      /\ mcg \in Regs
  BY Zenon DEF SettledBits, Bits, Good
<1>2. st \in Status
  BY GoodIsSafe, BitsType, Zenon DEF SettledBits
<1>3. PICK n \in Modes : InMode(n, mcg)
  BY Zenon DEF Good
<1>4. \A m \in Modes : Shows(m, st, mcg.lp) <=> InMode(m, mcg)
  BY <1>1, <1>3, SMT DEF Shows, InMode, ClkTo, Regs, Bit
<1>. QED
  BY <1>1, <1>2, <1>3, <1>4, ModeShown, Zenon

\* The frequency of MCGOUTCLK once the registers r are in force.
Hz(r) == MCGOUTCLK(board, r, SettledBits(r))

\* The frequency of MCGOUTCLK, mode by mode.
LEMMA HzOf ==
  ASSUME NEW r, Good(r), board \in Board
  PROVE  /\ InMode("FEI", r) => Hz(r) = FllFactor(board) * board.slow
         /\ InMode("FEE", r) /\ r.oscsel = 1 => Hz(r) = FllFactor(board) * board.rtc
         /\ InMode("FEE", r) /\ r.oscsel = 0
              => Hz(r) = FllFactor(board) *
                           (board.xtal \div (IF r.range = 0 THEN Pow2(r.frdiv) ELSE 32 * Pow2(r.frdiv)))
         /\ InMode("FBI", r) \/ InMode("BLPI", r)
              => Hz(r) = IF r.ircs = 1 THEN board.fast \div Pow2(board.fcrdiv) ELSE board.slow
         /\ InMode("FBE", r) \/ InMode("PBE", r) \/ InMode("BLPE", r) => Hz(r) = board.xtal
         /\ InMode("PEE", r) => Hz(r) = (board.xtal \div (r.prdiv0 + 1)) * (r.vdiv0 + 24)
<1>. DEFINE t == SettledBits(r)
            ext == IF r.oscsel = 1 THEN board.rtc ELSE board.xtal
            div == IF r.range = 0 \/ r.oscsel = 1 THEN Pow2(r.frdiv) ELSE 32 * Pow2(r.frdiv)
<1>1. t.clkst = ClkTo(r) /\ t.irefst = r.irefs /\ t.ircst = r.ircs /\ r \in Regs
  BY Zenon DEF SettledBits, Bits, Good
<1>2. 0 # 1 /\ 0 # 2 /\ 0 # 3 /\ 1 # 2 /\ 1 # 3 /\ 2 # 3 /\ Pow2(0) = 1
  <2>1. 0 # 1 /\ 0 # 2 /\ 0 # 3 /\ 1 # 2 /\ 1 # 3 /\ 2 # 3
    BY SMT
  <2>2. 0 # 4 /\ 0 # 5 /\ 0 # 6
    BY SMT
  <2>. QED
    BY <2>1, <2>2, Zenon DEF Pow2
<1>3. /\ t.clkst = 0 => Hz(r) = FllFactor(board) * (IF t.irefst = 1 THEN board.slow ELSE ext \div div)
      /\ t.clkst = 1 => Hz(r) = IF t.ircst = 1 THEN board.fast \div Pow2(board.fcrdiv) ELSE board.slow
      /\ t.clkst = 2 => Hz(r) = ext
      /\ t.clkst = 3 => Hz(r) = (board.xtal \div (r.prdiv0 + 1)) * (r.vdiv0 + 24)
  BY <1>2, Zenon DEF Hz, MCGOUTCLK
<1>. HIDE DEF t
<1>4. /\ r.oscsel = 1 => r.frdiv = 0 /\ InMode("FEE", r)
      /\ r.oscsel \in Bit /\ board.rtc \in Nat
  BY SMT DEF Good, Regs, Board
<1>5. r.oscsel = 1 => ext = board.rtc /\ div = 1
  BY <1>2, <1>4, Zenon
<1>6. r.oscsel = 0 => ext = board.xtal /\ div = IF r.range = 0 THEN Pow2(r.frdiv) ELSE 32 * Pow2(r.frdiv)
  BY <1>2, Zenon
<1>7. r.oscsel = 1 => ext \div div = board.rtc
  BY <1>4, <1>5, SMT
<1>. HIDE DEF ext, div
<1>8. InMode("FEI", r) => Hz(r) = FllFactor(board) * board.slow
  BY <1>1, <1>3, SMT DEF InMode, ClkTo
<1>9. InMode("FEE", r) /\ r.oscsel = 1 => Hz(r) = FllFactor(board) * board.rtc
  BY <1>1, <1>3, <1>7, SMT DEF InMode, ClkTo
<1>10. InMode("FEE", r) /\ r.oscsel = 0
              => Hz(r) = FllFactor(board) *
                           (board.xtal \div (IF r.range = 0 THEN Pow2(r.frdiv) ELSE 32 * Pow2(r.frdiv)))
  <2>1. InMode("FEE", r) => t.clkst = 0 /\ t.irefst # 1
    BY <1>1, SMT DEF InMode, ClkTo
  <2>. QED
    BY <1>3, <1>6, <2>1, Zenon
<1>11. InMode("FBI", r) \/ InMode("BLPI", r)
              => Hz(r) = IF r.ircs = 1 THEN board.fast \div Pow2(board.fcrdiv) ELSE board.slow
  <2>1. InMode("FBI", r) \/ InMode("BLPI", r) => t.clkst = 1
    BY <1>1, SMT DEF InMode, ClkTo
  <2>. QED
    BY <1>1, <1>3, <2>1, Zenon
<1>12. InMode("FBE", r) \/ InMode("PBE", r) \/ InMode("BLPE", r) => Hz(r) = board.xtal
  <2>1. InMode("FBE", r) \/ InMode("PBE", r) \/ InMode("BLPE", r) => t.clkst = 2 /\ r.oscsel = 0
    BY <1>1, <1>4, SMT DEF InMode, ClkTo, Bit
  <2>. QED
    BY <1>3, <1>6, <2>1, Zenon
<1>13. InMode("PEE", r) => Hz(r) = (board.xtal \div (r.prdiv0 + 1)) * (r.vdiv0 + 24)
  BY <1>1, <1>3, SMT DEF InMode, ClkTo
<1>. QED
  BY <1>8, <1>9, <1>10, <1>11, <1>12, <1>13, Zenon

\* An error code, or 0.
Verdict == 0..(FirstFrequency - 1)

\* The first of two checks that fails decides.
LEMMA ThenIs ==
  ASSUME NEW e1, NEW e2, e1 \in Verdict, e2 \in Verdict
  PROVE  Then(e1, e2) \in Verdict /\ (Then(e1, e2) = 0 => e1 = 0 /\ e2 = 0)
  BY Zenon DEF Then

\* A function that passes the check of the mode is called in the mode it starts from.
LEMMA WrongModeIs ==
  /\ WrongMode("FEI") \in Verdict /\ (WrongMode("FEI") = 0 => what_mcg_mode = "FEI")
  /\ WrongMode("FEE") \in Verdict /\ (WrongMode("FEE") = 0 => what_mcg_mode = "FEE")
  /\ WrongMode("FBI") \in Verdict /\ (WrongMode("FBI") = 0 => what_mcg_mode = "FBI")
  /\ WrongMode("FBE") \in Verdict /\ (WrongMode("FBE") = 0 => what_mcg_mode = "FBE")
  /\ WrongMode("BLPI") \in Verdict /\ (WrongMode("BLPI") = 0 => what_mcg_mode = "BLPI")
  /\ WrongMode("BLPE") \in Verdict /\ (WrongMode("BLPE") = 0 => what_mcg_mode = "BLPE")
  /\ WrongMode("PBE") \in Verdict /\ (WrongMode("PBE") = 0 => what_mcg_mode = "PBE")
  /\ WrongMode("PEE") \in Verdict /\ (WrongMode("PEE") = 0 => what_mcg_mode = "PEE")
<1>1. /\ 0 \in Verdict /\ 1 \in Verdict /\ 2 \in Verdict /\ 3 \in Verdict /\ 4 \in Verdict
      /\ 5 \in Verdict /\ 6 \in Verdict /\ 7 \in Verdict /\ 8 \in Verdict
      /\ 1 # 0 /\ 2 # 0 /\ 3 # 0 /\ 4 # 0 /\ 5 # 0 /\ 6 # 0 /\ 7 # 0 /\ 8 # 0
  BY SMT DEF Verdict, FirstFrequency
<1>2. WrongMode("FEI") \in Verdict /\ (WrongMode("FEI") = 0 => what_mcg_mode = "FEI")
  BY <1>1, Zenon DEF WrongMode
<1>3. WrongMode("FEE") \in Verdict /\ (WrongMode("FEE") = 0 => what_mcg_mode = "FEE")
  BY <1>1, Zenon DEF WrongMode
<1>4. WrongMode("FBI") \in Verdict /\ (WrongMode("FBI") = 0 => what_mcg_mode = "FBI")
  BY <1>1, Zenon DEF WrongMode
<1>5. WrongMode("FBE") \in Verdict /\ (WrongMode("FBE") = 0 => what_mcg_mode = "FBE")
  BY <1>1, Zenon DEF WrongMode
<1>6. WrongMode("BLPI") \in Verdict /\ (WrongMode("BLPI") = 0 => what_mcg_mode = "BLPI")
  BY <1>1, Zenon DEF WrongMode
<1>7. WrongMode("BLPE") \in Verdict /\ (WrongMode("BLPE") = 0 => what_mcg_mode = "BLPE")
  BY <1>1, Zenon DEF WrongMode
<1>8. WrongMode("PBE") \in Verdict /\ (WrongMode("PBE") = 0 => what_mcg_mode = "PBE")
  BY <1>1, Zenon DEF WrongMode
<1>9. WrongMode("PEE") \in Verdict /\ (WrongMode("PEE") = 0 => what_mcg_mode = "PEE")
  BY <1>1, Zenon DEF WrongMode
<1>. QED
  BY <1>2, <1>3, <1>4, <1>5, <1>6, <1>7, <1>8, <1>9

\* What the checks of the arguments establish when they pass.
LEMMA ExtChecks ==
  ASSUME board \in Board
  PROVE  /\ ExtCheck \in Verdict /\ (ExtCheck = 0 => board.xtal <= FastestClock)
         /\ PllExtCheck \in Verdict /\ (PllExtCheck = 0 => board.xtal <= FastestClock)
<1>1. MaxExtCheck \in Verdict /\ (MaxExtCheck = 0 => board.xtal <= FastestClock)
  BY SMT DEF MaxExtCheck, Verdict, FirstFrequency, FastestClock, Board
<1>. QED
  BY <1>1, SMT DEF ExtCheck, PllExtCheck, Then, Verdict, FirstFrequency

\* Dividers that pass the checks fit their fields and keep the PLL's reference a frequency.
LEMMA PllChecks ==
  ASSUME board \in Board, NEW p, NEW v, p \in Int, v \in Int
  PROVE  /\ PllRefCheck(p, v) \in Verdict /\ PllCheck(p, v) \in Verdict
         /\ PllCheck(p, v) = 0 => PllRefCheck(p, v) = 0
         /\ PllRefCheck(p, v) = 0 => /\ Dividers(p, v)
                                     /\ board.xtal \div p >= FirstFrequency
                                     /\ PllRangeFor(board.xtal) = RangeFor(board.xtal)
<1>1. PllRefCheck(p, v) \in Verdict
  BY SMT DEF PllRefCheck, Verdict, FirstFrequency
<1>2. (IF PllInRange((board.xtal \div p) * v) THEN 0 ELSE \h45) \in Verdict
  BY SMT DEF Verdict, FirstFrequency
<1>3. PllCheck(p, v) \in Verdict /\ (PllCheck(p, v) = 0 => PllRefCheck(p, v) = 0)
  BY <1>1, <1>2, ThenIs, Zenon DEF PllCheck
<1>4. ASSUME PllRefCheck(p, v) = 0
      PROVE  Dividers(p, v) /\ board.xtal \div p >= 2000000
  <2>. DEFINE x == board.xtal \div p
  <2>1. PllRefCheck(p, v) = IF p < 1 \/ p > 25 THEN \h41 ELSE IF v < 24 \/ v > 55 THEN \h42
                            ELSE IF x < 2000000 \/ x > 4000000 THEN \h43 ELSE 0
    BY DEF PllRefCheck
  <2>. HIDE DEF x
  <2>2. ~(p < 1 \/ p > 25)
    BY <1>4, <2>1, SMT
  <2>3. ~(v < 24 \/ v > 55)
    BY <1>4, <2>1, <2>2, SMT
  <2>4. Dividers(p, v)
    BY <2>2, <2>3, SMT DEF Dividers
  <2>5. x \in Int
    BY <2>4, SMT DEF Board, Dividers, x
  <2>6. ~(x < 2000000 \/ x > 4000000)
    BY <1>4, <2>1, <2>2, <2>3, SMT
  <2>. QED
    BY <2>4, <2>5, <2>6, SMT DEF x
<1>5. ASSUME Dividers(p, v), board.xtal \div p >= 2000000
      PROVE  board.xtal \div p >= FirstFrequency /\ PllRangeFor(board.xtal) = RangeFor(board.xtal)
  <2>1. board.xtal \in Nat /\ p \in 1..25
    BY <1>5, SMT DEF Board, Dividers
  <2>2. board.xtal > 40000
    BY <1>5, <2>1, Z3
  <2>. QED
    BY <1>5, <2>1, <2>2, SMT DEF PllRangeFor, RangeFor, FirstFrequency
<1>. QED
  BY <1>1, <1>3, <1>4, <1>5

\* The FLL multiplies by some hundreds or thousands.
LEMMA FllFactorType ==
  ASSUME board \in Board
  PROVE  FllFactor(board) \in Nat \ {0}
<1>1. board.drs \in 0..3
  BY SMT DEF Board
<1>2. FllFactor(board) = IF board.dmx32 = 1
                         THEN IF board.drs = 0 THEN 732 ELSE IF board.drs = 1 THEN 1464
                              ELSE IF board.drs = 2 THEN 2197 ELSE 2929
                         ELSE 640 * (board.drs + 1)
  BY SMT DEF FllFactor
<1>. QED
  BY <1>1, <1>2, SMT

\* fll_freq returns an error code or the frequency.
LEMMA FllChecks ==
  ASSUME board \in Board, NEW x, x \in Int
  PROVE  /\ FllCheck(x) \in Verdict /\ fll_freq(x) \in Int
         /\ FllCheck(x) = 0 => fll_freq(x) = x * FllFactor(board) /\ fll_freq(x) >= FirstFrequency /\ x > 0
         /\ FllCheck(x) # 0 => fll_freq(x) < FirstFrequency
<1>. DEFINE F == FllFactor(board)  hz == x * F
            lo == 20000000 * (board.drs + 1)  hi == 25000000 * (board.drs + 1)
<1>1. F \in Nat \ {0} /\ board.drs \in 0..3
  BY FllFactorType, SMT DEF Board
<1>2. hz \in Int /\ (hz > 0 => x > 0)
  <2>. HIDE DEF F
  <2>. QED
    BY <1>1, Z3
<1>3. fll_freq(x) = IF hz < lo THEN \h33 + 2 * board.drs ELSE IF hz > hi THEN \h34 + 2 * board.drs ELSE hz
  BY SMT DEF fll_freq
<1>. HIDE DEF F, hz
<1>4. lo >= FirstFrequency
  BY <1>1, SMT DEF FirstFrequency
<1>5. fll_freq(x) \in Verdict \/ (fll_freq(x) = hz /\ hz >= lo)
  BY <1>1, <1>2, <1>3, SMT DEF Verdict, FirstFrequency
<1>6. fll_freq(x) \in Int /\ fll_freq(x) # 0 /\ fll_freq(x) > 0
  BY <1>1, <1>2, <1>3, SMT
<1>. HIDE DEF lo, hi
<1>7. lo \in Int
  BY <1>1, SMT DEF lo
<1>. QED
  BY <1>2, <1>4, <1>5, <1>6, <1>7, SMT DEF FllCheck, Verdict, FirstFrequency, hz, F

-----------------------------------------------------------------------------
(* The calls.                                                              *)

\* The prototypes of MCG.h as a relation.
Goes(f, m, m2) ==
  /\ f \in DOMAIN Abstract!Edge /\ Abstract!Edge[f][1] = m /\ Abstract!Edge[f][2] = m2
  /\ m \in Modes /\ m2 \in Modes

\* Where each of the 25 functions starts and ends.
LEMMA Prototypes ==
  /\ Goes("pll_init", "FEI", "PEE")
  /\ Goes("pee_pbe", "PEE", "PBE")
  /\ Goes("pbe_pee", "PBE", "PEE")
  /\ Goes("pbe_fbe", "PBE", "FBE")
  /\ Goes("fbe_pbe", "FBE", "PBE")
  /\ Goes("pbe_blpe", "PBE", "BLPE")
  /\ Goes("blpe_pbe", "BLPE", "PBE")
  /\ Goes("blpe_fbe", "BLPE", "FBE")
  /\ Goes("fbe_blpe", "FBE", "BLPE")
  /\ Goes("fbe_fei", "FBE", "FEI")
  /\ Goes("fei_fbe", "FEI", "FBE")
  /\ Goes("fbe_fee", "FBE", "FEE")
  /\ Goes("fee_fbe", "FEE", "FBE")
  /\ Goes("fbe_fbi", "FBE", "FBI")
  /\ Goes("fbi_fbe", "FBI", "FBE")
  /\ Goes("fbi_blpi", "FBI", "BLPI")
  /\ Goes("blpi_fbi", "BLPI", "FBI")
  /\ Goes("fbi_fee", "FBI", "FEE")
  /\ Goes("fee_fbi", "FEE", "FBI")
  /\ Goes("fbi_fei", "FBI", "FEI")
  /\ Goes("fei_fbi", "FEI", "FBI")
  /\ Goes("fei_fee", "FEI", "FEE")
  /\ Goes("fee_fei", "FEE", "FEI")
  /\ Goes("fei_fee_rtc", "FEI", "FEE")
  /\ Goes("fee_fei_rtc", "FEE", "FEI")
<1>1. Goes("pll_init", "FEI", "PEE")
  BY Zenon DEF Goes, Abstract!Edge, Modes
<1>2. Goes("pee_pbe", "PEE", "PBE")
  BY Zenon DEF Goes, Abstract!Edge, Modes
<1>3. Goes("pbe_pee", "PBE", "PEE")
  BY Zenon DEF Goes, Abstract!Edge, Modes
<1>4. Goes("pbe_fbe", "PBE", "FBE")
  BY Zenon DEF Goes, Abstract!Edge, Modes
<1>5. Goes("fbe_pbe", "FBE", "PBE")
  BY Zenon DEF Goes, Abstract!Edge, Modes
<1>6. Goes("pbe_blpe", "PBE", "BLPE")
  BY Zenon DEF Goes, Abstract!Edge, Modes
<1>7. Goes("blpe_pbe", "BLPE", "PBE")
  BY Zenon DEF Goes, Abstract!Edge, Modes
<1>8. Goes("blpe_fbe", "BLPE", "FBE")
  BY Zenon DEF Goes, Abstract!Edge, Modes
<1>9. Goes("fbe_blpe", "FBE", "BLPE")
  BY Zenon DEF Goes, Abstract!Edge, Modes
<1>10. Goes("fbe_fei", "FBE", "FEI")
  BY Zenon DEF Goes, Abstract!Edge, Modes
<1>11. Goes("fei_fbe", "FEI", "FBE")
  BY Zenon DEF Goes, Abstract!Edge, Modes
<1>12. Goes("fbe_fee", "FBE", "FEE")
  BY Zenon DEF Goes, Abstract!Edge, Modes
<1>13. Goes("fee_fbe", "FEE", "FBE")
  BY Zenon DEF Goes, Abstract!Edge, Modes
<1>14. Goes("fbe_fbi", "FBE", "FBI")
  BY Zenon DEF Goes, Abstract!Edge, Modes
<1>15. Goes("fbi_fbe", "FBI", "FBE")
  BY Zenon DEF Goes, Abstract!Edge, Modes
<1>16. Goes("fbi_blpi", "FBI", "BLPI")
  BY Zenon DEF Goes, Abstract!Edge, Modes
<1>17. Goes("blpi_fbi", "BLPI", "FBI")
  BY Zenon DEF Goes, Abstract!Edge, Modes
<1>18. Goes("fbi_fee", "FBI", "FEE")
  BY Zenon DEF Goes, Abstract!Edge, Modes
<1>19. Goes("fee_fbi", "FEE", "FBI")
  BY Zenon DEF Goes, Abstract!Edge, Modes
<1>20. Goes("fbi_fei", "FBI", "FEI")
  BY Zenon DEF Goes, Abstract!Edge, Modes
<1>21. Goes("fei_fbi", "FEI", "FBI")
  BY Zenon DEF Goes, Abstract!Edge, Modes
<1>22. Goes("fei_fee", "FEI", "FEE")
  BY Zenon DEF Goes, Abstract!Edge, Modes
<1>23. Goes("fee_fei", "FEE", "FEI")
  BY Zenon DEF Goes, Abstract!Edge, Modes
<1>24. Goes("fei_fee_rtc", "FEI", "FEE")
  BY Zenon DEF Goes, Abstract!Edge, Modes
<1>25. Goes("fee_fei_rtc", "FEE", "FEI")
  BY Zenon DEF Goes, Abstract!Edge, Modes
<1>. QED
  BY <1>1, <1>2, <1>3, <1>4, <1>5, <1>6, <1>7, <1>8, <1>9, <1>10, <1>11, <1>12, <1>13, <1>14, <1>15, <1>16, <1>17, <1>18, <1>19, <1>20, <1>21, <1>22, <1>23, <1>24, <1>25

\* What is known of the board: the clocks are no slower than an error code, the references not confused.
Clocked ==
  /\ board \in Board
  /\ board.xtal >= FirstFrequency /\ board.slow >= FirstFrequency
  /\ board.slow < 3000000 /\ board.fast > 39063

\* The state a caller finds: if the hardware is in time everything has settled.
Ready ==
  /\ Clocked /\ mcg \in Regs /\ st \in Status /\ ret \in Int
  /\ board.timely /\ Idle => Good(mcg) /\ st = SettledBits(mcg)

\* A call of f in mode m that ends with the registers q and returns r has done what its prototype says.
Delivers(f, m, r, q) ==
  \/ f = "clk_monitor_0" /\ InMode(m, q)
  \/ \E m2 \in Modes :
       /\ Goes(f, m, m2)
       /\ \/ r >= FirstFrequency /\ r = Hz(q) /\ InMode(m2, q)
          \/ r < FirstFrequency /\ (InMode(m, q) \/ (f = "fei_fee_rtc" /\ InMode("FEE", q)))

\* A call that is refused returns an error code; one that is accepted will deliver.
Kept(f, err, steps, r) ==
  /\ f \in DOMAIN Abstract!Edge \cup {"clk_monitor_0"} /\ err \in Verdict
  /\ err = 0 => steps \in Seq(Steps) /\ r \in Int
  /\ err # 0 => f \in DOMAIN Abstract!Edge
  /\ err = 0 /\ board.timely =>
       \E q : /\ Leads(steps, mcg, SettledBits(mcg), q, SettledBits(q)) /\ Good(q)
              /\ Delivers(f, what_mcg_mode, r, q)

Accepted == \E f, err, steps, r : Call(f, err, steps, r) /\ Kept(f, err, steps, r)

\* The verdict on a call of a function that starts from m.
Judged(err, m) == err \in Verdict /\ (err = 0 => what_mcg_mode = m)

\* A call that goes from m to m2 keeps its promise if its steps reach m2 and it returns the frequency.
LEMMA Fulfils ==
  ASSUME Ready, NEW f, NEW err, NEW steps, NEW r, NEW m, NEW m2, NEW q,
         Goes(f, m, m2), Judged(err, m), err = 0 => steps \in Seq(Steps) /\ r \in Int,
         err = 0 /\ Good(mcg) /\ InMode(m, mcg) =>
           Reaches(steps, m2, q) /\ r >= FirstFrequency /\ r = Hz(q),
         Call(f, err, steps, r)
  PROVE  Accepted
<1>1. f \in DOMAIN Abstract!Edge /\ m \in Modes /\ m2 \in Modes
  BY DEF Goes
<1>2. ASSUME err = 0, board.timely
      PROVE  /\ Leads(steps, mcg, SettledBits(mcg), q, SettledBits(q)) /\ Good(q)
             /\ Delivers(f, what_mcg_mode, r, q)
  <2>1. Good(mcg) /\ st = SettledBits(mcg) /\ what_mcg_mode = m
    BY <1>2 DEF Ready, Judged, Call
  <2>2. InMode(m, mcg)
    BY <2>1, <1>1, ModeIs, Zenon
  <2>3. Reaches(steps, m2, q) /\ r >= FirstFrequency /\ r = Hz(q)
    BY <1>2, <2>1, <2>2
  <2>4. Delivers(f, m, r, q)
    BY <1>1, <2>3, Zenon DEF Delivers, Reaches
  <2>. QED
    BY <2>1, <2>3, <2>4, Zenon DEF Reaches
<1>3. Kept(f, err, steps, r)
  BY <1>1, <1>2, Zenon DEF Kept, Judged
<1>. QED
  BY <1>3, Zenon DEF Accepted

\* The same for a call that finds the FLL frequency out of range after it has begun.
LEMMA FulfilsLate ==
  ASSUME Ready, NEW f, NEW err, NEW steps, NEW r, NEW m, NEW m2, NEW q,
         Goes(f, m, m2), Judged(err, m), err = 0 => steps \in Seq(Steps) /\ r \in Int,
         err = 0 /\ Good(mcg) /\ InMode(m, mcg) =>
           /\ r < FirstFrequency
           /\ Reaches(steps, m, q) \/ (f = "fei_fee_rtc" /\ Reaches(steps, "FEE", q)),
         Call(f, err, steps, r)
  PROVE  Accepted
<1>1. f \in DOMAIN Abstract!Edge /\ m \in Modes /\ m2 \in Modes
  BY DEF Goes
<1>2. ASSUME err = 0, board.timely
      PROVE  /\ Leads(steps, mcg, SettledBits(mcg), q, SettledBits(q)) /\ Good(q)
             /\ Delivers(f, what_mcg_mode, r, q)
  <2>1. Good(mcg) /\ st = SettledBits(mcg) /\ what_mcg_mode = m
    BY <1>2 DEF Ready, Judged, Call
  <2>2. InMode(m, mcg)
    BY <2>1, <1>1, ModeIs, Zenon
  <2>3. /\ r < FirstFrequency
        /\ Reaches(steps, m, q) \/ (f = "fei_fee_rtc" /\ Reaches(steps, "FEE", q))
    BY <1>2, <2>1, <2>2
  <2>4. Delivers(f, m, r, q)
    BY <1>1, <2>3, Zenon DEF Delivers, Reaches
  <2>. QED
    BY <2>1, <2>3, <2>4, Zenon DEF Reaches
<1>3. Kept(f, err, steps, r)
  BY <1>1, <1>2, Zenon DEF Kept, Judged
<1>. QED
  BY <1>3, Zenon DEF Accepted

\* Every check that follows the check of the mode leaves its verdict.
LEMMA JudgedThen ==
  ASSUME NEW m, NEW e1, NEW e2, Judged(e1, m), e2 \in Verdict
  PROVE  Judged(Then(e1, e2), m) /\ (Then(e1, e2) = 0 => e2 = 0)
  BY ThenIs, Zenon DEF Judged

\* The check of the mode is a verdict.
LEMMA JudgedMode ==
  /\ Judged(WrongMode("FEI"), "FEI") /\ Judged(WrongMode("FEE"), "FEE") /\ Judged(WrongMode("FBI"), "FBI")
  /\ Judged(WrongMode("FBE"), "FBE") /\ Judged(WrongMode("BLPI"), "BLPI") /\ Judged(WrongMode("BLPE"), "BLPE")
  /\ Judged(WrongMode("PBE"), "PBE") /\ Judged(WrongMode("PEE"), "PEE")
  BY WrongModeIs, Zenon DEF Judged

\* The frequency of the FLL with the external reference in force.
LEMMA FeeHz ==
  ASSUME board \in Board, NEW q, Good(q), InMode("FEE", q), q.oscsel = 0
  PROVE  /\ Hz(q) = FllFactor(board) * (board.xtal \div (IF q.range = 0 THEN Pow2(q.frdiv) ELSE 32 * Pow2(q.frdiv)))
         /\ q.range = RangeFor(board.xtal) /\ q.frdiv = FrdivFor(board.xtal) /\ board.xtal <= FastestClock
<1>1. q.irefs = 0
  BY SMT DEF InMode
<1>. QED
  BY <1>1, HzOf, Zenon DEF Good

\* Only FEE uses the RTC.
LEMMA OscselOf ==
  ASSUME NEW q, Good(q), NEW m, InMode(m, q), m # "FEE"
  PROVE  q.oscsel = 0
  BY SMT DEF Good, InMode, Regs, Bit

\* The dividers are powers of two.
LEMMA Pow2Type ==
  ASSUME NEW n
  PROVE  Pow2(n) \in {1, 2, 4, 8, 16, 32, 64, 128}
<1>. DEFINE P == {1, 2, 4, 8, 16, 32, 64, 128}
<1>1. 1 \in P /\ 2 \in P /\ 4 \in P /\ 8 \in P /\ 16 \in P /\ 32 \in P /\ 64 \in P /\ 128 \in P
  BY SMT
<1>. HIDE DEF P
<1>2. Pow2(n) \in P
  BY <1>1, SMT DEF Pow2
<1>. QED
  BY <1>2 DEF P

\* The frequency of the FLL with the slow internal reference.
LEMMA SlowFll ==
  ASSUME board \in Board
  PROVE  LET e == Then(SlowIrcCheck(board.slow), FllCheck(board.slow))
         IN /\ e \in Verdict /\ fll_freq(board.slow) \in Int
            /\ e = 0 => fll_freq(board.slow) >= FirstFrequency
                        /\ fll_freq(board.slow) = FllFactor(board) * board.slow
<1>1. board.slow \in Nat /\ board.slow \in Int
  BY SMT DEF Board
<1>2. SlowIrcCheck(board.slow) \in Verdict
  BY <1>1, SMT DEF SlowIrcCheck, Verdict, FirstFrequency
<1>3. /\ FllCheck(board.slow) \in Verdict /\ fll_freq(board.slow) \in Int
      /\ FllCheck(board.slow) = 0 => /\ fll_freq(board.slow) = board.slow * FllFactor(board)
                                     /\ fll_freq(board.slow) >= FirstFrequency
  BY <1>1, FllChecks, Zenon
<1>4. board.slow * FllFactor(board) = FllFactor(board) * board.slow
  BY <1>1, FllFactorType, SMT
<1>. QED
  BY <1>2, <1>3, <1>4, ThenIs, Zenon

\* A caller names one of the internal references.
Reference(f, irc_select) == f \in {board.slow, board.fast} /\ irc_select \in Bit

\* The frequency of an internal reference.
LEMMA IrcHzIs ==
  ASSUME Clocked, NEW f, NEW irc_select, Reference(f, irc_select)
  PROVE  /\ IrcHz(f, irc_select) \in Int /\ IrcCheck(f, irc_select) \in Verdict
         /\ IrcCheck(f, irc_select) = 0 \/ f = (IF irc_select = 1 THEN board.fast ELSE board.slow)
              => /\ IrcHz(f, irc_select) >= FirstFrequency
                 /\ IrcHz(f, irc_select) = IF irc_select = 1 THEN board.fast \div Pow2(board.fcrdiv) ELSE board.slow
<1>. DEFINE d == Pow2(board.fcrdiv)
<1>1. /\ board.slow \in Nat /\ board.fast \in Nat /\ f \in Nat /\ f \in Int /\ irc_select \in {0, 1}
      /\ board.slow >= FirstFrequency
  BY SMT DEF Clocked, Board, Bit, Reference
<1>1a. board.slow < 3000000 /\ board.fast > 39063
  BY DEF Clocked
<1>2. d \in {1, 2, 4, 8, 16, 32, 64, 128}
  BY Pow2Type
<1>3. IrcHz(f, irc_select) = IF irc_select = 0 THEN f ELSE f \div d
  BY DEF IrcHz
<1>4. IrcCheck(f, irc_select) \in Verdict
  BY <1>1, SMT DEF IrcCheck, SlowIrcCheck, Verdict, FirstFrequency
<1>. HIDE DEF d
<1>5. board.fast \div d >= FirstFrequency /\ f \div d \in Int
  BY <1>1, <1>1a, <1>2, SMT DEF FirstFrequency
<1>6. IrcHz(f, irc_select) \in Int
  BY <1>1, <1>3, <1>5, SMT
<1>7. IrcCheck(f, irc_select) = 0 => f = IF irc_select = 1 THEN board.fast ELSE board.slow
  <2>1. (f = board.slow \/ f = board.fast) /\ (irc_select = 0 \/ irc_select = 1)
    BY <1>1, Zenon DEF Reference
  <2>2. ASSUME IrcCheck(f, irc_select) = 0, irc_select = 0 PROVE f = board.slow
    <3>1. f <= 39063
      BY <1>1, <2>2, SMT DEF IrcCheck, SlowIrcCheck
    <3>2. f # board.fast
      BY <1>1, <1>1a, <3>1, SMT
    <3>. QED
      BY <2>1, <3>2
  <2>3. ASSUME IrcCheck(f, irc_select) = 0, irc_select = 1 PROVE f = board.fast
    <3>1. f >= 3000000
      BY <1>1, <2>3, SMT DEF IrcCheck, SlowIrcCheck
    <3>2. f # board.slow
      BY <1>1, <1>1a, <3>1, SMT
    <3>. QED
      BY <2>1, <3>2
  <2>4. 0 # 1
    BY SMT
  <2>. QED
    BY <2>1, <2>2, <2>3, <2>4, Zenon
<1>8. irc_select = 0 \/ irc_select = 1
  BY <1>1, Zenon
<1>9. 0 # 1
  BY SMT
<1>. QED
  BY <1>1, <1>3, <1>4, <1>5, <1>6, <1>7, <1>8, <1>9, Zenon DEF d

\* The frequency of the PLL.
LEMMA PllHz ==
  ASSUME board \in Board, NEW q, Good(q), InMode("PEE", q)
  PROVE  LET hz == (board.xtal \div (q.prdiv0 + 1)) * (q.vdiv0 + 24)
         IN hz = Hz(q) /\ hz \in Int /\ hz >= FirstFrequency
<1>. DEFINE x == board.xtal \div (q.prdiv0 + 1)  y == q.vdiv0 + 24
<1>1. q \in Regs /\ q.plls = 1
  BY SMT DEF Good, InMode
<1>2. x \in Int /\ x >= FirstFrequency /\ y \in Int /\ y >= 1
  BY <1>1, SMT DEF Good, Regs, Board
<1>3. Hz(q) = x * y
  BY HzOf, Zenon
<1>. HIDE DEF x, y
<1>4. x * y \in Int /\ x * y >= FirstFrequency
  <2>1. x * y >= x
    BY <1>2, Z3 DEF FirstFrequency
  <2>. QED
    BY <1>2, <2>1, SMT DEF FirstFrequency
<1>. QED
  BY <1>3, <1>4 DEF x, y

\* The reference of the FLL that fei_fee and fbi_fee compute.
LEMMA ExtRefType ==
  ASSUME board \in Board
  PROVE  LET div == IF RangeFor(board.xtal) > 0 THEN 32 * Pow2(FrdivFor(board.xtal)) ELSE Pow2(FrdivFor(board.xtal))
         IN /\ board.xtal \div div \in Int
            /\ div = IF RangeFor(board.xtal) = 0 THEN Pow2(FrdivFor(board.xtal)) ELSE 32 * Pow2(FrdivFor(board.xtal))
<1>. DEFINE g == Pow2(FrdivFor(board.xtal))
<1>1. g \in {1, 2, 4, 8, 16, 32, 64, 128}
  BY Pow2Type
<1>2. board.xtal \in Nat /\ RangeFor(board.xtal) \in {0, 1, 2}
  BY SMT DEF Board, RangeFor
<1>. HIDE DEF g
<1>3. g \in Int /\ g > 0 /\ 32 * g \in Int /\ 32 * g > 0
  BY <1>1, SMT
<1>4. RangeFor(board.xtal) > 0 <=> RangeFor(board.xtal) # 0
  BY <1>2, SMT
<1>5. board.xtal \div g \in Int /\ board.xtal \div (32 * g) \in Int
  BY <1>2, <1>3, SMT
<1>. QED
  BY <1>4, <1>5, Zenon DEF g

\* pee_pbe.
LEMMA pee_pbeKept ==
  ASSUME Ready, pee_pbe
  PROVE  Accepted
<1>. DEFINE w1 == [mcg EXCEPT !.clks = OrClks2(mcg.clks)]
            s == <<Write(w1), Poll("clkst", 2, \h1A)>>
            err == WrongMode("PEE")
            r == board.xtal
<1>1. Call("pee_pbe", err, s, r)
  BY Zenon DEF pee_pbe
<1>2. board \in Board /\ mcg \in Regs /\ Clocked
  BY DEF Ready, Clocked
<1>3. Goes("pee_pbe", "PEE", "PBE")
  BY Prototypes, Zenon
<1>4. Judged(err, "PEE")
  BY JudgedMode, Zenon
<1>5. err = 0 => s \in Seq(Steps) /\ r \in Int
  <2>1. r \in Int
    BY <1>2, SMT DEF Board
  <2>. QED
    BY <1>2, <2>1, PeePbeCourse, Zenon
<1>6. ASSUME err = 0, Good(mcg), InMode("PEE", mcg)
      PROVE  Reaches(s, "PBE", w1) /\ r >= FirstFrequency /\ r = Hz(w1)
  <2>1. Reaches(s, "PBE", w1)
    BY <1>2, <1>4, <1>6, PeePbeCourse, Zenon
  <2>2. Good(w1) /\ InMode("PBE", w1)
    BY <2>1 DEF Reaches
  <2>3. r = Hz(w1)
    BY <1>2, <2>2, HzOf, Zenon
  <2>4. r >= FirstFrequency
    BY <1>2 DEF Clocked
  <2>. QED
    BY <2>1, <2>3, <2>4
<1>. HIDE DEF w1, s, err, r
<1>. QED
  BY <1>1, <1>3, <1>4, <1>5, <1>6, Fulfils, Zenon

\* pbe_fbe.
LEMMA pbe_fbeKept ==
  ASSUME Ready, pbe_fbe
  PROVE  Accepted
<1>. DEFINE w1 == [mcg EXCEPT !.plls = 0]
            s == <<Write(w1), Poll("pllst", 0, \h15)>>
            err == WrongMode("PBE")
            r == board.xtal
<1>1. Call("pbe_fbe", err, s, r)
  BY Zenon DEF pbe_fbe
<1>2. board \in Board /\ mcg \in Regs /\ Clocked
  BY DEF Ready, Clocked
<1>3. Goes("pbe_fbe", "PBE", "FBE")
  BY Prototypes, Zenon
<1>4. Judged(err, "PBE")
  BY JudgedMode, Zenon
<1>5. err = 0 => s \in Seq(Steps) /\ r \in Int
  <2>1. r \in Int
    BY <1>2, SMT DEF Board
  <2>. QED
    BY <1>2, <2>1, PbeFbeCourse, Zenon
<1>6. ASSUME err = 0, Good(mcg), InMode("PBE", mcg)
      PROVE  Reaches(s, "FBE", w1) /\ r >= FirstFrequency /\ r = Hz(w1)
  <2>1. Reaches(s, "FBE", w1)
    BY <1>2, <1>4, <1>6, PbeFbeCourse, Zenon
  <2>2. Good(w1) /\ InMode("FBE", w1)
    BY <2>1 DEF Reaches
  <2>3. r = Hz(w1)
    BY <1>2, <2>2, HzOf, Zenon
  <2>4. r >= FirstFrequency
    BY <1>2 DEF Clocked
  <2>. QED
    BY <2>1, <2>3, <2>4
<1>. HIDE DEF w1, s, err, r
<1>. QED
  BY <1>1, <1>3, <1>4, <1>5, <1>6, Fulfils, Zenon

\* pbe_blpe.
LEMMA pbe_blpeKept ==
  ASSUME Ready, pbe_blpe
  PROVE  Accepted
<1>. DEFINE w1 == [mcg EXCEPT !.lp = 1]
            s == <<Write(w1)>>
            err == WrongMode("PBE")
            r == board.xtal
<1>1. Call("pbe_blpe", err, s, r)
  BY Zenon DEF pbe_blpe
<1>2. board \in Board /\ mcg \in Regs /\ Clocked
  BY DEF Ready, Clocked
<1>3. Goes("pbe_blpe", "PBE", "BLPE")
  BY Prototypes, Zenon
<1>4. Judged(err, "PBE")
  BY JudgedMode, Zenon
<1>5. err = 0 => s \in Seq(Steps) /\ r \in Int
  <2>1. r \in Int
    BY <1>2, SMT DEF Board
  <2>. QED
    BY <1>2, <2>1, PbeBlpeCourse, Zenon
<1>6. ASSUME err = 0, Good(mcg), InMode("PBE", mcg)
      PROVE  Reaches(s, "BLPE", w1) /\ r >= FirstFrequency /\ r = Hz(w1)
  <2>1. Reaches(s, "BLPE", w1)
    BY <1>2, <1>4, <1>6, PbeBlpeCourse, Zenon
  <2>2. Good(w1) /\ InMode("BLPE", w1)
    BY <2>1 DEF Reaches
  <2>3. r = Hz(w1)
    BY <1>2, <2>2, HzOf, Zenon
  <2>4. r >= FirstFrequency
    BY <1>2 DEF Clocked
  <2>. QED
    BY <2>1, <2>3, <2>4
<1>. HIDE DEF w1, s, err, r
<1>. QED
  BY <1>1, <1>3, <1>4, <1>5, <1>6, Fulfils, Zenon

\* blpe_fbe.
LEMMA blpe_fbeKept ==
  ASSUME Ready, blpe_fbe
  PROVE  Accepted
<1>. DEFINE c6 == [mcg EXCEPT !.plls = 0]
            c9 == [c6 EXCEPT !.lp = 0]
            s == <<Write(c6), Write(c9), Poll("pllst", 0, \h15)>>
            err == WrongMode("BLPE")
            r == board.xtal
<1>1. Call("blpe_fbe", err, s, r)
  BY Zenon DEF blpe_fbe
<1>2. board \in Board /\ mcg \in Regs /\ Clocked
  BY DEF Ready, Clocked
<1>3. Goes("blpe_fbe", "BLPE", "FBE")
  BY Prototypes, Zenon
<1>4. Judged(err, "BLPE")
  BY JudgedMode, Zenon
<1>5. err = 0 => s \in Seq(Steps) /\ r \in Int
  <2>1. r \in Int
    BY <1>2, SMT DEF Board
  <2>. QED
    BY <1>2, <2>1, BlpeFbeCourse, Zenon
<1>6. ASSUME err = 0, Good(mcg), InMode("BLPE", mcg)
      PROVE  Reaches(s, "FBE", c9) /\ r >= FirstFrequency /\ r = Hz(c9)
  <2>1. Reaches(s, "FBE", c9)
    BY <1>2, <1>4, <1>6, BlpeFbeCourse, Zenon
  <2>2. Good(c9) /\ InMode("FBE", c9)
    BY <2>1 DEF Reaches
  <2>3. r = Hz(c9)
    BY <1>2, <2>2, HzOf, Zenon
  <2>4. r >= FirstFrequency
    BY <1>2 DEF Clocked
  <2>. QED
    BY <2>1, <2>3, <2>4
<1>. HIDE DEF c6, c9, s, err, r
<1>. QED
  BY <1>1, <1>3, <1>4, <1>5, <1>6, Fulfils, Zenon

\* fbe_blpe.
LEMMA fbe_blpeKept ==
  ASSUME Ready, fbe_blpe
  PROVE  Accepted
<1>. DEFINE w1 == [mcg EXCEPT !.lp = 1]
            s == <<Write(w1)>>
            err == WrongMode("FBE")
            r == board.xtal
<1>1. Call("fbe_blpe", err, s, r)
  BY Zenon DEF fbe_blpe
<1>2. board \in Board /\ mcg \in Regs /\ Clocked
  BY DEF Ready, Clocked
<1>3. Goes("fbe_blpe", "FBE", "BLPE")
  BY Prototypes, Zenon
<1>4. Judged(err, "FBE")
  BY JudgedMode, Zenon
<1>5. err = 0 => s \in Seq(Steps) /\ r \in Int
  <2>1. r \in Int
    BY <1>2, SMT DEF Board
  <2>. QED
    BY <1>2, <2>1, FbeBlpeCourse, Zenon
<1>6. ASSUME err = 0, Good(mcg), InMode("FBE", mcg)
      PROVE  Reaches(s, "BLPE", w1) /\ r >= FirstFrequency /\ r = Hz(w1)
  <2>1. Reaches(s, "BLPE", w1)
    BY <1>2, <1>4, <1>6, FbeBlpeCourse, Zenon
  <2>2. Good(w1) /\ InMode("BLPE", w1)
    BY <2>1 DEF Reaches
  <2>3. r = Hz(w1)
    BY <1>2, <2>2, HzOf, Zenon
  <2>4. r >= FirstFrequency
    BY <1>2 DEF Clocked
  <2>. QED
    BY <2>1, <2>3, <2>4
<1>. HIDE DEF w1, s, err, r
<1>. QED
  BY <1>1, <1>3, <1>4, <1>5, <1>6, Fulfils, Zenon

\* fbe_fei.
LEMMA fbe_feiKept ==
  ASSUME Ready, fbe_fei
  PROVE  Accepted
<1>. DEFINE w1 == [mcg EXCEPT !.cme0 = 0]
            w2 == [w1 EXCEPT !.clks = 0, !.irefs = 1]
            s == <<Write(w1), Write(w2), Poll("irefst", 1, \h12), Poll("clkst", 0, \h18)>>
            err == Then(WrongMode("FBE"), Then(SlowIrcCheck(board.slow), FllCheck(board.slow)))
            r == fll_freq(board.slow)
<1>1. Call("fbe_fei", err, s, r)
  BY Zenon DEF fbe_fei
<1>2. board \in Board /\ mcg \in Regs /\ Clocked
  BY DEF Ready, Clocked
<1>3. Goes("fbe_fei", "FBE", "FEI")
  BY Prototypes, Zenon
<1>4. Judged(err, "FBE") /\ (err = 0 => Then(SlowIrcCheck(board.slow), FllCheck(board.slow)) = 0)
  <2>1. Then(SlowIrcCheck(board.slow), FllCheck(board.slow)) \in Verdict
    BY <1>2, SlowFll, Zenon
  <2>2. Judged(WrongMode("FBE"), "FBE")
    BY JudgedMode
  <2>. QED
    BY <2>1, <2>2, Zenon DEF Judged, Then
<1>5. err = 0 => s \in Seq(Steps) /\ r \in Int
  <2>1. r \in Int
    BY <1>2, SlowFll, Zenon
  <2>. QED
    BY <1>2, <2>1, FbeFeiCourse, Zenon
<1>6. ASSUME err = 0, Good(mcg), InMode("FBE", mcg)
      PROVE  Reaches(s, "FEI", w2) /\ r >= FirstFrequency /\ r = Hz(w2)
  <2>1. Reaches(s, "FEI", w2)
    BY <1>2, <1>4, <1>6, FbeFeiCourse, Zenon
  <2>2. Good(w2) /\ InMode("FEI", w2)
    BY <2>1 DEF Reaches
  <2>3. r >= FirstFrequency /\ r = FllFactor(board) * board.slow
    BY <1>2, <1>4, <1>6, SlowFll, Zenon
  <2>4. r = Hz(w2)
    BY <1>2, <2>2, <2>3, HzOf, Zenon
  <2>. QED
    BY <2>1, <2>3, <2>4
<1>. HIDE DEF w1, w2, s, err, r
<1>. QED
  BY <1>1, <1>3, <1>4, <1>5, <1>6, Fulfils, Zenon

\* fbi_fei.
LEMMA fbi_feiKept ==
  ASSUME Ready, fbi_fei
  PROVE  Accepted
<1>. DEFINE w1 == [mcg EXCEPT !.clks = 0, !.irefs = 1]
            s == <<Write(w1), Poll("irefst", 1, \h12), Poll("clkst", 0, \h18)>>
            err == Then(WrongMode("FBI"), Then(SlowIrcCheck(board.slow), FllCheck(board.slow)))
            r == fll_freq(board.slow)
<1>1. Call("fbi_fei", err, s, r)
  BY Zenon DEF fbi_fei
<1>2. board \in Board /\ mcg \in Regs /\ Clocked
  BY DEF Ready, Clocked
<1>3. Goes("fbi_fei", "FBI", "FEI")
  BY Prototypes, Zenon
<1>4. Judged(err, "FBI") /\ (err = 0 => Then(SlowIrcCheck(board.slow), FllCheck(board.slow)) = 0)
  <2>1. Then(SlowIrcCheck(board.slow), FllCheck(board.slow)) \in Verdict
    BY <1>2, SlowFll, Zenon
  <2>2. Judged(WrongMode("FBI"), "FBI")
    BY JudgedMode
  <2>. QED
    BY <2>1, <2>2, Zenon DEF Judged, Then
<1>5. err = 0 => s \in Seq(Steps) /\ r \in Int
  <2>1. r \in Int
    BY <1>2, SlowFll, Zenon
  <2>. QED
    BY <1>2, <2>1, FbiFeiCourse, Zenon
<1>6. ASSUME err = 0, Good(mcg), InMode("FBI", mcg)
      PROVE  Reaches(s, "FEI", w1) /\ r >= FirstFrequency /\ r = Hz(w1)
  <2>1. Reaches(s, "FEI", w1)
    BY <1>2, <1>4, <1>6, FbiFeiCourse, Zenon
  <2>2. Good(w1) /\ InMode("FEI", w1)
    BY <2>1 DEF Reaches
  <2>3. r >= FirstFrequency /\ r = FllFactor(board) * board.slow
    BY <1>2, <1>4, <1>6, SlowFll, Zenon
  <2>4. r = Hz(w1)
    BY <1>2, <2>2, <2>3, HzOf, Zenon
  <2>. QED
    BY <2>1, <2>3, <2>4
<1>. HIDE DEF w1, s, err, r
<1>. QED
  BY <1>1, <1>3, <1>4, <1>5, <1>6, Fulfils, Zenon

\* pbe_pee.
LEMMA pbe_peeKept ==
  ASSUME Ready, pbe_pee
  PROVE  Accepted
<1>. DEFINE w1 == [mcg EXCEPT !.clks = 0]
            s == <<Poll("lock0", 1, \h44), Write(w1), Poll("clkst", 3, \h1B)>>
            err == WrongMode("PBE")
            r == (board.xtal \div (mcg.prdiv0 + 1)) * (mcg.vdiv0 + 24)
<1>1. Call("pbe_pee", err, s, r)
  BY Zenon DEF pbe_pee
<1>2. board \in Board /\ mcg \in Regs /\ Clocked
  BY DEF Ready, Clocked
<1>3. Goes("pbe_pee", "PBE", "PEE")
  BY Prototypes, Zenon
<1>4. Judged(err, "PBE")
  BY JudgedMode, Zenon
<1>5. err = 0 => s \in Seq(Steps) /\ r \in Int
  <2>1. r \in Int
    <3>1. board.xtal \div (mcg.prdiv0 + 1) \in Int /\ mcg.vdiv0 + 24 \in Int
      BY <1>2, SMT DEF Board, Regs
    <3>. QED
      BY <3>1, SMT
  <2>. QED
    BY <1>2, <2>1, PbePeeCourse, Zenon
<1>6. ASSUME err = 0, Good(mcg), InMode("PBE", mcg)
      PROVE  Reaches(s, "PEE", w1) /\ r >= FirstFrequency /\ r = Hz(w1)
  <2>1. Reaches(s, "PEE", w1)
    BY <1>2, <1>4, <1>6, PbePeeCourse, Zenon
  <2>2. Good(w1) /\ InMode("PEE", w1)
    BY <2>1 DEF Reaches
  <2>0a. w1.prdiv0 = mcg.prdiv0 /\ w1.vdiv0 = mcg.vdiv0 /\ DOMAIN w1 = DOMAIN mcg
    BY <1>2, Zenon DEF Regs
  <2>3. r = Hz(w1) /\ r >= FirstFrequency
    BY <1>2, <2>2, <2>0a, PllHz, Zenon
  <2>. QED
    BY <2>1, <2>3
<1>. HIDE DEF w1, s, err, r
<1>. QED
  BY <1>1, <1>3, <1>4, <1>5, <1>6, Fulfils, Zenon

\* fei_fbe.
LEMMA fei_fbeKept ==
  ASSUME Ready, fei_fbe
  PROVE  Accepted
<1>. DEFINE c2 == ExtC2
            c1 == ExtC1(2)
            cm == [ExtC1(2) EXCEPT !.cme0 = 1]
            s == <<Write(c2), Write(c1)>> \o PollExt \o <<Poll("clkst", 2, \h1A), Write(cm)>>
            err == Then(WrongMode("FEI"), ExtCheck)
            r == board.xtal
<1>1. Call("fei_fbe", err, s, r)
  BY Zenon DEF fei_fbe, ToFbe
<1>2. board \in Board /\ mcg \in Regs /\ Clocked
  BY DEF Ready, Clocked
<1>3. Goes("fei_fbe", "FEI", "FBE")
  BY Prototypes, Zenon
<1>4. Judged(err, "FEI") /\ (err = 0 => board.xtal <= FastestClock)
  <2>1. ExtCheck \in Verdict
    BY <1>2, ExtChecks, Zenon
  <2>2. Judged(WrongMode("FEI"), "FEI")
    BY JudgedMode
  <2>3. Judged(err, "FEI") /\ (err = 0 => ExtCheck = 0)
    BY <2>1, <2>2, Zenon DEF Judged, Then
  <2>4. ExtCheck = 0 => board.xtal <= FastestClock
    BY <1>2, ExtChecks, Zenon
  <2>. QED
    BY <2>3, <2>4
<1>5. err = 0 => s \in Seq(Steps) /\ r \in Int
  <2>1. r \in Int
    BY <1>2, SMT DEF Board
  <2>. QED
    BY <1>2, <2>1, FeiFbeCourse, Zenon
<1>6. ASSUME err = 0, Good(mcg), InMode("FEI", mcg)
      PROVE  Reaches(s, "FBE", cm) /\ r >= FirstFrequency /\ r = Hz(cm)
  <2>1. Reaches(s, "FBE", cm)
    BY <1>2, <1>4, <1>6, FeiFbeCourse, Zenon
  <2>2. Good(cm) /\ InMode("FBE", cm)
    BY <2>1 DEF Reaches
  <2>3. r = Hz(cm)
    BY <1>2, <2>2, HzOf, Zenon
  <2>4. r >= FirstFrequency
    BY <1>2 DEF Clocked
  <2>. QED
    BY <2>1, <2>3, <2>4
<1>. HIDE DEF c2, c1, cm, s, err, r
<1>. QED
  BY <1>1, <1>3, <1>4, <1>5, <1>6, Fulfils, Zenon

\* fbi_fbe.
LEMMA fbi_fbeKept ==
  ASSUME Ready, fbi_fbe
  PROVE  Accepted
<1>. DEFINE c2 == ExtC2
            c1 == ExtC1(2)
            cm == [ExtC1(2) EXCEPT !.cme0 = 1]
            s == <<Write(c2), Write(c1)>> \o PollExt \o <<Poll("clkst", 2, \h1A), Write(cm)>>
            err == Then(WrongMode("FBI"), ExtCheck)
            r == board.xtal
<1>1. Call("fbi_fbe", err, s, r)
  BY Zenon DEF fbi_fbe, ToFbe
<1>2. board \in Board /\ mcg \in Regs /\ Clocked
  BY DEF Ready, Clocked
<1>3. Goes("fbi_fbe", "FBI", "FBE")
  BY Prototypes, Zenon
<1>4. Judged(err, "FBI") /\ (err = 0 => board.xtal <= FastestClock)
  <2>1. ExtCheck \in Verdict
    BY <1>2, ExtChecks, Zenon
  <2>2. Judged(WrongMode("FBI"), "FBI")
    BY JudgedMode
  <2>3. Judged(err, "FBI") /\ (err = 0 => ExtCheck = 0)
    BY <2>1, <2>2, Zenon DEF Judged, Then
  <2>4. ExtCheck = 0 => board.xtal <= FastestClock
    BY <1>2, ExtChecks, Zenon
  <2>. QED
    BY <2>3, <2>4
<1>5. err = 0 => s \in Seq(Steps) /\ r \in Int
  <2>1. r \in Int
    BY <1>2, SMT DEF Board
  <2>. QED
    BY <1>2, <2>1, FbiFbeCourse, Zenon
<1>6. ASSUME err = 0, Good(mcg), InMode("FBI", mcg)
      PROVE  Reaches(s, "FBE", cm) /\ r >= FirstFrequency /\ r = Hz(cm)
  <2>1. Reaches(s, "FBE", cm)
    BY <1>2, <1>4, <1>6, FbiFbeCourse, Zenon
  <2>2. Good(cm) /\ InMode("FBE", cm)
    BY <2>1 DEF Reaches
  <2>3. r = Hz(cm)
    BY <1>2, <2>2, HzOf, Zenon
  <2>4. r >= FirstFrequency
    BY <1>2 DEF Clocked
  <2>. QED
    BY <2>1, <2>3, <2>4
<1>. HIDE DEF c2, c1, cm, s, err, r
<1>. QED
  BY <1>1, <1>3, <1>4, <1>5, <1>6, Fulfils, Zenon

\* fee_fbe.
LEMMA fee_fbeKept ==
  ASSUME Ready, mcg.oscsel = 0, fee_fbe
  PROVE  Accepted
<1>. DEFINE w1 == [mcg EXCEPT !.clks = OrClks2(mcg.clks)]
            s == <<Write(w1), Poll("clkst", 2, \h1A)>>
            err == WrongMode("FEE")
            r == board.xtal
<1>1. Call("fee_fbe", err, s, r)
  BY Zenon DEF fee_fbe
<1>2. board \in Board /\ mcg \in Regs /\ Clocked
  BY DEF Ready, Clocked
<1>3. Goes("fee_fbe", "FEE", "FBE")
  BY Prototypes, Zenon
<1>4. Judged(err, "FEE")
  BY JudgedMode, Zenon
<1>5. err = 0 => s \in Seq(Steps) /\ r \in Int
  <2>1. r \in Int
    BY <1>2, SMT DEF Board
  <2>. QED
    BY <1>2, <2>1, FeeFbeCourse, Zenon
<1>6. ASSUME err = 0, Good(mcg), InMode("FEE", mcg)
      PROVE  Reaches(s, "FBE", w1) /\ r >= FirstFrequency /\ r = Hz(w1)
  <2>1. Reaches(s, "FBE", w1)
    BY <1>2, <1>4, <1>6, FeeFbeCourse, Zenon
  <2>2. Good(w1) /\ InMode("FBE", w1)
    BY <2>1 DEF Reaches
  <2>3. r = Hz(w1)
    BY <1>2, <2>2, HzOf, Zenon
  <2>4. r >= FirstFrequency
    BY <1>2 DEF Clocked
  <2>. QED
    BY <2>1, <2>3, <2>4
<1>. HIDE DEF w1, s, err, r
<1>. QED
  BY <1>1, <1>3, <1>4, <1>5, <1>6, Fulfils, Zenon

\* fee_fei.
LEMMA fee_feiKept ==
  ASSUME Ready, mcg.oscsel = 0, fee_fei
  PROVE  Accepted
<1>. DEFINE c6 == [mcg EXCEPT !.cme0 = 0]
            c1 == [c6 EXCEPT !.irefs = 1]
            s == <<Write(c6), Write(c1), Poll("irefst", 1, \h12)>>
            err == Then(WrongMode("FEE"), Then(SlowIrcCheck(board.slow), FllCheck(board.slow)))
            r == fll_freq(board.slow)
<1>1. Call("fee_fei", err, s, r)
  BY Zenon DEF fee_fei
<1>2. board \in Board /\ mcg \in Regs /\ Clocked
  BY DEF Ready, Clocked
<1>3. Goes("fee_fei", "FEE", "FEI")
  BY Prototypes, Zenon
<1>4. Judged(err, "FEE") /\ (err = 0 => Then(SlowIrcCheck(board.slow), FllCheck(board.slow)) = 0)
  <2>1. Then(SlowIrcCheck(board.slow), FllCheck(board.slow)) \in Verdict
    BY <1>2, SlowFll, Zenon
  <2>2. Judged(WrongMode("FEE"), "FEE")
    BY JudgedMode
  <2>. QED
    BY <2>1, <2>2, Zenon DEF Judged, Then
<1>5. err = 0 => s \in Seq(Steps) /\ r \in Int
  <2>1. r \in Int
    BY <1>2, SlowFll, Zenon
  <2>. QED
    BY <1>2, <2>1, FeeFeiCourse, Zenon
<1>6. ASSUME err = 0, Good(mcg), InMode("FEE", mcg)
      PROVE  Reaches(s, "FEI", c1) /\ r >= FirstFrequency /\ r = Hz(c1)
  <2>1. Reaches(s, "FEI", c1)
    BY <1>2, <1>4, <1>6, FeeFeiCourse, Zenon
  <2>2. Good(c1) /\ InMode("FEI", c1)
    BY <2>1 DEF Reaches
  <2>3. r >= FirstFrequency /\ r = FllFactor(board) * board.slow
    BY <1>2, <1>4, <1>6, SlowFll, Zenon
  <2>4. r = Hz(c1)
    BY <1>2, <2>2, <2>3, HzOf, Zenon
  <2>. QED
    BY <2>1, <2>3, <2>4
<1>. HIDE DEF c6, c1, s, err, r
<1>. QED
  BY <1>1, <1>3, <1>4, <1>5, <1>6, Fulfils, Zenon

\* fee_fei_rtc.
LEMMA fee_fei_rtcKept ==
  ASSUME Ready, mcg.oscsel = 1, fee_fei_rtc
  PROVE  Accepted
<1>. DEFINE c8 == [mcg EXCEPT !.cme1 = 0]
            c1 == [c8 EXCEPT !.irefs = 1]
            c7 == [c1 EXCEPT !.oscsel = 0]
            s == <<Write(c8), Write(c1), Poll("irefst", 1, \h12), Write(c7)>>
            err == Then(WrongMode("FEE"), Then(SlowIrcCheck(board.slow), FllCheck(board.slow)))
            r == fll_freq(board.slow)
<1>1. Call("fee_fei_rtc", err, s, r)
  BY Zenon DEF fee_fei_rtc
<1>2. board \in Board /\ mcg \in Regs /\ Clocked
  BY DEF Ready, Clocked
<1>3. Goes("fee_fei_rtc", "FEE", "FEI")
  BY Prototypes, Zenon
<1>4. Judged(err, "FEE") /\ (err = 0 => Then(SlowIrcCheck(board.slow), FllCheck(board.slow)) = 0)
  <2>1. Then(SlowIrcCheck(board.slow), FllCheck(board.slow)) \in Verdict
    BY <1>2, SlowFll, Zenon
  <2>2. Judged(WrongMode("FEE"), "FEE")
    BY JudgedMode
  <2>. QED
    BY <2>1, <2>2, Zenon DEF Judged, Then
<1>5. err = 0 => s \in Seq(Steps) /\ r \in Int
  <2>1. r \in Int
    BY <1>2, SlowFll, Zenon
  <2>. QED
    BY <1>2, <2>1, FeeFeiRtcCourse, Zenon
<1>6. ASSUME err = 0, Good(mcg), InMode("FEE", mcg)
      PROVE  Reaches(s, "FEI", c7) /\ r >= FirstFrequency /\ r = Hz(c7)
  <2>1. Reaches(s, "FEI", c7)
    BY <1>2, <1>4, <1>6, FeeFeiRtcCourse, Zenon
  <2>2. Good(c7) /\ InMode("FEI", c7)
    BY <2>1 DEF Reaches
  <2>3. r >= FirstFrequency /\ r = FllFactor(board) * board.slow
    BY <1>2, <1>4, <1>6, SlowFll, Zenon
  <2>4. r = Hz(c7)
    BY <1>2, <2>2, <2>3, HzOf, Zenon
  <2>. QED
    BY <2>1, <2>3, <2>4
<1>. HIDE DEF c8, c1, c7, s, err, r
<1>. QED
  BY <1>1, <1>3, <1>4, <1>5, <1>6, Fulfils, Zenon

\* fbe_pbe.
LEMMA fbe_pbeKept ==
  ASSUME Ready, NEW p, NEW v, p \in Int, v \in Int, fbe_pbe(p, v)
  PROVE  Accepted
<1>. DEFINE c5 == PllC5(mcg, p)
            c6 == PllC6(mcg, p, v)
            s == <<Write(c5), Write(c6)>> \o PollPll
            err == Then(WrongMode("FBE"), PllCheck(p, v))
            r == board.xtal
<1>1. Call("fbe_pbe", err, s, r)
  BY Zenon DEF fbe_pbe
<1>2. board \in Board /\ mcg \in Regs /\ Clocked
  BY DEF Ready, Clocked
<1>3. Goes("fbe_pbe", "FBE", "PBE")
  BY Prototypes, Zenon
<1>4. Judged(err, "FBE") /\ (err = 0 => Dividers(p, v) /\ board.xtal \div p >= FirstFrequency /\ PllRangeFor(board.xtal) = RangeFor(board.xtal))
  <2>1. PllCheck(p, v) \in Verdict
    BY <1>2, PllChecks, Zenon
  <2>2. Judged(WrongMode("FBE"), "FBE")
    BY JudgedMode
  <2>3. Judged(err, "FBE") /\ (err = 0 => PllCheck(p, v) = 0)
    BY <2>1, <2>2, Zenon DEF Judged, Then
  <2>4. PllCheck(p, v) = 0 => Dividers(p, v) /\ board.xtal \div p >= FirstFrequency /\ PllRangeFor(board.xtal) = RangeFor(board.xtal)
    BY <1>2, PllChecks, Zenon
  <2>. QED
    BY <2>3, <2>4
<1>5. err = 0 => s \in Seq(Steps) /\ r \in Int
  <2>1. r \in Int
    BY <1>2, SMT DEF Board
  <2>. QED
    BY <1>2, <1>4, <2>1, FbePbeCourse, Zenon
<1>6. ASSUME err = 0, Good(mcg), InMode("FBE", mcg)
      PROVE  Reaches(s, "PBE", c6) /\ r >= FirstFrequency /\ r = Hz(c6)
  <2>1. Reaches(s, "PBE", c6)
    BY <1>2, <1>4, <1>6, FbePbeCourse, Zenon
  <2>2. Good(c6) /\ InMode("PBE", c6)
    BY <2>1 DEF Reaches
  <2>3. r = Hz(c6)
    BY <1>2, <2>2, HzOf, Zenon
  <2>4. r >= FirstFrequency
    BY <1>2 DEF Clocked
  <2>. QED
    BY <2>1, <2>3, <2>4
<1>. HIDE DEF c5, c6, s, err, r
<1>. QED
  BY <1>1, <1>3, <1>4, <1>5, <1>6, Fulfils, Zenon

\* blpe_pbe.
LEMMA blpe_pbeKept ==
  ASSUME Ready, NEW p, NEW v, p \in Int, v \in Int, blpe_pbe(p, v)
  PROVE  Accepted
<1>. DEFINE c5 == PllC5(mcg, p)
            c6 == PllC6(mcg, p, v)
            c9 == [c6 EXCEPT !.lp = 0]
            s == <<Write(c5), Write(c6), Write(c9)>> \o PollPll
            err == Then(WrongMode("BLPE"), PllRefCheck(p, v))
            r == board.xtal
<1>1. Call("blpe_pbe", err, s, r)
  BY Zenon DEF blpe_pbe
<1>2. board \in Board /\ mcg \in Regs /\ Clocked
  BY DEF Ready, Clocked
<1>3. Goes("blpe_pbe", "BLPE", "PBE")
  BY Prototypes, Zenon
<1>4. Judged(err, "BLPE") /\ (err = 0 => Dividers(p, v) /\ board.xtal \div p >= FirstFrequency /\ PllRangeFor(board.xtal) = RangeFor(board.xtal))
  <2>1. PllRefCheck(p, v) \in Verdict
    BY <1>2, PllChecks, Zenon
  <2>2. Judged(WrongMode("BLPE"), "BLPE")
    BY JudgedMode
  <2>3. Judged(err, "BLPE") /\ (err = 0 => PllRefCheck(p, v) = 0)
    BY <2>1, <2>2, Zenon DEF Judged, Then
  <2>4. PllRefCheck(p, v) = 0 => Dividers(p, v) /\ board.xtal \div p >= FirstFrequency /\ PllRangeFor(board.xtal) = RangeFor(board.xtal)
    BY <1>2, PllChecks, Zenon
  <2>. QED
    BY <2>3, <2>4
<1>5. err = 0 => s \in Seq(Steps) /\ r \in Int
  <2>1. r \in Int
    BY <1>2, SMT DEF Board
  <2>. QED
    BY <1>2, <1>4, <2>1, BlpePbeCourse, Zenon
<1>6. ASSUME err = 0, Good(mcg), InMode("BLPE", mcg)
      PROVE  Reaches(s, "PBE", c9) /\ r >= FirstFrequency /\ r = Hz(c9)
  <2>1. Reaches(s, "PBE", c9)
    BY <1>2, <1>4, <1>6, BlpePbeCourse, Zenon
  <2>2. Good(c9) /\ InMode("PBE", c9)
    BY <2>1 DEF Reaches
  <2>3. r = Hz(c9)
    BY <1>2, <2>2, HzOf, Zenon
  <2>4. r >= FirstFrequency
    BY <1>2 DEF Clocked
  <2>. QED
    BY <2>1, <2>3, <2>4
<1>. HIDE DEF c5, c6, c9, s, err, r
<1>. QED
  BY <1>1, <1>3, <1>4, <1>5, <1>6, Fulfils, Zenon

\* fbe_fbi.
LEMMA fbe_fbiKept ==
  ASSUME Ready, NEW f, NEW irc_select, Reference(f, irc_select), fbe_fbi(f, irc_select)
  PROVE  Accepted
<1>. DEFINE c2 == [mcg EXCEPT !.ircs = irc_select]
            c6 == [c2 EXCEPT !.cme0 = 0]
            c1 == [c6 EXCEPT !.clks = 1, !.irefs = 1]
            s == <<Write(c2), Write(c6), Write(c1), PollIrc(irc_select), Poll("clkst", 1, \h19), Poll("irefst", 1, \h12)>>
            err == Then(WrongMode("FBE"), IrcCheck(f, irc_select))
            r == IrcHz(f, irc_select)
<1>1. Call("fbe_fbi", err, s, r)
  BY Zenon DEF fbe_fbi
<1>2. board \in Board /\ mcg \in Regs /\ Clocked
  BY DEF Ready, Clocked
<1>3. Goes("fbe_fbi", "FBE", "FBI")
  BY Prototypes, Zenon
<1>2b. irc_select \in Bit
  BY DEF Reference
<1>4. Judged(err, "FBE") /\ (err = 0 => IrcCheck(f, irc_select) = 0)
  <2>1. IrcCheck(f, irc_select) \in Verdict
    BY <1>2, IrcHzIs, Zenon
  <2>2. Judged(WrongMode("FBE"), "FBE")
    BY JudgedMode
  <2>. QED
    BY <2>1, <2>2, Zenon DEF Judged, Then
<1>5. err = 0 => s \in Seq(Steps) /\ r \in Int
  <2>1. r \in Int
    BY <1>2, IrcHzIs, Zenon
  <2>. QED
    BY <1>2, <1>2b, <2>1, FbeFbiCourse, Zenon
<1>6. ASSUME err = 0, Good(mcg), InMode("FBE", mcg)
      PROVE  Reaches(s, "FBI", c1) /\ r >= FirstFrequency /\ r = Hz(c1)
  <2>1. Reaches(s, "FBI", c1)
    BY <1>2, <1>2b, <1>4, <1>6, FbeFbiCourse, Zenon
  <2>2. Good(c1) /\ InMode("FBI", c1)
    BY <2>1 DEF Reaches
  <2>0a. c2.ircs = irc_select /\ DOMAIN c2 = DOMAIN mcg
    BY <1>2, Zenon DEF Regs
  <2>0b. c6.ircs = c2.ircs /\ DOMAIN c6 = DOMAIN mcg
    BY <1>2, <2>0a, Zenon DEF Regs
  <2>0c. c1.ircs = c6.ircs /\ DOMAIN c1 = DOMAIN mcg
    BY <1>2, <2>0a, <2>0b, Zenon DEF Regs
  <2>3. r >= FirstFrequency /\ r = IF irc_select = 1 THEN board.fast \div Pow2(board.fcrdiv) ELSE board.slow
    BY <1>2, <1>4, <1>6, IrcHzIs, Zenon
  <2>4. r = Hz(c1)
    BY <1>2, <2>2, <2>3, <2>0a, <2>0b, <2>0c, HzOf, Zenon
  <2>. QED
    BY <2>1, <2>3, <2>4
<1>. HIDE DEF c2, c6, c1, s, err, r
<1>. QED
  BY <1>1, <1>3, <1>4, <1>5, <1>6, Fulfils, Zenon

\* fee_fbi.
LEMMA fee_fbiKept ==
  ASSUME Ready, mcg.oscsel = 0, NEW f, NEW irc_select, Reference(f, irc_select), fee_fbi(f, irc_select)
  PROVE  Accepted
<1>. DEFINE c2 == [mcg EXCEPT !.ircs = irc_select]
            c6 == [c2 EXCEPT !.cme0 = 0]
            c1 == [c6 EXCEPT !.clks = OrClks1(c6.clks), !.irefs = 1]
            s == <<Write(c2), Write(c6), Write(c1), PollIrc(irc_select), Poll("clkst", 1, \h19), Poll("irefst", 1, \h12)>>
            err == Then(WrongMode("FEE"), IrcCheck(f, irc_select))
            r == IrcHz(f, irc_select)
<1>1. Call("fee_fbi", err, s, r)
  BY Zenon DEF fee_fbi
<1>2. board \in Board /\ mcg \in Regs /\ Clocked
  BY DEF Ready, Clocked
<1>3. Goes("fee_fbi", "FEE", "FBI")
  BY Prototypes, Zenon
<1>2b. irc_select \in Bit
  BY DEF Reference
<1>4. Judged(err, "FEE") /\ (err = 0 => IrcCheck(f, irc_select) = 0)
  <2>1. IrcCheck(f, irc_select) \in Verdict
    BY <1>2, IrcHzIs, Zenon
  <2>2. Judged(WrongMode("FEE"), "FEE")
    BY JudgedMode
  <2>. QED
    BY <2>1, <2>2, Zenon DEF Judged, Then
<1>5. err = 0 => s \in Seq(Steps) /\ r \in Int
  <2>1. r \in Int
    BY <1>2, IrcHzIs, Zenon
  <2>. QED
    BY <1>2, <1>2b, <2>1, FeeFbiCourse, Zenon
<1>6. ASSUME err = 0, Good(mcg), InMode("FEE", mcg)
      PROVE  Reaches(s, "FBI", c1) /\ r >= FirstFrequency /\ r = Hz(c1)
  <2>1. Reaches(s, "FBI", c1)
    BY <1>2, <1>2b, <1>4, <1>6, FeeFbiCourse, Zenon
  <2>2. Good(c1) /\ InMode("FBI", c1)
    BY <2>1 DEF Reaches
  <2>0a. c2.ircs = irc_select /\ DOMAIN c2 = DOMAIN mcg
    BY <1>2, Zenon DEF Regs
  <2>0b. c6.ircs = c2.ircs /\ DOMAIN c6 = DOMAIN mcg
    BY <1>2, <2>0a, Zenon DEF Regs
  <2>0c. c1.ircs = c6.ircs /\ DOMAIN c1 = DOMAIN mcg
    BY <1>2, <2>0a, <2>0b, Zenon DEF Regs
  <2>3. r >= FirstFrequency /\ r = IF irc_select = 1 THEN board.fast \div Pow2(board.fcrdiv) ELSE board.slow
    BY <1>2, <1>4, <1>6, IrcHzIs, Zenon
  <2>4. r = Hz(c1)
    BY <1>2, <2>2, <2>3, <2>0a, <2>0b, <2>0c, HzOf, Zenon
  <2>. QED
    BY <2>1, <2>3, <2>4
<1>. HIDE DEF c2, c6, c1, s, err, r
<1>. QED
  BY <1>1, <1>3, <1>4, <1>5, <1>6, Fulfils, Zenon

\* fei_fbi.
LEMMA fei_fbiKept ==
  ASSUME Ready, NEW f, NEW irc_select, Reference(f, irc_select), fei_fbi(f, irc_select)
  PROVE  Accepted
<1>. DEFINE c2 == [mcg EXCEPT !.ircs = irc_select]
            c1 == [c2 EXCEPT !.clks = 1]
            s == <<Write(c2), Write(c1), PollIrc(irc_select), Poll("clkst", 1, \h19)>>
            err == Then(WrongMode("FEI"), IrcCheck(f, irc_select))
            r == IrcHz(f, irc_select)
<1>1. Call("fei_fbi", err, s, r)
  BY Zenon DEF fei_fbi
<1>2. board \in Board /\ mcg \in Regs /\ Clocked
  BY DEF Ready, Clocked
<1>3. Goes("fei_fbi", "FEI", "FBI")
  BY Prototypes, Zenon
<1>2b. irc_select \in Bit
  BY DEF Reference
<1>4. Judged(err, "FEI") /\ (err = 0 => IrcCheck(f, irc_select) = 0)
  <2>1. IrcCheck(f, irc_select) \in Verdict
    BY <1>2, IrcHzIs, Zenon
  <2>2. Judged(WrongMode("FEI"), "FEI")
    BY JudgedMode
  <2>. QED
    BY <2>1, <2>2, Zenon DEF Judged, Then
<1>5. err = 0 => s \in Seq(Steps) /\ r \in Int
  <2>1. r \in Int
    BY <1>2, IrcHzIs, Zenon
  <2>. QED
    BY <1>2, <1>2b, <2>1, FeiFbiCourse, Zenon
<1>6. ASSUME err = 0, Good(mcg), InMode("FEI", mcg)
      PROVE  Reaches(s, "FBI", c1) /\ r >= FirstFrequency /\ r = Hz(c1)
  <2>1. Reaches(s, "FBI", c1)
    BY <1>2, <1>2b, <1>4, <1>6, FeiFbiCourse, Zenon
  <2>2. Good(c1) /\ InMode("FBI", c1)
    BY <2>1 DEF Reaches
  <2>0a. c2.ircs = irc_select /\ DOMAIN c2 = DOMAIN mcg
    BY <1>2, Zenon DEF Regs
  <2>0b. c1.ircs = c2.ircs /\ DOMAIN c1 = DOMAIN mcg
    BY <1>2, <2>0a, Zenon DEF Regs
  <2>3. r >= FirstFrequency /\ r = IF irc_select = 1 THEN board.fast \div Pow2(board.fcrdiv) ELSE board.slow
    BY <1>2, <1>4, <1>6, IrcHzIs, Zenon
  <2>4. r = Hz(c1)
    BY <1>2, <2>2, <2>3, <2>0a, <2>0b, HzOf, Zenon
  <2>. QED
    BY <2>1, <2>3, <2>4
<1>. HIDE DEF c2, c1, s, err, r
<1>. QED
  BY <1>1, <1>3, <1>4, <1>5, <1>6, Fulfils, Zenon

\* fbi_blpi.
LEMMA fbi_blpiKept ==
  ASSUME Ready, NEW f, NEW irc_select, Reference(f, irc_select), irc_select = mcg.ircs,
         f = (IF irc_select = 1 THEN board.fast ELSE board.slow), fbi_blpi(f, irc_select)
  PROVE  Accepted
<1>. DEFINE w1 == [mcg EXCEPT !.lp = 1]
            s == <<Write(w1)>>
            err == WrongMode("FBI")
            r == IrcHz(f, irc_select)
<1>1. Call("fbi_blpi", err, s, r)
  BY Zenon DEF fbi_blpi
<1>2. board \in Board /\ mcg \in Regs /\ Clocked
  BY DEF Ready, Clocked
<1>3. Goes("fbi_blpi", "FBI", "BLPI")
  BY Prototypes, Zenon
<1>2b. irc_select \in Bit
  BY DEF Reference
<1>4. Judged(err, "FBI")
  BY JudgedMode, Zenon
<1>5. err = 0 => s \in Seq(Steps) /\ r \in Int
  <2>1. r \in Int
    BY <1>2, IrcHzIs, Zenon
  <2>. QED
    BY <1>2, <1>2b, <2>1, FbiBlpiCourse, Zenon
<1>6. ASSUME err = 0, Good(mcg), InMode("FBI", mcg)
      PROVE  Reaches(s, "BLPI", w1) /\ r >= FirstFrequency /\ r = Hz(w1)
  <2>1. Reaches(s, "BLPI", w1)
    BY <1>2, <1>2b, <1>4, <1>6, FbiBlpiCourse, Zenon
  <2>2. Good(w1) /\ InMode("BLPI", w1)
    BY <2>1 DEF Reaches
  <2>0a. w1.ircs = mcg.ircs /\ DOMAIN w1 = DOMAIN mcg
    BY <1>2, Zenon DEF Regs
  <2>3. r >= FirstFrequency /\ r = IF irc_select = 1 THEN board.fast \div Pow2(board.fcrdiv) ELSE board.slow
    BY <1>2, IrcHzIs, Zenon
  <2>4. r = Hz(w1)
    BY <1>2, <2>2, <2>3, <2>0a, HzOf, Zenon
  <2>. QED
    BY <2>1, <2>3, <2>4
<1>. HIDE DEF w1, s, err, r
<1>. QED
  BY <1>1, <1>3, <1>4, <1>5, <1>6, Fulfils, Zenon

\* blpi_fbi.
LEMMA blpi_fbiKept ==
  ASSUME Ready, NEW f, NEW irc_select, Reference(f, irc_select), irc_select = mcg.ircs,
         f = (IF irc_select = 1 THEN board.fast ELSE board.slow), blpi_fbi(f, irc_select)
  PROVE  Accepted
<1>. DEFINE w1 == [mcg EXCEPT !.lp = 0]
            s == <<Write(w1)>>
            err == WrongMode("BLPI")
            r == IrcHz(f, irc_select)
<1>1. Call("blpi_fbi", err, s, r)
  BY Zenon DEF blpi_fbi
<1>2. board \in Board /\ mcg \in Regs /\ Clocked
  BY DEF Ready, Clocked
<1>3. Goes("blpi_fbi", "BLPI", "FBI")
  BY Prototypes, Zenon
<1>2b. irc_select \in Bit
  BY DEF Reference
<1>4. Judged(err, "BLPI")
  BY JudgedMode, Zenon
<1>5. err = 0 => s \in Seq(Steps) /\ r \in Int
  <2>1. r \in Int
    BY <1>2, IrcHzIs, Zenon
  <2>. QED
    BY <1>2, <1>2b, <2>1, BlpiFbiCourse, Zenon
<1>6. ASSUME err = 0, Good(mcg), InMode("BLPI", mcg)
      PROVE  Reaches(s, "FBI", w1) /\ r >= FirstFrequency /\ r = Hz(w1)
  <2>1. Reaches(s, "FBI", w1)
    BY <1>2, <1>2b, <1>4, <1>6, BlpiFbiCourse, Zenon
  <2>2. Good(w1) /\ InMode("FBI", w1)
    BY <2>1 DEF Reaches
  <2>0a. w1.ircs = mcg.ircs /\ DOMAIN w1 = DOMAIN mcg
    BY <1>2, Zenon DEF Regs
  <2>3. r >= FirstFrequency /\ r = IF irc_select = 1 THEN board.fast \div Pow2(board.fcrdiv) ELSE board.slow
    BY <1>2, IrcHzIs, Zenon
  <2>4. r = Hz(w1)
    BY <1>2, <2>2, <2>3, <2>0a, HzOf, Zenon
  <2>. QED
    BY <2>1, <2>3, <2>4
<1>. HIDE DEF w1, s, err, r
<1>. QED
  BY <1>1, <1>3, <1>4, <1>5, <1>6, Fulfils, Zenon

\* fbe_fee: the reference computed as a short is the reference of the FLL, for a reference beyond the
\* range of a short is refused.
FitsUnsigned(x) == x \in Int /\ 0 <= x /\ x < 65536

\* What a short holds of an unsigned of 16 bits: the same if it is positive.
LEMMA ShortRef ==
  ASSUME NEW x, FitsUnsigned(x)
  PROVE  Short(x) \in Int /\ (Short(x) > 0 => Short(x) = x) /\ x \in Int
<1>1. x \in Int /\ x >= 0 /\ x < 65536
  BY SMT DEF FitsUnsigned
<1>2. CASE x < 32768
  <2>1. (x + 32768) % 65536 = x + 32768
    BY <1>1, <1>2, Z3
  <2>. QED
    BY <1>1, <2>1, SMT DEF Short
<1>3. CASE x >= 32768
  <2>1. (x + 32768) % 65536 = x - 32768
    BY <1>1, <1>3, Z3
  <2>. QED
    BY <1>1, <2>1, SMT DEF Short
<1>. QED
  BY <1>1, <1>2, <1>3, SMT

\* A natural number below the range is in it.
LEMMA FitsBelow ==
  ASSUME NEW q \in Nat, ~(q >= 65536)
  PROVE  FitsUnsigned(q)
BY SMT DEF FitsUnsigned

\* A product grows with its factor.
LEMMA TimesMonotone ==
  ASSUME NEW a \in Nat, NEW b \in Nat, NEW n \in Nat, a <= b
  PROVE  n * a <= n * b
<1>1. n * (b - a) >= 0
  <2>. DEFINE d == b - a
  <2>1. d \in Nat
    BY SMT
  <2>. HIDE DEF d
  <2>2. n * d \in Nat
    BY <2>1, SMT
  <2>3. n * d >= 0
    BY <2>2, SMT
  <2>. QED
    BY <2>3, SMT DEF d
<1>2. n * (b - a) = n * b - n * a
  BY SMT
<1>3. n * a \in Int /\ n * b \in Int
  BY SMT
<1>. QED
  BY <1>1, <1>2, <1>3, SMT

\* A quotient by a large divider.
LEMMA FitsQuotient ==
  ASSUME NEW x \in Nat, NEW n \in Nat, n > 0, x < 65536 * n
  PROVE  FitsUnsigned(x \div n)
<1>. DEFINE q == x \div n  r == x % n
<1>1. q \in Nat /\ r \in Nat /\ x = n * q + r
  BY Z3
<1>2. q \in Nat
  BY <1>1, SMT
<1>. HIDE DEF q, r
<1>3. ASSUME q >= 65536 PROVE FALSE
  <2>1. n * 65536 <= n * q
    BY <1>2, <1>3, TimesMonotone, SMT
  <2>. QED
    BY <1>1, <2>1, SMT
<1>4. ~(q >= 65536)
  BY <1>3, SMT
<1>5. FitsUnsigned(q)
  BY <1>2, <1>4, FitsBelow, SMT
<1>. QED
  BY <1>5, SMT DEF q

\* The powers of two that the dividers stand for.
LEMMA Pow2Values ==
  Pow2(0) = 1 /\ Pow2(1) = 2 /\ Pow2(2) = 4 /\ Pow2(3) = 8 /\ Pow2(4) = 16 /\ Pow2(5) = 32
<1>1. /\ 0 # 1 /\ 0 # 2 /\ 0 # 3 /\ 0 # 4 /\ 0 # 5 /\ 0 # 6
      /\ 1 # 0 /\ 1 # 2 /\ 1 # 3 /\ 1 # 4 /\ 1 # 5 /\ 1 # 6
      /\ 2 # 0 /\ 2 # 1 /\ 2 # 3 /\ 2 # 4 /\ 2 # 5 /\ 2 # 6
      /\ 3 # 0 /\ 3 # 1 /\ 3 # 2 /\ 3 # 4 /\ 3 # 5 /\ 3 # 6
      /\ 4 # 0 /\ 4 # 1 /\ 4 # 2 /\ 4 # 3 /\ 4 # 5 /\ 4 # 6
      /\ 5 # 0 /\ 5 # 1 /\ 5 # 2 /\ 5 # 3 /\ 5 # 4 /\ 5 # 6
  BY SMT
<1>2. Pow2(0) = 1
  BY <1>1, Zenon DEF Pow2
<1>3. Pow2(1) = 2
  BY <1>1, Zenon DEF Pow2
<1>4. Pow2(2) = 4
  BY <1>1, Zenon DEF Pow2
<1>5. Pow2(3) = 8
  BY <1>1, Zenon DEF Pow2
<1>6. Pow2(4) = 16
  BY <1>1, Zenon DEF Pow2
<1>7. Pow2(5) = 32
  BY <1>1, Zenon DEF Pow2
<1>. QED
  BY <1>2, <1>3, <1>4, <1>5, <1>6, <1>7

\* The divider that the frequency of the external clock asks for brings it below 50 kHz.
LEMMA FrdivFits ==
  ASSUME NEW x, x \in Nat, x <= FastestClock, RangeFor(x) # 0
  PROVE  FitsUnsigned(x \div (32 * Pow2(FrdivFor(x))))
<1>. DEFINE g == Pow2(FrdivFor(x))
<1>1. Pow2(0) = 1 /\ Pow2(1) = 2 /\ Pow2(2) = 4 /\ Pow2(3) = 8 /\ Pow2(4) = 16 /\ Pow2(5) = 32
  BY Pow2Values
<1>2. CASE x <= 1250000
  <2>1. FrdivFor(x) = 0
    BY <1>2, SMT DEF FrdivFor
  <2>2. g = 1
    BY <1>1, <2>1
  <2>. HIDE DEF g
  <2>3. 32 * g \in Nat /\ 32 * g > 0 /\ x < 65536 * (32 * g)
    BY <1>2, <2>2, SMT
  <2>4. FitsUnsigned(x \div (32 * g))
    BY <2>3, FitsQuotient, SMT
  <2>. QED
    BY <2>4 DEF g
<1>3. CASE x > 1250000 /\ x <= 2500000
  <2>1. FrdivFor(x) = 1
    BY <1>3, SMT DEF FrdivFor
  <2>2. g = 2
    BY <1>1, <2>1
  <2>. HIDE DEF g
  <2>3. 32 * g \in Nat /\ 32 * g > 0 /\ x < 65536 * (32 * g)
    BY <1>3, <2>2, SMT
  <2>4. FitsUnsigned(x \div (32 * g))
    BY <2>3, FitsQuotient, SMT
  <2>. QED
    BY <2>4 DEF g
<1>4. CASE x > 2500000 /\ x <= 5000000
  <2>1. FrdivFor(x) = 2
    BY <1>4, SMT DEF FrdivFor
  <2>2. g = 4
    BY <1>1, <2>1
  <2>. HIDE DEF g
  <2>3. 32 * g \in Nat /\ 32 * g > 0 /\ x < 65536 * (32 * g)
    BY <1>4, <2>2, SMT
  <2>4. FitsUnsigned(x \div (32 * g))
    BY <2>3, FitsQuotient, SMT
  <2>. QED
    BY <2>4 DEF g
<1>5. CASE x > 5000000 /\ x <= 10000000
  <2>1. FrdivFor(x) = 3
    BY <1>5, SMT DEF FrdivFor
  <2>2. g = 8
    BY <1>1, <2>1
  <2>. HIDE DEF g
  <2>3. 32 * g \in Nat /\ 32 * g > 0 /\ x < 65536 * (32 * g)
    BY <1>5, <2>2, SMT
  <2>4. FitsUnsigned(x \div (32 * g))
    BY <2>3, FitsQuotient, SMT
  <2>. QED
    BY <2>4 DEF g
<1>6. CASE x > 10000000 /\ x <= 20000000
  <2>1. FrdivFor(x) = 4
    BY <1>6, SMT DEF FrdivFor
  <2>2. g = 16
    BY <1>1, <2>1
  <2>. HIDE DEF g
  <2>3. 32 * g \in Nat /\ 32 * g > 0 /\ x < 65536 * (32 * g)
    BY <1>6, <2>2, SMT
  <2>4. FitsUnsigned(x \div (32 * g))
    BY <2>3, FitsQuotient, SMT
  <2>. QED
    BY <2>4 DEF g
<1>7. CASE x > 20000000
  <2>1. FrdivFor(x) = 5
    BY <1>7, SMT DEF FrdivFor
  <2>2. g = 32
    BY <1>1, <2>1
  <2>. HIDE DEF g
  <2>3. 32 * g \in Nat /\ 32 * g > 0 /\ x < 65536 * (32 * g)
    BY <1>7, <2>2, SMT DEF FastestClock
  <2>4. FitsUnsigned(x \div (32 * g))
    BY <2>3, FitsQuotient, SMT
  <2>. QED
    BY <2>4 DEF g
<1>. QED
  BY <1>2, <1>3, <1>4, <1>5, <1>6, <1>7, SMT

FbeFeeReference ==
  IF mcg.range > 0 THEN board.xtal \div (32 * Pow2(mcg.frdiv)) ELSE board.xtal \div Pow2(mcg.range)

ReferenceOf(q) == board.xtal \div (IF q.range = 0 THEN Pow2(q.frdiv) ELSE 32 * Pow2(q.frdiv))

\* The reference that fbe_fee computes is the one the registers select, or is refused.
LEMMA FbeFeeRef ==
  ASSUME board \in Board, mcg \in Regs
  PROVE  /\ Short(FbeFeeReference) \in Int
         /\ mcg.range = RangeFor(board.xtal) /\ mcg.frdiv = FrdivFor(board.xtal) /\ board.xtal <= FastestClock
              => FitsUnsigned(FbeFeeReference) /\ FbeFeeReference = ReferenceOf(mcg)
<1>. DEFINE x == board.xtal  g == Pow2(mcg.frdiv)  h == Pow2(mcg.range)
<1>1. g \in {1, 2, 4, 8, 16, 32, 64, 128} /\ h \in {1, 2, 4, 8, 16, 32, 64, 128}
  BY Pow2Type
<1>2. x \in Nat /\ mcg.range \in 0..3
  BY SMT DEF Board, Regs
<1>3. Pow2(0) = 1
  BY Pow2Values
<1>3a. mcg.range > 0 <=> mcg.range # 0
  BY <1>2, SMT
<1>4. ASSUME mcg.range = RangeFor(x), mcg.frdiv = FrdivFor(x), x <= FastestClock
      PROVE  FitsUnsigned(FbeFeeReference) /\ FbeFeeReference = ReferenceOf(mcg)
  <2>1. CASE RangeFor(x) = 0
    <3>1. mcg.range = 0 /\ mcg.frdiv = 0 /\ x <= 40000
      BY <1>2, <1>4, <2>1, SMT DEF RangeFor, FrdivFor
    <3>2. g = 1 /\ h = 1
      BY <1>3, <3>1
    <3>3. FbeFeeReference = x \div h /\ ReferenceOf(mcg) = x \div g
      BY <1>3a, <3>1 DEF FbeFeeReference, ReferenceOf
    <3>. HIDE DEF g, h, x
    <3>4. x \div 1 = x /\ FitsUnsigned(x)
      BY <1>2, <3>1, SMT DEF FitsUnsigned
    <3>. QED
      BY <3>2, <3>3, <3>4, Zenon
  <2>2. CASE RangeFor(x) # 0
    <3>1. mcg.range > 0 /\ mcg.range # 0
      BY <1>3a, <1>4, <2>2
    <3>2. FbeFeeReference = x \div (32 * g) /\ ReferenceOf(mcg) = x \div (32 * g)
      BY <3>1 DEF FbeFeeReference, ReferenceOf
    <3>3. FitsUnsigned(x \div (32 * g))
      BY <1>2, <1>4, <2>2, FrdivFits, Zenon
    <3>. QED
      BY <3>2, <3>3
  <2>. QED
    BY <2>1, <2>2
<1>5. FbeFeeReference = IF mcg.range > 0 THEN x \div (32 * g) ELSE x \div h
  BY DEF FbeFeeReference
<1>. HIDE DEF g, h
<1>6. FbeFeeReference \in Int
  BY <1>1, <1>2, <1>5, SMT
<1>7. Short(FbeFeeReference) \in Int
  BY <1>6, SMT DEF Short
<1>. QED
  BY <1>4, <1>7

\* fbe_fee.
LEMMA fbe_feeKept ==
  ASSUME Ready, fbe_fee
  PROVE  Accepted
<1>. DEFINE w1 == [mcg EXCEPT !.clks = 0]
            s == <<Write(w1), Poll("clkst", 0, \h18)>>
            ref == FbeFeeReference
            err == Then(WrongMode("FBE"), FllCheck(Short(ref)))
            r == fll_freq(Short(ref))
<1>1. Call("fbe_fee", err, s, r)
  BY Zenon DEF fbe_fee, FbeFeeReference
<1>2. board \in Board /\ mcg \in Regs /\ Clocked
  BY DEF Ready, Clocked
<1>3. Goes("fbe_fee", "FBE", "FEE")
  BY Prototypes, Zenon
<1>2a. /\ Short(ref) \in Int
       /\ mcg.range = RangeFor(board.xtal) /\ mcg.frdiv = FrdivFor(board.xtal) /\ board.xtal <= FastestClock
            => FitsUnsigned(ref) /\ ref = ReferenceOf(mcg)
  BY <1>2, FbeFeeRef
<1>. HIDE DEF ref
<1>2b. /\ FllCheck(Short(ref)) \in Verdict /\ fll_freq(Short(ref)) \in Int
       /\ FllCheck(Short(ref)) = 0 => /\ fll_freq(Short(ref)) = Short(ref) * FllFactor(board)
                                      /\ fll_freq(Short(ref)) >= FirstFrequency /\ Short(ref) > 0
  BY <1>2, <1>2a, FllChecks, Zenon
<1>4. Judged(err, "FBE") /\ (err = 0 => FllCheck(Short(ref)) = 0)
  <2>1. FllCheck(Short(ref)) \in Verdict
    BY <1>2b
  <2>2. Judged(WrongMode("FBE"), "FBE")
    BY JudgedMode
  <2>. QED
    BY <2>1, <2>2, Zenon DEF Judged, Then
<1>5. err = 0 => s \in Seq(Steps) /\ r \in Int
  BY <1>2, <1>2b, FbeFeeCourse, Zenon
<1>6. ASSUME err = 0, Good(mcg), InMode("FBE", mcg)
      PROVE  Reaches(s, "FEE", w1) /\ r >= FirstFrequency /\ r = Hz(w1)
  <2>1. Reaches(s, "FEE", w1)
    BY <1>2, <1>4, <1>6, FbeFeeCourse, Zenon
  <2>2. Good(w1) /\ InMode("FEE", w1)
    BY <2>1 DEF Reaches
  <2>3. w1.oscsel = mcg.oscsel /\ w1.range = mcg.range /\ w1.frdiv = mcg.frdiv
    BY <1>2, Zenon DEF Regs
  <2>4. w1.oscsel = 0
    BY <1>6, <2>3, OscselOf, Zenon
  <2>. DEFINE x == ReferenceOf(w1)
  <2>5. /\ Hz(w1) = FllFactor(board) * x
        /\ w1.range = RangeFor(board.xtal) /\ w1.frdiv = FrdivFor(board.xtal) /\ board.xtal <= FastestClock
    BY <1>2, <2>2, <2>4, FeeHz, Zenon DEF ReferenceOf
  <2>6. FitsUnsigned(ref) /\ ref = x
    <3>1. ReferenceOf(mcg) = x
      BY <2>3 DEF ReferenceOf
    <3>. QED
      BY <1>2a, <2>3, <2>5, <3>1, Zenon
  <2>. HIDE DEF x, s, w1
  <2>7. FllCheck(Short(ref)) = 0
    BY <1>4, <1>6
  <2>8. Short(ref) = ref
    BY <1>2b, <2>6, <2>7, ShortRef, Zenon
  <2>9. ref * FllFactor(board) = FllFactor(board) * x
    <3>1. ref \in Int /\ FllFactor(board) \in Nat
      BY <1>2, <2>6, ShortRef, FllFactorType, Zenon
    <3>. QED
      BY <2>6, <3>1, SMT
  <2>. QED
    BY <1>2b, <2>1, <2>5, <2>7, <2>8, <2>9, Zenon
<1>. HIDE DEF w1, s, err, r
<1>. QED
  BY <1>1, <1>3, <1>4, <1>5, <1>6, Fulfils, Zenon

\* fei_fee: the FLL frequency is looked at after C2 is written.
LEMMA fei_feeKept ==
  ASSUME Ready, fei_fee
  PROVE  Accepted
<1>. DEFINE c2 == ExtC2
            c1 == ExtC1(0)
            cm == [ExtC1(0) EXCEPT !.cme0 = 1]
            div == IF RangeFor(board.xtal) > 0 THEN 32 * Pow2(FrdivFor(board.xtal)) ELSE Pow2(FrdivFor(board.xtal))
            ref == board.xtal \div div
            more == <<Write(c1)>> \o PollExt \o <<>> \o <<Write(cm)>>
            rest == IF FllCheck(ref) # 0 THEN <<>> ELSE more
            s == <<Write(c2)>> \o rest
            err == Then(WrongMode("FEI"), ExtCheck)
            r == fll_freq(ref)
<1>1. Call("fei_fee", err, s, r)
  BY Zenon DEF fei_fee, ToFee
<1>2. board \in Board /\ mcg \in Regs /\ Clocked
  BY DEF Ready, Clocked
<1>3. Goes("fei_fee", "FEI", "FEE")
  BY Prototypes, Zenon
<1>2a. /\ ref \in Int
       /\ ref = board.xtal \div (IF RangeFor(board.xtal) = 0 THEN Pow2(FrdivFor(board.xtal))
                                 ELSE 32 * Pow2(FrdivFor(board.xtal)))
  BY <1>2, ExtRefType, Zenon
<1>. HIDE DEF ref
<1>2b. /\ r \in Int
       /\ FllCheck(ref) = 0 => r = ref * FllFactor(board) /\ r >= FirstFrequency
       /\ FllCheck(ref) # 0 => r < FirstFrequency
  BY <1>2, <1>2a, FllChecks, Zenon
<1>4. Judged(err, "FEI") /\ (err = 0 => board.xtal <= FastestClock)
  <2>1. ExtCheck \in Verdict
    BY <1>2, ExtChecks, Zenon
  <2>2. Judged(WrongMode("FEI"), "FEI")
    BY JudgedMode
  <2>3. Judged(err, "FEI") /\ (err = 0 => ExtCheck = 0)
    BY <2>1, <2>2, Zenon DEF Judged, Then
  <2>4. ExtCheck = 0 => board.xtal <= FastestClock
    BY <1>2, ExtChecks, Zenon
  <2>. QED
    BY <2>3, <2>4
<1>5. CASE FllCheck(ref) # 0
  <2>1. s = <<Write(c2)>> \o <<>>
    BY <1>5, Zenon
  <2>2. err = 0 => s \in Seq(Steps) /\ r \in Int
    BY <1>2, <1>2b, <2>1, FeiFeeRefused, Zenon
  <2>3. err = 0 /\ Good(mcg) /\ InMode("FEI", mcg)
          => r < FirstFrequency /\ (Reaches(s, "FEI", c2) \/ ("fei_fee" = "fei_fee_rtc" /\ Reaches(s, "FEE", c2)))
    <3>1. Good(mcg) /\ InMode("FEI", mcg) => Reaches(s, "FEI", c2)
      BY <1>2, <2>1, FeiFeeRefused, Zenon
    <3>2. r < FirstFrequency
      BY <1>2b, <1>5
    <3>. QED
      BY <3>1, <3>2
  <2>. HIDE DEF s, err, r, c2
  <2>. QED
    BY <1>1, <1>3, <1>4, <2>2, <2>3, FulfilsLate, Zenon
<1>6. CASE FllCheck(ref) = 0
  <2>1. s = <<Write(c2)>> \o more
    BY <1>6, Zenon
  <2>2. err = 0 => s \in Seq(Steps) /\ r \in Int
    BY <1>2, <1>2b, <2>1, FeiFeeCourse, Zenon
  <2>3. ASSUME err = 0, Good(mcg), InMode("FEI", mcg)
        PROVE  Reaches(s, "FEE", cm) /\ r >= FirstFrequency /\ r = Hz(cm)
    <3>1. Reaches(s, "FEE", cm)
      BY <1>2, <1>4, <2>1, <2>3, FeiFeeCourse, Zenon
    <3>2. Good(cm) /\ InMode("FEE", cm)
      BY <3>1 DEF Reaches
    <3>3. c2.oscsel = mcg.oscsel /\ DOMAIN c2 = DOMAIN mcg
      BY <1>2, Zenon DEF Regs, ExtC2
    <3>4. c1.oscsel = mcg.oscsel /\ DOMAIN c1 = DOMAIN mcg
      BY <1>2, <3>3, Zenon DEF Regs, ExtC1
    <3>5. cm.oscsel = mcg.oscsel
      BY <1>2, <3>4, Zenon DEF Regs
    <3>6. cm.oscsel = 0
      BY <2>3, <3>5, OscselOf, Zenon
    <3>. HIDE DEF s, c1, c2, cm
    <3>7. /\ Hz(cm) = FllFactor(board) * (board.xtal \div (IF cm.range = 0 THEN Pow2(cm.frdiv) ELSE 32 * Pow2(cm.frdiv)))
          /\ cm.range = RangeFor(board.xtal) /\ cm.frdiv = FrdivFor(board.xtal)
      BY <1>2, <3>2, <3>6, FeeHz, Zenon
    <3>8. Hz(cm) = FllFactor(board) * ref
      BY <1>2a, <3>7, Zenon
    <3>9. ref * FllFactor(board) = FllFactor(board) * ref
      <4>1. FllFactor(board) \in Nat
        BY <1>2, FllFactorType, Zenon
      <4>. QED
        BY <1>2a, <4>1, SMT
    <3>. QED
      BY <1>2b, <1>6, <3>1, <3>8, <3>9, Zenon
  <2>. HIDE DEF s, err, r, c2, cm
  <2>. QED
    BY <1>1, <1>3, <1>4, <2>2, <2>3, Fulfils, Zenon
<1>. QED
  BY <1>5, <1>6

\* fbi_fee: the FLL frequency is looked at after C2 is written.
LEMMA fbi_feeKept ==
  ASSUME Ready, fbi_fee
  PROVE  Accepted
<1>. DEFINE c2 == ExtC2
            c1 == ExtC1(0)
            cm == [ExtC1(0) EXCEPT !.cme0 = 1]
            div == IF RangeFor(board.xtal) > 0 THEN 32 * Pow2(FrdivFor(board.xtal)) ELSE Pow2(FrdivFor(board.xtal))
            ref == board.xtal \div div
            more == <<Write(c1)>> \o PollExt \o <<Poll("clkst", 0, \h18)>> \o <<Write(cm)>>
            rest == IF FllCheck(ref) # 0 THEN <<>> ELSE more
            s == <<Write(c2)>> \o rest
            err == Then(WrongMode("FBI"), ExtCheck)
            r == fll_freq(ref)
<1>1. Call("fbi_fee", err, s, r)
  BY Zenon DEF fbi_fee, ToFee
<1>2. board \in Board /\ mcg \in Regs /\ Clocked
  BY DEF Ready, Clocked
<1>3. Goes("fbi_fee", "FBI", "FEE")
  BY Prototypes, Zenon
<1>2a. /\ ref \in Int
       /\ ref = board.xtal \div (IF RangeFor(board.xtal) = 0 THEN Pow2(FrdivFor(board.xtal))
                                 ELSE 32 * Pow2(FrdivFor(board.xtal)))
  BY <1>2, ExtRefType, Zenon
<1>. HIDE DEF ref
<1>2b. /\ r \in Int
       /\ FllCheck(ref) = 0 => r = ref * FllFactor(board) /\ r >= FirstFrequency
       /\ FllCheck(ref) # 0 => r < FirstFrequency
  BY <1>2, <1>2a, FllChecks, Zenon
<1>4. Judged(err, "FBI") /\ (err = 0 => board.xtal <= FastestClock)
  <2>1. ExtCheck \in Verdict
    BY <1>2, ExtChecks, Zenon
  <2>2. Judged(WrongMode("FBI"), "FBI")
    BY JudgedMode
  <2>3. Judged(err, "FBI") /\ (err = 0 => ExtCheck = 0)
    BY <2>1, <2>2, Zenon DEF Judged, Then
  <2>4. ExtCheck = 0 => board.xtal <= FastestClock
    BY <1>2, ExtChecks, Zenon
  <2>. QED
    BY <2>3, <2>4
<1>5. CASE FllCheck(ref) # 0
  <2>1. s = <<Write(c2)>> \o <<>>
    BY <1>5, Zenon
  <2>2. err = 0 => s \in Seq(Steps) /\ r \in Int
    BY <1>2, <1>2b, <2>1, FbiFeeRefused, Zenon
  <2>3. err = 0 /\ Good(mcg) /\ InMode("FBI", mcg)
          => r < FirstFrequency /\ (Reaches(s, "FBI", c2) \/ ("fbi_fee" = "fei_fee_rtc" /\ Reaches(s, "FEE", c2)))
    <3>1. Good(mcg) /\ InMode("FBI", mcg) => Reaches(s, "FBI", c2)
      BY <1>2, <2>1, FbiFeeRefused, Zenon
    <3>2. r < FirstFrequency
      BY <1>2b, <1>5
    <3>. QED
      BY <3>1, <3>2
  <2>. HIDE DEF s, err, r, c2
  <2>. QED
    BY <1>1, <1>3, <1>4, <2>2, <2>3, FulfilsLate, Zenon
<1>6. CASE FllCheck(ref) = 0
  <2>1. s = <<Write(c2)>> \o more
    BY <1>6, Zenon
  <2>2. err = 0 => s \in Seq(Steps) /\ r \in Int
    BY <1>2, <1>2b, <2>1, FbiFeeCourse, Zenon
  <2>3. ASSUME err = 0, Good(mcg), InMode("FBI", mcg)
        PROVE  Reaches(s, "FEE", cm) /\ r >= FirstFrequency /\ r = Hz(cm)
    <3>1. Reaches(s, "FEE", cm)
      BY <1>2, <1>4, <2>1, <2>3, FbiFeeCourse, Zenon
    <3>2. Good(cm) /\ InMode("FEE", cm)
      BY <3>1 DEF Reaches
    <3>3. c2.oscsel = mcg.oscsel /\ DOMAIN c2 = DOMAIN mcg
      BY <1>2, Zenon DEF Regs, ExtC2
    <3>4. c1.oscsel = mcg.oscsel /\ DOMAIN c1 = DOMAIN mcg
      BY <1>2, <3>3, Zenon DEF Regs, ExtC1
    <3>5. cm.oscsel = mcg.oscsel
      BY <1>2, <3>4, Zenon DEF Regs
    <3>6. cm.oscsel = 0
      BY <2>3, <3>5, OscselOf, Zenon
    <3>. HIDE DEF s, c1, c2, cm
    <3>7. /\ Hz(cm) = FllFactor(board) * (board.xtal \div (IF cm.range = 0 THEN Pow2(cm.frdiv) ELSE 32 * Pow2(cm.frdiv)))
          /\ cm.range = RangeFor(board.xtal) /\ cm.frdiv = FrdivFor(board.xtal)
      BY <1>2, <3>2, <3>6, FeeHz, Zenon
    <3>8. Hz(cm) = FllFactor(board) * ref
      BY <1>2a, <3>7, Zenon
    <3>9. ref * FllFactor(board) = FllFactor(board) * ref
      <4>1. FllFactor(board) \in Nat
        BY <1>2, FllFactorType, Zenon
      <4>. QED
        BY <1>2a, <4>1, SMT
    <3>. QED
      BY <1>2b, <1>6, <3>1, <3>8, <3>9, Zenon
  <2>. HIDE DEF s, err, r, c2, cm
  <2>. QED
    BY <1>1, <1>3, <1>4, <2>2, <2>3, Fulfils, Zenon
<1>. QED
  BY <1>5, <1>6

\* fei_fee_rtc: the FLL frequency is looked at after the switch.
LEMMA fei_fee_rtcKept ==
  ASSUME Ready, fei_fee_rtc
  PROVE  Accepted
<1>. DEFINE c7 == [mcg EXCEPT !.oscsel = 1]
            c1 == [c7 EXCEPT !.clks = 0, !.frdiv = 0, !.irefs = 0]
            cm == [c1 EXCEPT !.cme1 = 1]
            h11 == \h11
            s == <<Write(c7), Write(c1), Poll("irefst", 0, h11)>> \o (IF FllCheck(board.rtc) # 0 THEN <<>> ELSE <<Write(cm)>>)
            h24 == \h24
            h25 == \h25
            e1 == IF board.rtc > 40000 \/ board.rtc < 30000 THEN h24 ELSE 0
            r == fll_freq(board.rtc)
<1>1. PICK rtcCounts \in BOOLEAN :
        Call("fei_fee_rtc", Then(WrongMode("FEI"), Then(e1, IF rtcCounts THEN 0 ELSE h25)), s, r)
  BY DEF fei_fee_rtc
<1>. DEFINE e2 == IF rtcCounts THEN 0 ELSE h25
            err == Then(WrongMode("FEI"), Then(e1, e2))
<1>2. board \in Board /\ mcg \in Regs /\ Clocked
  BY DEF Ready, Clocked
<1>3. Goes("fei_fee_rtc", "FEI", "FEE")
  BY Prototypes, Zenon
<1>2a. board.rtc \in Int
  BY <1>2, SMT DEF Board
<1>2b. /\ r \in Int
       /\ FllCheck(board.rtc) = 0 => r = board.rtc * FllFactor(board) /\ r >= FirstFrequency
       /\ FllCheck(board.rtc) # 0 => r < FirstFrequency
  BY <1>2, <1>2a, FllChecks, Zenon
<1>4. Judged(err, "FEI")
  <2>1. 0 \in Verdict /\ h24 \in Verdict /\ h25 \in Verdict
    BY SMT DEF Verdict, FirstFrequency
  <2>. HIDE DEF h24, h25
  <2>2. e1 \in Verdict
    <3>. DEFINE slow == board.rtc > 40000 \/ board.rtc < 30000
    <3>. HIDE DEF slow
    <3>1. e1 = IF slow THEN h24 ELSE 0
      BY DEF slow
    <3>. HIDE DEF e1
    <3>. QED
      BY <2>1, <3>1, Zenon
  <2>. HIDE DEF e1
  <2>3. e2 \in Verdict
    BY <2>1, Zenon
  <2>. HIDE DEF e2
  <2>4. Then(e1, e2) \in Verdict
    BY <2>2, <2>3, ThenIs, Zenon
  <2>5. Judged(WrongMode("FEI"), "FEI")
    BY JudgedMode
  <2>. QED
    BY <2>4, <2>5, JudgedThen, Zenon
<1>5. CASE FllCheck(board.rtc) # 0
  <2>1. s = <<Write(c7), Write(c1), Poll("irefst", 0, h11)>> \o <<>>
    BY <1>5, Zenon
  <2>2. s \in Seq(Steps)
    BY <1>2, <2>1, FeiFeeRtcRefused, Zenon
  <2>3. Good(mcg) /\ InMode("FEI", mcg) => Reaches(s, "FEE", c1)
    BY <1>2, <2>1, FeiFeeRtcRefused, Zenon
  <2>. HIDE DEF s, err, r, c1
  <2>4. r < FirstFrequency /\ r \in Int
    BY <1>2b, <1>5
  <2>5. err = 0 /\ Good(mcg) /\ InMode("FEI", mcg)
          => /\ r < FirstFrequency
             /\ Reaches(s, "FEI", c1) \/ ("fei_fee_rtc" = "fei_fee_rtc" /\ Reaches(s, "FEE", c1))
    BY <2>3, <2>4
  <2>6. Call("fei_fee_rtc", err, s, r)
    BY <1>1 DEF err
  <2>7. err = 0 => s \in Seq(Steps) /\ r \in Int
    BY <2>2, <2>4
  <2>. QED
    BY <1>3, <1>4, <2>5, <2>6, <2>7, FulfilsLate, Zenon
<1>6. CASE FllCheck(board.rtc) = 0
  <2>1. s = <<Write(c7), Write(c1), Poll("irefst", 0, h11)>> \o <<Write(cm)>>
    BY <1>6, Zenon
  <2>2a. s \in Seq(Steps)
    BY <1>2, <2>1, FeiFeeRtcCourse, Zenon
  <2>2b. Good(mcg) /\ InMode("FEI", mcg) => Reaches(s, "FEE", cm)
    BY <1>2, <2>1, FeiFeeRtcCourse, Zenon
  <2>2. err = 0 => s \in Seq(Steps) /\ r \in Int
    BY <1>2b, <2>2a
  <2>3. ASSUME err = 0, Good(mcg), InMode("FEI", mcg)
        PROVE  Reaches(s, "FEE", cm) /\ r >= FirstFrequency /\ r = Hz(cm)
    <3>1. Reaches(s, "FEE", cm)
      BY <2>2b, <2>3
    <3>2. Good(cm) /\ InMode("FEE", cm)
      BY <3>1 DEF Reaches
    <3>3. c7.oscsel = 1 /\ DOMAIN c7 = DOMAIN mcg
      BY <1>2, Zenon DEF Regs
    <3>4. c1.oscsel = 1 /\ DOMAIN c1 = DOMAIN mcg
      BY <1>2, <3>3, Zenon DEF Regs
    <3>5. cm.oscsel = 1
      BY <1>2, <3>4, Zenon DEF Regs
    <3>. HIDE DEF s, c1, c7, cm, err
    <3>6. Hz(cm) = FllFactor(board) * board.rtc
      BY <1>2, <3>2, <3>5, HzOf, Zenon
    <3>7. board.rtc * FllFactor(board) = FllFactor(board) * board.rtc
      <4>1. FllFactor(board) \in Nat
        BY <1>2, FllFactorType, Zenon
      <4>. QED
        BY <1>2a, <4>1, SMT
    <3>. QED
      BY <1>2b, <1>6, <3>1, <3>6, <3>7, Zenon
  <2>. HIDE DEF s, err, r, cm
  <2>4. Call("fei_fee_rtc", err, s, r)
    BY <1>1 DEF err
  <2>. QED
    BY <1>3, <1>4, <2>2, <2>3, <2>4, Fulfils, Zenon
<1>. QED
  BY <1>5, <1>6

\* pll_init.
LEMMA pll_initKept ==
  ASSUME Ready, pll_init
  PROVE  Accepted
<1>1. PICK d \in board.dividers :
        LET p  == d[1]  v == d[2]
            c2 == [mcg EXCEPT !.range = PllRangeFor(board.xtal), !.erefs0 = board.erefs]
            c1 == [c2 EXCEPT !.clks = 2, !.irefs = 0, !.frdiv = FrdivFor(board.xtal)]
            cm == [c1 EXCEPT !.cme0 = 1]
            c6 == PllC6(cm, p, v)
        IN Call("pll_init",
                Then(WrongMode("FEI"), Then(PllExtCheck, PllCheck(p, v))),
                <<Write(c2), Write(c1)>> \o PollExt \o
                <<Poll("clkst", 2, \h1A), Write(cm), Write(PllC5(cm, p)), Write(c6)>> \o PollPll \o
                <<Write([c6 EXCEPT !.clks = 0]), Poll("clkst", 3, \h1B)>>,
                (board.xtal \div p) * v)
  BY DEF pll_init
<1>. DEFINE p == d[1]
            v == d[2]
            c2 == [mcg EXCEPT !.range = PllRangeFor(board.xtal), !.erefs0 = board.erefs]
            c1 == [c2 EXCEPT !.clks = 2, !.irefs = 0, !.frdiv = FrdivFor(board.xtal)]
            cm == [c1 EXCEPT !.cme0 = 1]
            c5 == PllC5(cm, p)
            c6 == PllC6(cm, p, v)
            c9 == [c6 EXCEPT !.clks = 0]
            s == <<Write(c2), Write(c1)>> \o PollExt \o <<Poll("clkst", 2, \h1A), Write(cm), Write(c5), Write(c6)>> \o PollPll \o <<Write(c9), Poll("clkst", 3, \h1B)>>
            err == Then(WrongMode("FEI"), Then(PllExtCheck, PllCheck(p, v)))
            r == (board.xtal \div p) * v
<1>2. board \in Board /\ mcg \in Regs /\ Clocked
  BY DEF Ready, Clocked
<1>2a. p \in Int /\ v \in Int
  <2>1. d \in (-128..127) \X (-128..127)
    BY <1>2, SMT DEF Board
  <2>. QED
    BY <2>1, SMT
<1>1a. Call("pll_init", err, s, r)
  BY <1>1, Zenon
<1>. HIDE DEF p, v
<1>3. Goes("pll_init", "FEI", "PEE")
  BY Prototypes, Zenon
<1>. DEFINE Fine == board.xtal <= FastestClock /\ Dividers(p, v) /\ board.xtal \div p >= FirstFrequency
                    /\ PllRangeFor(board.xtal) = RangeFor(board.xtal)
<1>4. Judged(err, "FEI") /\ (err = 0 => Fine)
  <2>1. PllExtCheck \in Verdict /\ PllCheck(p, v) \in Verdict
    BY <1>2, <1>2a, ExtChecks, PllChecks, Zenon
  <2>2. PllExtCheck = 0 => board.xtal <= FastestClock
    BY <1>2, ExtChecks, Zenon
  <2>3. PllCheck(p, v) = 0 => Dividers(p, v) /\ board.xtal \div p >= FirstFrequency
                              /\ PllRangeFor(board.xtal) = RangeFor(board.xtal)
    BY <1>2, <1>2a, PllChecks, Zenon
  <2>4. Judged(WrongMode("FEI"), "FEI")
    BY JudgedMode
  <2>5. /\ Then(PllExtCheck, PllCheck(p, v)) \in Verdict
        /\ Then(PllExtCheck, PllCheck(p, v)) = 0 => PllExtCheck = 0 /\ PllCheck(p, v) = 0
    BY <2>1, Zenon DEF Then
  <2>. DEFINE e == Then(PllExtCheck, PllCheck(p, v))
  <2>. HIDE DEF e
  <2>6. Judged(Then(WrongMode("FEI"), e), "FEI") /\ (Then(WrongMode("FEI"), e) = 0 => e = 0)
    <3>1. e \in Verdict
      BY <2>5 DEF e
    <3>. QED
      BY <2>4, <3>1, Zenon DEF Judged, Then
  <2>7. Judged(err, "FEI") /\ (err = 0 => Then(PllExtCheck, PllCheck(p, v)) = 0)
    BY <2>6 DEF e
  <2>. QED
    BY <2>2, <2>3, <2>5, <2>7, Zenon
<1>5. err = 0 => s \in Seq(Steps) /\ r \in Int
  <2>. HIDE DEF err
  <2>1. ASSUME err = 0 PROVE s \in Seq(Steps)
    <3>1. Dividers(p, v)
      BY <1>4, <2>1
    <3>. QED
      BY <1>2, <3>1, PllInitCourse, Zenon
  <2>2. ASSUME err = 0 PROVE r \in Int
    <3>1. Dividers(p, v)
      BY <1>4, <2>2
    <3>2. board.xtal \div p \in Int
      BY <1>2, <3>1, SMT DEF Board, Dividers
    <3>. QED
      BY <1>2a, <3>2, SMT
  <2>. QED
    BY <2>1, <2>2
<1>6. ASSUME err = 0, Good(mcg), InMode("FEI", mcg)
      PROVE  Reaches(s, "PEE", c9) /\ r >= FirstFrequency /\ r = Hz(c9)
  <2>0. Fine
    BY <1>4, <1>6
  <2>1. Reaches(s, "PEE", c9)
    BY <1>2, <1>6, <2>0, PllInitCourse, Zenon
  <2>2. Good(c9) /\ InMode("PEE", c9)
    BY <2>1 DEF Reaches
  <2>3. c2 \in [DOMAIN mcg -> UNION {{c2[x]} : x \in DOMAIN mcg}] /\ DOMAIN c2 = DOMAIN mcg
    BY <1>2, Zenon DEF Regs
  <2>4. DOMAIN c1 = DOMAIN mcg /\ DOMAIN cm = DOMAIN mcg
    BY <1>2, <2>3, Zenon DEF Regs
  <2>5. DOMAIN c5 = DOMAIN mcg /\ c5.prdiv0 = p - 1
    BY <1>2, <2>4, Zenon DEF Regs, PllC5
  <2>6. DOMAIN c6 = DOMAIN mcg /\ c6.prdiv0 = p - 1 /\ c6.vdiv0 = v - 24
    BY <1>2, <2>5, Zenon DEF Regs, PllC6
  <2>7. c9.prdiv0 = p - 1 /\ c9.vdiv0 = v - 24
    BY <1>2, <2>6, Zenon DEF Regs
  <2>. HIDE DEF c9, s, c2, c1, cm, c5, c6
  <2>8. p - 1 + 1 = p /\ v - 24 + 24 = v
    BY <1>2a, SMT
  <2>9. (board.xtal \div (c9.prdiv0 + 1)) * (c9.vdiv0 + 24) = r
    BY <2>7, <2>8, Zenon
  <2>10. LET hz == (board.xtal \div (c9.prdiv0 + 1)) * (c9.vdiv0 + 24)
         IN hz = Hz(c9) /\ hz >= FirstFrequency
    BY <1>2, <2>2, PllHz, Zenon
  <2>. QED
    BY <2>1, <2>9, <2>10, Zenon
<1>. HIDE DEF c9, s, err, r
<1>. QED
  BY <1>1a, <1>3, <1>4, <1>5, <1>6, Fulfils, Zenon

\* clk_monitor_0.
LEMMA clk_monitor_0Kept ==
  ASSUME Ready, NEW en, en \in Bit, en = 1 => what_mcg_mode \in External /\ mcg.oscsel = 0, clk_monitor_0(en)
  PROVE  Accepted
<1>. DEFINE w1 == [mcg EXCEPT !.cme0 = en]
            s == <<Write(w1)>>
<1>1. Call("clk_monitor_0", 0, s, ret)
  BY Zenon DEF clk_monitor_0
<1>2. board \in Board /\ mcg \in Regs /\ ret \in Int
  BY DEF Ready, Clocked
<1>3. s \in Seq(Steps)
  BY <1>2, MonitorCourse, Zenon
<1>4. ASSUME board.timely
      PROVE  Reaches(s, what_mcg_mode, w1)
  <2>1. Good(mcg) /\ st = SettledBits(mcg)
    BY <1>1, <1>4 DEF Ready, Call
  <2>2. what_mcg_mode \in Modes /\ InMode(what_mcg_mode, mcg)
    BY <2>1, ModeIs, Zenon
  <2>. QED
    BY <1>2, <2>1, <2>2, MonitorCourse, Zenon
<1>. HIDE DEF w1, s
<1>5. 0 \in Verdict
  BY SMT DEF Verdict, FirstFrequency
<1>6. Kept("clk_monitor_0", 0, s, ret)
  BY <1>2, <1>3, <1>4, <1>5, Zenon DEF Kept, Delivers, Reaches
<1>. QED
  BY <1>1, <1>6, Zenon DEF Accepted

-----------------------------------------------------------------------------
(* The inductive invariant.                                                *)

AnyCall == PlainCall \/ PllCall \/ IrcCall \/ BlpiCall \/ FeeCall \/ MonitorCall

\* Whatever function is called, the call is refused or will do what its prototype says.
LEMMA CallsAccepted ==
  ASSUME Ready, AnyCall
  PROVE  Accepted
<1>0. mcg \in Regs /\ board \in Board /\ mcg.ircs \in Bit /\ 0 \in Bit /\ 1 \in Bit /\ 0 # 1
  BY SMT DEF Ready, Clocked, Regs, Bit
<1>1. CASE PlainCall
  BY <1>1, pll_initKept, pee_pbeKept, pbe_peeKept, pbe_fbeKept, pbe_blpeKept, blpe_fbeKept, fbe_blpeKept,
     fbe_feiKept, fei_fbeKept, fbi_fbeKept, fbe_feeKept, fbi_feiKept, fei_feeKept, fbi_feeKept,
     fei_fee_rtcKept, Zenon DEF PlainCall
<1>2. CASE PllCall
  <2>1. PICK d \in board.dividers : fbe_pbe(d[1], d[2]) \/ blpe_pbe(d[1], d[2])
    BY <1>2 DEF PllCall
  <2>2. d \in (-128..127) \X (-128..127)
    BY <1>0, SMT DEF Board
  <2>3. d[1] \in Int /\ d[2] \in Int
    BY <2>2, SMT
  <2>. QED
    BY <2>1, <2>3, fbe_pbeKept, blpe_pbeKept, Zenon
<1>3. CASE IrcCall
  <2>1. PICK f \in {board.slow, board.fast}, irc_select \in Bit : fbe_fbi(f, irc_select) \/ fei_fbi(f, irc_select)
    BY <1>3 DEF IrcCall
  <2>2. Reference(f, irc_select)
    BY DEF Reference
  <2>. QED
    BY <2>1, <2>2, fbe_fbiKept, fei_fbiKept, Zenon
<1>4. CASE BlpiCall
  <2>. DEFINE f == IF mcg.ircs = 1 THEN board.fast ELSE board.slow
  <2>1. fbi_blpi(f, mcg.ircs) \/ blpi_fbi(f, mcg.ircs)
    BY <1>4, Zenon DEF BlpiCall
  <2>2. Reference(f, mcg.ircs)
    BY <1>0, Zenon DEF Reference
  <2>3. f = (IF mcg.ircs = 1 THEN board.fast ELSE board.slow)
    OBVIOUS
  <2>. HIDE DEF f
  <2>. QED
    BY <2>1, <2>2, <2>3, fbi_blpiKept, blpi_fbiKept, Zenon
<1>5. CASE FeeCall
  <2>1. CASE mcg.oscsel = 0 /\ (fee_fbe \/ fee_fei)
    BY <2>1, fee_fbeKept, fee_feiKept, Zenon
  <2>2. CASE mcg.oscsel = 0 /\ \E f \in {board.slow, board.fast}, irc_select \in Bit : fee_fbi(f, irc_select)
    <3>1. PICK f \in {board.slow, board.fast}, irc_select \in Bit : fee_fbi(f, irc_select)
      BY <2>2
    <3>2. Reference(f, irc_select)
      BY DEF Reference
    <3>. QED
      BY <2>2, <3>1, <3>2, fee_fbiKept, Zenon
  <2>3. CASE mcg.oscsel = 1 /\ fee_fei_rtc
    BY <2>3, fee_fei_rtcKept, Zenon
  <2>. QED
    BY <1>5, <2>1, <2>2, <2>3, Zenon DEF FeeCall
<1>6. CASE MonitorCall
  BY <1>0, <1>6, clk_monitor_0Kept, Zenon DEF MonitorCall
<1>. QED
  BY <1>1, <1>2, <1>3, <1>4, <1>5, <1>6 DEF AnyCall

\* A call in progress, on a board that is in time, is on a course that delivers.
Underway ==
  \E s, t, q : /\ todo = s \o <<Done>>
               /\ Between(st, t, mcg) /\ Leads(s, mcg, t, q, SettledBits(q))
               /\ Good(q) /\ Delivers(fn, from, ret, q)

Resting ==
  /\ Good(mcg) /\ st = SettledBits(mcg)
  /\ ret >= FirstFrequency /\ fn # "clk_monitor_0" => ret = Hz(mcg)

OnCourse == (Idle => Resting) /\ (~Idle => from \in Modes /\ Underway)

ClockInv == TypeOK /\ (board.timely => OnCourse)

\* Between calls the state is one a caller may find.
LEMMA InvReady ==
  ASSUME ClockInv
  PROVE  Ready /\ board \in Board
<1>1. board \in Boards /\ mcg \in Regs /\ st \in Status /\ ret \in Int
  BY DEF ClockInv, TypeOK
<1>2. Clocked
  BY <1>1, MCGAssumption, ReferencesAssumption, SMT DEF Clocked
<1>3. board \in Board
  BY <1>1, MCGAssumption, SMT
<1>. QED
  BY <1>1, <1>2, <1>3, Zenon DEF Ready, ClockInv, OnCourse, Resting

-----------------------------------------------------------------------------
(* The steps.                                                              *)

\* From registers that are on their way to good ones no monitor fires and the PLL is not used unlocked.
LEMMA CourseSafe ==
  ASSUME NEW s, NEW r, NEW t, NEW q, Leads(s, r, t, q, SettledBits(q)), Good(q)
  PROVE  Safe(r, t)
<1>1. CASE s = <<>>
  <2>1. r = q /\ t = SettledBits(q)
    BY <1>1, LeadsFirst, Zenon
  <2>. QED
    BY <2>1, GoodIsSafe, Zenon
<1>2. CASE s # <<>>
  <2>1. PICK r1 \in Regs, t1 \in Status : Does(Head(s), r, t, r1, t1)
    BY <1>2, LeadsFirst, Zenon
  <2>. QED
    BY <2>1 DEF Does
<1>. QED
  BY <1>1, <1>2

\* The steps that remain, one by one.
LEMMA CourseList ==
  ASSUME NEW s, s \in Seq(Steps), todo = s \o <<Done>>
  PROVE  /\ todo # <<>> /\ todo \in Seq(Steps)
         /\ s = <<>> => Head(todo) = Done /\ Tail(todo) = <<>>
         /\ s # <<>> => Head(todo) = Head(s) /\ Tail(todo) = Tail(s) \o <<Done>> /\ Tail(s) \in Seq(Steps)
<1>1. Done \in Steps
  BY StepTypes
<1>. QED
  BY <1>1, SMT

\* The kinds of steps are told apart by op.
LEMMA StepKinds ==
  /\ Done.op = "return"
  /\ \A x \in Steps : x.op = "write" => x.regs \in Regs
  /\ \A x \in Steps : x.op = "poll" => /\ x.bit \in StatusBits /\ x.want \in 0..3
                                       /\ x.err \in 1..(FirstFrequency - 1)
<1>1. Done.op = "return"
  BY StepTypes
<1>2. ASSUME NEW x \in Steps, x.op = "write" PROVE x.regs \in Regs
  BY <1>2, SMT DEF Steps
<1>3. ASSUME NEW x \in Steps, x.op = "poll"
      PROVE x.bit \in StatusBits /\ x.want \in 0..3 /\ x.err \in 1..(FirstFrequency - 1)
  BY <1>3, SMT DEF Steps
<1>. QED
  BY <1>1, <1>2, <1>3

\* The status after a write.
LEMMA AtOnceFields ==
  ASSUME mcg \in Regs, NEW s \in Status, NEW r \in Regs
  PROVE  /\ AtOnce(r, s) \in Status
         /\ AtOnce(r, s).clkst = s.clkst /\ AtOnce(r, s).irefst = s.irefst
         /\ AtOnce(r, s).pllst = s.pllst /\ AtOnce(r, s).ircst = s.ircst
         /\ AtOnce(r, s).lock0 = IF r.prdiv0 # mcg.prdiv0 \/ r.vdiv0 # mcg.vdiv0 \/ Target("lock0", r, s) = 0
                                 THEN 0 ELSE s.lock0
         /\ AtOnce(r, s).oscinit0 = IF Target("oscinit0", r, s) = 0 THEN 0 ELSE s.oscinit0
<1>1. 0 \in Bit
  BY SMT DEF Bit
<1>. QED
  BY <1>1, Zenon DEF AtOnce, Status

\* Every status bit has the value it settles to or the one before.
LEMMA TargetType ==
  ASSUME NEW b \in StatusBits, NEW s \in Status, NEW r \in Regs
  PROVE  [s EXCEPT ![b] = Target(b, r, s)] \in Status
<1>1. /\ (IF r.clks = 0 THEN 3 * r.plls ELSE IF r.clks = 3 THEN s.clkst ELSE r.clks) \in 0..3
      /\ (IF r.plls = 1 /\ r.lp = 0 THEN 1 ELSE 0) \in Bit
      /\ (IF r.erefs0 = 1 /\ r.oscsel = 0 /\ (r.irefs = 0 \/ r.clks = 2) THEN 1 ELSE 0) \in Bit
      /\ r.irefs \in Bit /\ r.plls \in Bit /\ r.ircs \in Bit
  BY SMT DEF Status, Regs, Bit
<1>2. /\ Target("clkst", r, s) \in 0..3 /\ Target("irefst", r, s) \in Bit /\ Target("pllst", r, s) \in Bit
      /\ Target("lock0", r, s) \in Bit /\ Target("oscinit0", r, s) \in Bit /\ Target("ircst", r, s) \in Bit
  <2>1. Target("clkst", r, s) \in 0..3
    BY <1>1, Zenon DEF Target
  <2>2. Target("irefst", r, s) \in Bit /\ Target("pllst", r, s) \in Bit /\ Target("ircst", r, s) \in Bit
    BY <1>1, Zenon DEF Target
  <2>3. Target("lock0", r, s) \in Bit /\ Target("oscinit0", r, s) \in Bit
    BY <1>1, Zenon DEF Target
  <2>. QED
    BY <2>1, <2>2, <2>3
<1>. QED
  BY <1>2, Zenon DEF Status, StatusBits

\* A write leaves the status on its way.
LEMMA WriteBetween ==
  ASSUME mcg \in Regs, st \in Status, NEW t \in Status, NEW r1 \in Regs, NEW t1 \in Status,
         Between(st, t, mcg), Writes(mcg, t, r1, t1), Safe(r1, t1)
  PROVE  Between(AtOnce(r1, st), t1, r1)
<1>. DEFINE z == AtOnce(r1, st)
<1>1. r1.clks # 3
  BY DEF Safe
<1>2. Target("lock0", r1, st) = LockTo(r1) /\ Target("oscinit0", r1, st) = OscTo(r1)
  BY <1>1, TargetFields, Zenon
<1>3. /\ z.clkst = st.clkst /\ z.irefst = st.irefst /\ z.pllst = st.pllst /\ z.ircst = st.ircst
      /\ z.lock0 = IF r1.prdiv0 # mcg.prdiv0 \/ r1.vdiv0 # mcg.vdiv0 \/ LockTo(r1) = 0 THEN 0 ELSE st.lock0
      /\ z.oscinit0 = IF OscTo(r1) = 0 THEN 0 ELSE st.oscinit0
  <2>1. /\ z.clkst = st.clkst /\ z.irefst = st.irefst /\ z.pllst = st.pllst /\ z.ircst = st.ircst
        /\ z.lock0 = IF r1.prdiv0 # mcg.prdiv0 \/ r1.vdiv0 # mcg.vdiv0 \/ Target("lock0", r1, st) = 0
                     THEN 0 ELSE st.lock0
        /\ z.oscinit0 = IF Target("oscinit0", r1, st) = 0 THEN 0 ELSE st.oscinit0
    BY AtOnceFields
  <2>. HIDE DEF z
  <2>. QED
    BY <1>2, <2>1
<1>. HIDE DEF z
<1>4. /\ z.clkst = t1.clkst \/ z.clkst = ClkTo(r1)
      /\ z.irefst = t1.irefst \/ z.irefst = r1.irefs
      /\ z.pllst = t1.pllst \/ z.pllst = r1.plls
      /\ z.ircst = t1.ircst \/ z.ircst = r1.ircs
  BY <1>3, Zenon DEF Between, Writes
<1>5. z.lock0 = t1.lock0 \/ z.lock0 = LockTo(r1)
  BY <1>3, Zenon DEF Between, Writes
<1>6. z.oscinit0 = t1.oscinit0 \/ z.oscinit0 = OscTo(r1)
  BY <1>3, Zenon DEF Between, Writes
<1>7. Between(z, t1, r1)
  BY <1>4, <1>5, <1>6 DEF Between
<1>. QED
  BY <1>7 DEF z

\* So does a poll that succeeds.
LEMMA PollBetween ==
  ASSUME NEW t, NEW t1, NEW b \in StatusBits, Between(st, t, mcg), Polls(mcg, t, b, st[b], t1)
  PROVE  Between(st, t1, mcg)
  BY Zenon DEF Between, Polls, StatusBits

\* And a bit that settles.
LEMMA SettleBetween ==
  ASSUME st \in Status, mcg \in Regs, mcg.clks # 3, NEW t, NEW b \in StatusBits, Between(st, t, mcg)
  PROVE  Between([st EXCEPT ![b] = Target(b, mcg, st)], t, mcg)
<1>1. /\ Target("clkst", mcg, st) = ClkTo(mcg) /\ Target("irefst", mcg, st) = mcg.irefs
      /\ Target("pllst", mcg, st) = mcg.plls /\ Target("lock0", mcg, st) = LockTo(mcg)
      /\ Target("oscinit0", mcg, st) = OscTo(mcg) /\ Target("ircst", mcg, st) = mcg.ircs
  BY TargetFields, Zenon
<1>2. DOMAIN st = {"clkst", "irefst", "pllst", "lock0", "oscinit0", "ircst"}
  BY Zenon DEF Status
<1>. DEFINE z == [st EXCEPT ![b] = Target(b, mcg, st)]
<1>3. \A c \in StatusBits : z[c] = IF c = b THEN Target(c, mcg, st) ELSE st[c]
  BY <1>2, Zenon DEF StatusBits
<1>. HIDE DEF z
<1>4. /\ z.clkst = st.clkst \/ z.clkst = ClkTo(mcg)
      /\ z.irefst = st.irefst \/ z.irefst = mcg.irefs
      /\ z.pllst = st.pllst \/ z.pllst = mcg.plls
      /\ z.lock0 = st.lock0 \/ z.lock0 = LockTo(mcg)
      /\ z.oscinit0 = st.oscinit0 \/ z.oscinit0 = OscTo(mcg)
      /\ z.ircst = st.ircst \/ z.ircst = mcg.ircs
  BY <1>1, <1>3, StatusBitNames, Zenon
<1>5. Between(z, t, mcg)
  BY <1>4, Zenon DEF Between
<1>. QED
  BY <1>5 DEF z

\* Once all bits have settled the status is the settled one.
LEMMA AllSettled ==
  ASSUME st \in Status, Between(st, SettledBits(mcg), mcg)
  PROVE  st = SettledBits(mcg)
<1>1. /\ st.clkst = ClkTo(mcg) /\ st.irefst = mcg.irefs /\ st.pllst = mcg.plls
      /\ st.lock0 = LockTo(mcg) /\ st.oscinit0 = OscTo(mcg) /\ st.ircst = mcg.ircs
  <2>. DEFINE t == SettledBits(mcg)
  <2>1. /\ t.clkst = ClkTo(mcg) /\ t.irefst = mcg.irefs /\ t.pllst = mcg.plls
        /\ t.lock0 = LockTo(mcg) /\ t.oscinit0 = OscTo(mcg) /\ t.ircst = mcg.ircs
    BY Zenon DEF Bits, SettledBits
  <2>. HIDE DEF t
  <2>2. Between(st, t, mcg)
    BY DEF t
  <2>. QED
    BY <2>1, <2>2 DEF Between
<1>2. st = Bits(st.clkst, st.irefst, st.pllst, st.lock0, st.oscinit0, st.ircst)
  BY Zenon DEF Status, Bits
<1>. QED
  BY <1>1, <1>2, Zenon DEF SettledBits

\* Good registers are good in the next state, for the board does not change.
LEMMA GoodNext ==
  ASSUME board' = board, Good(mcg')
  PROVE  Good(mcg)'
  BY Zenon DEF Good

\* A call that is on its course in the next state.
LEMMA UnderwayNext ==
  ASSUME board' = board, NEW s, NEW t, NEW q, todo' = s \o <<Done>>, Between(st', t, mcg'),
         Leads(s, mcg', t, q, SettledBits(q)), Good(q), Delivers(fn', from', ret', q)
  PROVE  Underway'
<1>. SUFFICES \E s1, t1, q1 : /\ todo' = s1 \o <<Done>>
                              /\ Between(st', t1, mcg') /\ Leads(s1, mcg', t1, q1, SettledBits(q1))
                              /\ Good(q1)' /\ (Delivers(fn, from, ret, q1))'
  BY Zenon DEF Underway
<1>1. Good(q)'
  BY Zenon DEF Good
<1>2. (Delivers(fn, from, ret, q))'
  <2>1. Hz(q)' = Hz(q)
    BY Zenon DEF Hz
  <2>. QED
    BY <2>1, Zenon DEF Delivers
<1>. QED
  BY <1>1, <1>2, Zenon

\* A driver at rest in the next state.
LEMMA RestingNext ==
  ASSUME board' = board, Good(mcg'), st' = SettledBits(mcg'),
         ret' >= FirstFrequency /\ fn' # "clk_monitor_0" => ret' = Hz(mcg')
  PROVE  Resting'
<1>1. Good(mcg)'
  BY GoodNext
<1>2. Hz(mcg)' = Hz(mcg')
  BY Zenon DEF Hz
<1>. QED
  BY <1>1, <1>2, Zenon DEF Resting

\* A call in progress, step by step: the first remaining step leads on.
LEMMA NextStep ==
  ASSUME ClockInv, board.timely, ~Idle, Head(todo).op \in {"write", "poll"}
  PROVE  \E s, t, q : \E r1 \in Regs, t1 \in Status :
           /\ s \in Seq(Steps) /\ Tail(todo) = s \o <<Done>>
           /\ Between(st, t, mcg) /\ t \in Status
           /\ Does(Head(todo), mcg, t, r1, t1) /\ Leads(s, r1, t1, q, SettledBits(q))
           /\ Good(q) /\ Delivers(fn, from, ret, q)
<1>1. PICK s, t, q : /\ todo = s \o <<Done>>
                     /\ Between(st, t, mcg) /\ Leads(s, mcg, t, q, SettledBits(q))
                     /\ Good(q) /\ Delivers(fn, from, ret, q)
  BY Zenon DEF ClockInv, OnCourse, Underway
<1>2. s \in Seq(Steps) /\ t \in Status
  BY <1>1, LeadsFirst, Zenon
<1>3. s # <<>>
  <2>1. s = <<>> => Head(todo) = Done
    BY <1>1, <1>2, CourseList, Zenon
  <2>2. Done.op # "write" /\ Done.op # "poll"
    BY StepKinds, Zenon
  <2>. QED
    BY <2>1, <2>2, Zenon
<1>4. Head(todo) = Head(s) /\ Tail(todo) = Tail(s) \o <<Done>> /\ Tail(s) \in Seq(Steps)
  BY <1>1, <1>2, <1>3, CourseList, Zenon
<1>5. PICK r1 \in Regs, t1 \in Status : Does(Head(s), mcg, t, r1, t1) /\ Leads(Tail(s), r1, t1, q, SettledBits(q))
  BY <1>1, <1>3, LeadsFirst, Zenon
<1>. DEFINE u == Tail(s)
<1>. HIDE DEF u
<1>6. u \in Seq(Steps) /\ Tail(todo) = u \o <<Done>> /\ Leads(u, r1, t1, q, SettledBits(q))
      /\ Does(Head(todo), mcg, t, r1, t1)
  BY <1>4, <1>5 DEF u
<1>7. Between(st, t, mcg) /\ t \in Status /\ Good(q) /\ Delivers(fn, from, ret, q)
  BY <1>1, <1>2
<1>. QED
  BY <1>6, <1>7, Zenon

\* The steps that remain are steps.
LEMMA TodoTypes ==
  ASSUME TypeOK, ~Idle
  PROVE  Head(todo) \in Steps /\ Tail(todo) \in Seq(Steps)
<1>1. todo \in Seq(Steps) /\ todo # <<>>
  BY Zenon DEF TypeOK, Idle
<1>. QED
  BY <1>1, SMT

\* A list that still holds the return is not empty.
LEMMA NotIdle ==
  ASSUME NEW s, s \in Seq(Steps), todo' = s \o <<Done>>
  PROVE  ~Idle'
<1>1. s \o <<Done>> # <<>>
  <2>1. Done \in Steps
    BY StepTypes
  <2>. QED
    BY <2>1, SMT
<1>. QED
  BY <1>1, Zenon DEF Idle

\* A register write keeps the call on its course.
LEMMA WriteInv ==
  ASSUME ClockInv, DoWrite
  PROVE  ClockInv' /\ (board.timely => ~Idle')
<1>1. TypeOK /\ ~Idle /\ Head(todo).op = "write" /\ mcg \in Regs /\ st \in Status
  BY DEF ClockInv, TypeOK, DoWrite
<1>2. Head(todo) \in Steps /\ Tail(todo) \in Seq(Steps)
  BY <1>1, TodoTypes
<1>3. Head(todo).regs \in Regs
  BY <1>1, <1>2, StepKinds, Zenon
<1>4. AtOnce(Head(todo).regs, st) \in Status
  BY <1>1, <1>3, AtOnceFields, Zenon
<1>5. /\ board' = board /\ fn' = fn /\ ret' = ret /\ from' = from
      /\ mcg' = Head(todo).regs /\ st' = AtOnce(Head(todo).regs, st) /\ todo' = Tail(todo)
  BY DEF DoWrite
<1>6. TypeOK'
  BY <1>1, <1>2, <1>3, <1>4, <1>5, Zenon DEF TypeOK
<1>7. ASSUME board.timely PROVE OnCourse' /\ ~Idle'
  <2>1. Head(todo).op \in {"write", "poll"} /\ "write" # "poll"
    BY <1>1, Zenon
  <2>2a. PICK s, t, q : \E r1 \in Regs, t1 \in Status :
           /\ s \in Seq(Steps) /\ Tail(todo) = s \o <<Done>>
           /\ Between(st, t, mcg) /\ t \in Status
           /\ Does(Head(todo), mcg, t, r1, t1) /\ Leads(s, r1, t1, q, SettledBits(q))
           /\ Good(q) /\ Delivers(fn, from, ret, q)
    BY <1>1, <1>7, <2>1, NextStep, Zenon
  <2>2. PICK r1 \in Regs, t1 \in Status :
           /\ s \in Seq(Steps) /\ Tail(todo) = s \o <<Done>>
           /\ Between(st, t, mcg) /\ t \in Status
           /\ Does(Head(todo), mcg, t, r1, t1) /\ Leads(s, r1, t1, q, SettledBits(q))
           /\ Good(q) /\ Delivers(fn, from, ret, q)
    BY <2>2a
  <2>3. r1 = Head(todo).regs /\ Writes(mcg, t, r1, t1) /\ Safe(r1, t1)
    BY <1>1, <2>1, <2>2, Zenon DEF Does
  <2>4. Between(AtOnce(r1, st), t1, r1)
    BY <1>1, <2>2, <2>3, WriteBetween, Zenon
  <2>5. mcg' = r1 /\ st' = AtOnce(r1, st) /\ todo' = s \o <<Done>>
    BY <1>5, <2>2, <2>3, Zenon
  <2>6. Underway'
    <3>1. Between(st', t1, mcg') /\ Leads(s, mcg', t1, q, SettledBits(q)) /\ Delivers(fn', from', ret', q)
      BY <1>5, <2>2, <2>4, <2>5, Zenon
    <3>. QED
      BY <1>5, <2>2, <2>5, <3>1, UnderwayNext, Zenon
  <2>7. ~Idle'
    BY <2>2, <2>5, NotIdle, Zenon
  <2>8. from' \in Modes
    BY <1>1, <1>5, <1>7, Zenon DEF ClockInv, OnCourse
  <2>. QED
    BY <2>6, <2>7, <2>8 DEF OnCourse
<1>. QED
  BY <1>5, <1>6, <1>7, Zenon DEF ClockInv

\* A poll that succeeds keeps the call on its course.
LEMMA PollInv ==
  ASSUME ClockInv, PollSucceeds
  PROVE  ClockInv' /\ (board.timely => ~Idle')
<1>1. TypeOK /\ ~Idle /\ Head(todo).op = "poll" /\ st[Head(todo).bit] = Head(todo).want
  BY DEF ClockInv, PollSucceeds
<1>2. Head(todo) \in Steps /\ Tail(todo) \in Seq(Steps)
  BY <1>1, TodoTypes
<1>3. UNCHANGED <<board, mcg, st, fn, ret, from>> /\ todo' = Tail(todo)
  BY DEF PollSucceeds
<1>4. TypeOK'
  BY <1>1, <1>2, <1>3, Zenon DEF TypeOK
<1>5. ASSUME board.timely PROVE OnCourse' /\ ~Idle'
  <2>1. Head(todo).op \in {"write", "poll"} /\ "write" # "poll"
    BY <1>1, Zenon
  <2>2a. PICK s, t, q : \E r1 \in Regs, t1 \in Status :
           /\ s \in Seq(Steps) /\ Tail(todo) = s \o <<Done>>
           /\ Between(st, t, mcg) /\ t \in Status
           /\ Does(Head(todo), mcg, t, r1, t1) /\ Leads(s, r1, t1, q, SettledBits(q))
           /\ Good(q) /\ Delivers(fn, from, ret, q)
    BY <1>1, <1>5, <2>1, NextStep, Zenon
  <2>2. PICK r1 \in Regs, t1 \in Status :
           /\ s \in Seq(Steps) /\ Tail(todo) = s \o <<Done>>
           /\ Between(st, t, mcg) /\ t \in Status
           /\ Does(Head(todo), mcg, t, r1, t1) /\ Leads(s, r1, t1, q, SettledBits(q))
           /\ Good(q) /\ Delivers(fn, from, ret, q)
    BY <2>2a
  <2>3. r1 = mcg /\ Polls(mcg, t, Head(todo).bit, Head(todo).want, t1)
    BY <1>1, <2>1, <2>2, Zenon DEF Does
  <2>4. Between(st, t1, mcg)
    <3>1. Head(todo).bit \in StatusBits
      BY <1>1, <1>2, StepKinds, Zenon
    <3>2. Polls(mcg, t, Head(todo).bit, st[Head(todo).bit], t1)
      BY <1>1, <2>3, Zenon
    <3>. QED
      BY <2>2, <3>1, <3>2, PollBetween, Zenon
  <2>5. todo' = s \o <<Done>>
    BY <1>3, <2>2, Zenon
  <2>6. Underway'
    <3>1. Between(st', t1, mcg') /\ Leads(s, mcg', t1, q, SettledBits(q)) /\ Delivers(fn', from', ret', q)
      BY <1>3, <2>2, <2>3, <2>4, Zenon
    <3>2. board' = board
      BY <1>3
    <3>. QED
      BY <2>2, <2>5, <3>1, <3>2, UnderwayNext, Zenon
  <2>7. ~Idle'
    BY <2>2, <2>5, NotIdle, Zenon
  <2>8. from' \in Modes
    BY <1>1, <1>3, <1>5, Zenon DEF ClockInv, OnCourse
  <2>. QED
    BY <2>6, <2>7, <2>8 DEF OnCourse
<1>. QED
  BY <1>3, <1>4, <1>5, Zenon DEF ClockInv

\* If the hardware is in time no poll runs out: every poll asks for what its bit settles to.
LEMMA NoTimeout ==
  ASSUME ClockInv, board.timely
  PROVE  ~PollTimesOut
<1>. SUFFICES ASSUME PollTimesOut PROVE FALSE
  OBVIOUS
<1>1. /\ ~Idle /\ Head(todo).op = "poll" /\ Target(Head(todo).bit, mcg, st) # Head(todo).want
      /\ mcg \in Regs /\ st \in Status /\ TypeOK
  BY DEF ClockInv, TypeOK, PollTimesOut
<1>2. Head(todo).op \in {"write", "poll"} /\ "write" # "poll"
  BY <1>1, Zenon
<1>3a. PICK s, t, q : \E r1 \in Regs, t1 \in Status :
           /\ s \in Seq(Steps) /\ Tail(todo) = s \o <<Done>>
           /\ Between(st, t, mcg) /\ t \in Status
           /\ Does(Head(todo), mcg, t, r1, t1) /\ Leads(s, r1, t1, q, SettledBits(q))
           /\ Good(q) /\ Delivers(fn, from, ret, q)
  BY <1>1, <1>2, NextStep, Zenon
<1>3. PICK r1 \in Regs, t1 \in Status :
           /\ s \in Seq(Steps) /\ Tail(todo) = s \o <<Done>>
           /\ Between(st, t, mcg) /\ t \in Status
           /\ Does(Head(todo), mcg, t, r1, t1) /\ Leads(s, r1, t1, q, SettledBits(q))
           /\ Good(q) /\ Delivers(fn, from, ret, q)
  BY <1>3a
<1>4. /\ Head(todo).bit \in StatusBits /\ Head(todo).want = Target(Head(todo).bit, mcg, t) /\ mcg.clks # 3
  BY <1>1, <1>2, <1>3, Zenon DEF Does, Polls, Safe
<1>5. \A b \in StatusBits : Target(b, mcg, t) = Target(b, mcg, st)
  <2>1. /\ Target("clkst", mcg, t) = ClkTo(mcg) /\ Target("irefst", mcg, t) = mcg.irefs
        /\ Target("pllst", mcg, t) = mcg.plls /\ Target("lock0", mcg, t) = LockTo(mcg)
        /\ Target("oscinit0", mcg, t) = OscTo(mcg) /\ Target("ircst", mcg, t) = mcg.ircs
    BY <1>1, <1>4, TargetFields, Zenon
  <2>2. /\ Target("clkst", mcg, st) = ClkTo(mcg) /\ Target("irefst", mcg, st) = mcg.irefs
        /\ Target("pllst", mcg, st) = mcg.plls /\ Target("lock0", mcg, st) = LockTo(mcg)
        /\ Target("oscinit0", mcg, st) = OscTo(mcg) /\ Target("ircst", mcg, st) = mcg.ircs
    BY <1>1, <1>4, TargetFields, Zenon
  <2>. QED
    BY <2>1, <2>2, Zenon DEF StatusBits
<1>. QED
  BY <1>1, <1>4, <1>5, Zenon

\* A poll that runs out does so on a board with late bits only.
LEMMA TimeoutInv ==
  ASSUME ClockInv, PollTimesOut
  PROVE  ClockInv'
<1>1. TypeOK /\ ~Idle /\ Head(todo).op = "poll"
  BY DEF ClockInv, PollTimesOut
<1>2. Head(todo) \in Steps
  BY <1>1, TodoTypes
<1>3. Head(todo).err \in Int
  <2>1. Head(todo).err \in 1..(FirstFrequency - 1)
    BY <1>1, <1>2, StepKinds, Zenon
  <2>. QED
    BY <2>1, SMT DEF FirstFrequency
<1>4. UNCHANGED <<board, mcg, st, fn, from>> /\ todo' = <<>> /\ ret' = Head(todo).err
  BY DEF PollTimesOut
<1>5. <<>> \in Seq(Steps)
  BY SMT
<1>6. TypeOK'
  BY <1>1, <1>3, <1>4, <1>5, Zenon DEF TypeOK
<1>7. ~board.timely
  BY NoTimeout
<1>. QED
  BY <1>4, <1>6, <1>7, Zenon DEF ClockInv

\* A call that returns has delivered.
LEMMA Returned ==
  ASSUME ClockInv, board.timely, ~Idle, Head(todo).op = "return"
  PROVE  Good(mcg) /\ st = SettledBits(mcg) /\ Delivers(fn, from, ret, mcg)
<1>1. PICK s, t, q : /\ todo = s \o <<Done>>
                     /\ Between(st, t, mcg) /\ Leads(s, mcg, t, q, SettledBits(q))
                     /\ Good(q) /\ Delivers(fn, from, ret, q)
  BY Zenon DEF ClockInv, OnCourse, Underway
<1>2. s \in Seq(Steps) /\ t \in Status /\ st \in Status
  BY <1>1, LeadsFirst, Zenon DEF ClockInv, TypeOK
<1>3. s = <<>>
  <2>. SUFFICES ASSUME s # <<>> PROVE FALSE
    OBVIOUS
  <2>1. Head(todo) = Head(s)
    BY <1>1, <1>2, CourseList, Zenon
  <2>2. PICK r1 \in Regs, t1 \in Status : Does(Head(s), mcg, t, r1, t1)
    BY <1>1, LeadsFirst, Zenon
  <2>3. Head(s).op = "write" \/ Head(s).op = "poll"
    BY <2>2, Zenon DEF Does
  <2>. QED
    BY <2>1, <2>3, Zenon
<1>4. mcg = q /\ t = SettledBits(q)
  BY <1>1, <1>3, LeadsFirst, Zenon
<1>5. Between(st, SettledBits(mcg), mcg)
  BY <1>1, <1>4
<1>6. st = SettledBits(mcg)
  BY <1>2, <1>5, AllSettled, Zenon
<1>. QED
  BY <1>1, <1>4, <1>6, Zenon

\* A call that returns leaves the driver at rest.
LEMMA ReturnInv ==
  ASSUME ClockInv, Return
  PROVE  ClockInv'
<1>1. TypeOK /\ ~Idle /\ Head(todo).op = "return"
  BY DEF ClockInv, Return
<1>2. UNCHANGED <<board, mcg, st, fn, ret, from>> /\ todo' = <<>>
  BY DEF Return
<1>3. <<>> \in Seq(Steps)
  BY SMT
<1>4. TypeOK'
  BY <1>1, <1>2, <1>3, Zenon DEF TypeOK
<1>5. Idle'
  BY <1>2 DEF Idle
<1>6. ASSUME board.timely PROVE Resting'
  <2>1. Good(mcg) /\ st = SettledBits(mcg) /\ Delivers(fn, from, ret, mcg)
    BY <1>1, <1>6, Returned, Zenon
  <2>2. ret >= FirstFrequency /\ fn # "clk_monitor_0" => ret = Hz(mcg)
    <3>1. ASSUME ret >= FirstFrequency, fn # "clk_monitor_0" PROVE ret = Hz(mcg)
      <4>1. ~(ret < FirstFrequency)
        BY <1>1, <3>1, SMT DEF TypeOK, FirstFrequency
      <4>. QED
        BY <2>1, <3>1, <4>1, Zenon DEF Delivers
    <3>. QED
      BY <3>1
  <2>3. board' = board /\ mcg' = mcg /\ st' = st /\ ret' = ret /\ fn' = fn
    BY <1>2
  <2>4. Good(mcg') /\ st' = SettledBits(mcg')
    BY <2>1, <2>3, Zenon
  <2>5. ret' >= FirstFrequency /\ fn' # "clk_monitor_0" => ret' = Hz(mcg')
    BY <2>2, <2>3, Zenon
  <2>. QED
    BY <2>3, <2>4, <2>5, RestingNext, Zenon
<1>7. board' = board
  BY <1>2
<1>. QED
  BY <1>4, <1>5, <1>6, <1>7, Zenon DEF ClockInv, OnCourse

\* Between calls nothing is left to settle.
LEMMA Settled ==
  ASSUME ClockInv, board.timely, Idle
  PROVE  \A b \in StatusBits : st[b] = Target(b, mcg, st)
<1>1. Good(mcg) /\ st = SettledBits(mcg) /\ mcg \in Regs
  BY Zenon DEF ClockInv, OnCourse, Resting, Good
<1>2. mcg.clks # 3
  BY <1>1, GoodIsSafe, Zenon
<1>3. /\ Target("clkst", mcg, st) = ClkTo(mcg) /\ Target("irefst", mcg, st) = mcg.irefs
      /\ Target("pllst", mcg, st) = mcg.plls /\ Target("lock0", mcg, st) = LockTo(mcg)
      /\ Target("oscinit0", mcg, st) = OscTo(mcg) /\ Target("ircst", mcg, st) = mcg.ircs
  BY <1>1, <1>2, TargetFields, Zenon
<1>4. /\ st.clkst = ClkTo(mcg) /\ st.irefst = mcg.irefs
      /\ st.pllst = mcg.plls /\ st.lock0 = LockTo(mcg)
      /\ st.oscinit0 = OscTo(mcg) /\ st.ircst = mcg.ircs
  BY <1>1, Zenon DEF SettledBits, Bits
<1>. QED
  BY <1>3, <1>4, Zenon DEF StatusBits

\* A status bit that settles does so during a call, which stays on its course.
LEMMA SettleInv ==
  ASSUME ClockInv, Settle
  PROVE  ClockInv' /\ (board.timely => ~Idle /\ ~Idle')
<1>1. PICK b \in StatusBits : /\ st[b] # Target(b, mcg, st)
                              /\ st' = [st EXCEPT ![b] = Target(b, mcg, st)]
  BY Zenon DEF Settle
<1>2. /\ board' = board /\ mcg' = mcg /\ fn' = fn /\ todo' = todo /\ ret' = ret /\ from' = from
      /\ TypeOK /\ mcg \in Regs /\ st \in Status
  BY Zenon DEF Settle, ClockInv, TypeOK
<1>3. st' \in Status
  BY <1>1, <1>2, TargetType, Zenon
<1>4. TypeOK'
  BY <1>2, <1>3, Zenon DEF TypeOK
<1>5. ASSUME board.timely PROVE OnCourse' /\ ~Idle /\ ~Idle'
  <2>1. ~Idle
    BY <1>1, <1>5, Settled, Zenon
  <2>2. ~Idle'
    BY <1>2, <2>1, Zenon DEF Idle
  <2>3. PICK s, t, q : /\ todo = s \o <<Done>>
                       /\ Between(st, t, mcg) /\ Leads(s, mcg, t, q, SettledBits(q))
                       /\ Good(q) /\ Delivers(fn, from, ret, q)
    BY <1>5, <2>1, Zenon DEF ClockInv, OnCourse, Underway
  <2>4. mcg.clks # 3
    BY <2>3, CourseSafe, Zenon DEF Safe
  <2>5. Between(st', t, mcg)
    BY <1>1, <1>2, <2>3, <2>4, SettleBetween, Zenon
  <2>6. Underway'
    <3>1. /\ todo' = s \o <<Done>> /\ Between(st', t, mcg') /\ Leads(s, mcg', t, q, SettledBits(q))
          /\ Good(q) /\ Delivers(fn', from', ret', q)
      BY <1>2, <2>3, <2>5, Zenon
    <3>. QED
      BY <1>2, <3>1, UnderwayNext, Zenon
  <2>7. from' \in Modes
    BY <1>2, <1>5, <2>1, Zenon DEF ClockInv, OnCourse
  <2>. QED
    BY <2>1, <2>2, <2>6, <2>7, Zenon DEF OnCourse
<1>. QED
  BY <1>2, <1>4, <1>5, Zenon DEF ClockInv

\* A call that is refused leaves the driver at rest, one that is accepted is on its course.
LEMMA CallInv ==
  ASSUME ClockInv, AnyCall
  PROVE  ClockInv'
<1>1. Ready /\ TypeOK /\ mcg \in Regs /\ st \in Status
  BY InvReady DEF ClockInv, TypeOK
<1>2. PICK f, err, steps, r : Call(f, err, steps, r) /\ Kept(f, err, steps, r)
  BY <1>1, CallsAccepted, Zenon DEF Accepted
<1>3. /\ Idle /\ fn' = f /\ from' = what_mcg_mode /\ board' = board /\ mcg' = mcg /\ st' = st
      /\ f \in DOMAIN Abstract!Edge \cup {"clk_monitor_0"} /\ err \in Verdict
  BY <1>2, Zenon DEF Call, Kept
<1>4. fn' \in DOMAIN Abstract!Edge \cup {"reset", "clk_monitor_0"}
  BY <1>3, Zenon
<1>5. from' \in Modes \cup {"none"}
  BY <1>1, <1>3, ModeShown, Zenon
<1>6. ASSUME err # 0 PROVE ClockInv'
  <2>1. todo' = <<>> /\ ret' = err
    BY <1>2, <1>6, Zenon DEF Call
  <2>2. err \in Int /\ ~(err >= FirstFrequency)
    BY <1>3, <1>6, SMT DEF Verdict, FirstFrequency
  <2>3. <<>> \in Seq(Steps)
    BY SMT
  <2>4. TypeOK'
    BY <1>1, <1>3, <1>4, <1>5, <2>1, <2>2, <2>3, Zenon DEF TypeOK
  <2>5. Idle'
    BY <2>1 DEF Idle
  <2>6. ASSUME board.timely PROVE Resting'
    <3>1. Good(mcg) /\ st = SettledBits(mcg)
      BY <1>1, <1>3, <2>6, Zenon DEF Ready
    <3>2. Good(mcg') /\ st' = SettledBits(mcg')
      BY <1>3, <3>1, Zenon
    <3>3. ret' >= FirstFrequency /\ fn' # "clk_monitor_0" => ret' = Hz(mcg')
      BY <2>1, <2>2, Zenon
    <3>. QED
      BY <1>3, <3>2, <3>3, RestingNext, Zenon
  <2>. QED
    BY <1>3, <2>4, <2>5, <2>6, Zenon DEF ClockInv, OnCourse
<1>7. ASSUME err = 0 PROVE ClockInv'
  <2>1. todo' = steps \o <<Done>> /\ ret' = r /\ steps \in Seq(Steps) /\ r \in Int
    BY <1>2, <1>7, Zenon DEF Call, Kept
  <2>2. todo' \in Seq(Steps)
    BY <2>1, StepTypes, SMT
  <2>3. TypeOK'
    BY <1>1, <1>3, <1>4, <1>5, <2>1, <2>2, Zenon DEF TypeOK
  <2>4. ~Idle'
    BY <2>1, NotIdle, Zenon
  <2>5. ASSUME board.timely PROVE from' \in Modes /\ Underway'
    <3>1. Good(mcg) /\ st = SettledBits(mcg)
      BY <1>1, <1>3, <2>5, Zenon DEF Ready
    <3>2. from' \in Modes
      BY <1>3, <3>1, ModeIs, Zenon
    <3>3. PICK q : /\ Leads(steps, mcg, SettledBits(mcg), q, SettledBits(q)) /\ Good(q)
                   /\ Delivers(f, what_mcg_mode, r, q)
      BY <1>2, <1>7, <2>5, Zenon DEF Kept
    <3>. DEFINE t == SettledBits(mcg)
    <3>4. Between(st', t, mcg') /\ Leads(steps, mcg', t, q, SettledBits(q)) /\ Delivers(fn', from', ret', q)
      <4>1. Between(t, t, mcg)
        BY Zenon DEF Between
      <4>. HIDE DEF t
      <4>2. st' = t /\ Leads(steps, mcg, t, q, SettledBits(q))
        BY <1>3, <3>1, <3>3, Zenon DEF t
      <4>. QED
        BY <1>3, <2>1, <3>3, <4>1, <4>2, Zenon
    <3>. HIDE DEF t
    <3>5. Underway'
      BY <1>3, <2>1, <3>3, <3>4, UnderwayNext, Zenon
    <3>. QED
      BY <3>2, <3>5
  <2>. QED
    BY <1>3, <2>3, <2>4, <2>5, Zenon DEF ClockInv, OnCourse
<1>. QED
  BY <1>6, <1>7

\* After reset the driver is at rest in FEI.
LEMMA InitInv ==
  ASSUME Init
  PROVE  ClockInv
<1>1. mcg \in Regs /\ st \in Status
  BY SMT DEF Init, Regs, Status, Bit
<1>2. /\ mcg.clks = 0 /\ mcg.irefs = 1 /\ mcg.plls = 0 /\ mcg.lp = 0 /\ mcg.cme0 = 0 /\ mcg.cme1 = 0
      /\ mcg.oscsel = 0 /\ mcg.erefs0 = 0 /\ mcg.ircs = 0
  BY Zenon DEF Init
<1>3. st = Bits(0, 1, 0, 0, 0, 0)
  BY Zenon DEF Init, Bits
<1>4. /\ board \in Boards /\ todo = <<>> /\ ret = 0 /\ fn = "reset" /\ from = "FEI"
      /\ <<>> \in Seq(Steps) /\ 0 \in Int
  BY SMT DEF Init
<1>5. TypeOK
  BY <1>1, <1>4, Zenon DEF TypeOK, Modes
<1>6. Good(mcg)
  <2>1. "FEI" \in Modes /\ InMode("FEI", mcg)
    BY <1>2, Zenon DEF Modes, InMode
  <2>2. 0 # 1
    BY SMT
  <2>. QED
    BY <1>1, <1>2, <2>1, <2>2, Zenon DEF Good
<1>7. st = SettledBits(mcg)
  <2>1. ClkTo(mcg) = 0 /\ LockTo(mcg) = 0 /\ OscTo(mcg) = 0
    BY <1>2, SMT DEF ClkTo, LockTo, OscTo
  <2>. QED
    BY <1>2, <1>3, <2>1, Zenon DEF SettledBits
<1>8. ~(ret >= FirstFrequency)
  BY <1>4, SMT DEF FirstFrequency
<1>9. Idle
  BY <1>4 DEF Idle
<1>. QED
  BY <1>5, <1>6, <1>7, <1>8, <1>9, Zenon DEF ClockInv, OnCourse, Resting

\* Nothing happens.
LEMMA StutterInv ==
  ASSUME ClockInv, UNCHANGED vars
  PROVE  ClockInv'
<1>1. board' = board /\ mcg' = mcg /\ st' = st /\ fn' = fn /\ todo' = todo /\ ret' = ret /\ from' = from
  BY DEF vars
<1>2. TypeOK'
  BY <1>1, Zenon DEF ClockInv, TypeOK
<1>3. Idle' <=> Idle
  BY <1>1, Zenon DEF Idle
<1>4. ASSUME board.timely, Idle PROVE Resting'
  <2>1. Resting
    BY <1>4, Zenon DEF ClockInv, OnCourse
  <2>2. Good(mcg') /\ st' = SettledBits(mcg')
    BY <1>1, <2>1, Zenon DEF Resting
  <2>3. ret' >= FirstFrequency /\ fn' # "clk_monitor_0" => ret' = Hz(mcg')
    BY <1>1, <2>1, Zenon DEF Resting
  <2>. QED
    BY <1>1, <2>2, <2>3, RestingNext, Zenon
<1>5. ASSUME board.timely, ~Idle PROVE from' \in Modes /\ Underway'
  <2>1. Underway /\ from \in Modes
    BY <1>5, Zenon DEF ClockInv, OnCourse
  <2>2. PICK s, t, q : /\ todo = s \o <<Done>>
                       /\ Between(st, t, mcg) /\ Leads(s, mcg, t, q, SettledBits(q))
                       /\ Good(q) /\ Delivers(fn, from, ret, q)
    BY <2>1, Zenon DEF Underway
  <2>3. /\ todo' = s \o <<Done>> /\ Between(st', t, mcg') /\ Leads(s, mcg', t, q, SettledBits(q))
        /\ Good(q) /\ Delivers(fn', from', ret', q)
    BY <1>1, <2>2, Zenon
  <2>4. Underway'
    BY <1>1, <2>3, UnderwayNext, Zenon
  <2>. QED
    BY <1>1, <2>1, <2>4, Zenon
<1>. QED
  BY <1>1, <1>2, <1>3, <1>4, <1>5, Zenon DEF ClockInv, OnCourse

\* Every step of the driver, and of the hardware, keeps a call on its course.
LEMMA InductiveStep ==
  ASSUME ClockInv, [Next]_vars
  PROVE  ClockInv'
  BY CallInv, WriteInv, PollInv, TimeoutInv, ReturnInv, SettleInv, StutterInv, Zenon DEF Next, Step, AnyCall

\* The invariant the other theorems rest on: on a board that is in time the control registers, the status
\* and the steps that remain of a call lead to settled registers of the mode the prototype names.
THEOREM ClockInvariant == Spec => []ClockInv
  BY InitInv, InductiveStep, PTL DEF Spec

-----------------------------------------------------------------------------
(* The theorems.                                                           *)

\* Where the status is on a board that is in time, during a call and between calls.
LEMMA Position ==
  ASSUME ClockInv, board.timely
  PROVE  \E t : t \in Status /\ Between(st, t, mcg) /\ Safe(mcg, t)
<1>1. CASE Idle
  <2>1. Good(mcg) /\ st = SettledBits(mcg) /\ st \in Status
    BY <1>1, Zenon DEF ClockInv, OnCourse, Resting, TypeOK
  <2>2. Safe(mcg, st)
    BY <2>1, GoodIsSafe, Zenon
  <2>3. Between(st, st, mcg)
    BY Zenon DEF Between
  <2>. QED
    BY <2>1, <2>2, <2>3, Zenon
<1>2. CASE ~Idle
  <2>1. PICK s, t, q : /\ Between(st, t, mcg) /\ Leads(s, mcg, t, q, SettledBits(q)) /\ Good(q)
    BY <1>2, Zenon DEF ClockInv, OnCourse, Underway
  <2>2. Safe(mcg, t)
    BY <2>1, CourseSafe, Zenon
  <2>3. t \in Status
    BY <2>1, LeadsFirst, Zenon
  <2>. QED
    BY <2>1, <2>2, <2>3, Zenon
<1>. QED
  BY <1>1, <1>2

\* Every register field and the pending call keep their types, and on a board that is in time the
\* reserved value of CLKS, which fee_fbi and fee_fbe could reach by OR, is never written.
THEOREM RegistersAreSound == Spec => []RegistersSound
<1>1. ASSUME ClockInv PROVE RegistersSound
  <2>1. ASSUME board.timely PROVE mcg.clks # 3
    BY <1>1, <2>1, Position, Zenon DEF Safe
  <2>. QED
    BY <1>1, <2>1, Zenon DEF RegistersSound, ClksNeverReserved, ClockInv
<1>. QED
  BY <1>1, ClockInvariant, PTL

\* Whatever was called before, the driver returns in one of the eight modes and with no status bit left
\* to change.
THEOREM CallsEndSettled == Spec => []SettledBetweenCalls
<1>1. ASSUME ClockInv PROVE SettledBetweenCalls
  <2>1. ASSUME Idle, board.timely
        PROVE  what_mcg_mode \in Modes /\ \A b \in StatusBits : st[b] = Target(b, mcg, st)
    <3>1. Good(mcg) /\ st = SettledBits(mcg)
      BY <1>1, <2>1, Zenon DEF ClockInv, OnCourse, Resting
    <3>. QED
      BY <1>1, <2>1, <3>1, ModeIs, Settled, Zenon
  <2>. QED
    BY <2>1, Zenon DEF SettledBetweenCalls
<1>. QED
  BY <1>1, ClockInvariant, PTL

\* The number a successful call returns is the frequency the clock generator then has: the arithmetic of
\* the 25 functions agrees with the registers they leave behind.
THEOREM FrequenciesAreTruthful == Spec => []FrequencyTruthful
<1>1. ASSUME ClockInv PROVE FrequencyTruthful
  <2>1. ASSUME Succeeded, board.timely PROVE ret = MCGOUTCLK(board, mcg, st)
    <3>1. Resting /\ ret >= FirstFrequency /\ fn # "clk_monitor_0"
      BY <1>1, <2>1, Zenon DEF ClockInv, OnCourse, Succeeded
    <3>. QED
      BY <3>1, Zenon DEF Resting, Hz
  <2>. QED
    BY <2>1, Zenon DEF FrequencyTruthful
<1>. QED
  BY <1>1, ClockInvariant, PTL

\* A status in which an external clock is in use shows an external mode, one in which none is an internal one.
LEMMA ExternalShown ==
  ASSUME st \in Status, mcg \in Regs
  PROVE  /\ UsesExternal(st.clkst, st.irefst, st.pllst) => what_mcg_mode \in External
         /\ UsesInternal(st.clkst, st.irefst, st.pllst) => what_mcg_mode \in Modes \ External
<1>1. mcg.lp \in {0, 1} /\ st.pllst \in {0, 1}
  BY SMT DEF Regs, Status, Bit
<1>2. \A m \in Modes : Shows(m, st, mcg.lp) => what_mcg_mode = m
  BY ModeShown, Zenon
<1>3. ASSUME UsesExternal(st.clkst, st.irefst, st.pllst) PROVE what_mcg_mode \in External
  <2>1. \E m \in External : Shows(m, st, mcg.lp)
    BY <1>1, <1>3, Zenon DEF UsesExternal, Shows, External
  <2>2. External \subseteq Modes
    BY Zenon DEF External, Modes
  <2>. QED
    BY <1>2, <2>1, <2>2, Zenon
<1>4. ASSUME UsesInternal(st.clkst, st.irefst, st.pllst) PROVE what_mcg_mode \in Modes \ External
  <2>. DEFINE I == {"FEI", "FBI", "BLPI"}
  <2>1. \E m \in I : Shows(m, st, mcg.lp)
    BY <1>1, <1>4, Zenon DEF UsesInternal, Shows
  <2>2. I \subseteq Modes \ External
    BY Zenon DEF External, Modes
  <2>. HIDE DEF I
  <2>. QED
    BY <1>2, <2>1, <2>2, Zenon
<1>. QED
  BY <1>3, <1>4

\* At every point of every call, and while the bits settle in whatever order, an armed clock monitor
\* watches a clock that runs.
THEOREM MonitorsAreSafe == Spec => []MonitorNeedsExternalClock
<1>1. ASSUME ClockInv PROVE MonitorNeedsExternalClock
  <2>1. ASSUME board.timely PROVE MonitorSafe
    <3>1. PICK t : t \in Status /\ Between(st, t, mcg) /\ Safe(mcg, t)
      BY <1>1, <2>1, Position, Zenon
    <3>2. st \in Status /\ mcg \in Regs
      BY <1>1, Zenon DEF ClockInv, TypeOK
    <3>3. st.clkst \in {t.clkst, ClkTo(mcg)} /\ st.irefst \in {t.irefst, mcg.irefs} /\ st.pllst \in {t.pllst, mcg.plls}
      BY <3>1, Zenon DEF Between
    <3>4. mcg.cme0 = 1 => mcg.oscsel = 0 /\ UsesExternal(st.clkst, st.irefst, st.pllst)
      BY <3>1, <3>3, Zenon DEF Safe
    <3>5. mcg.cme1 = 1 => st.irefst = 0 /\ mcg.oscsel = 1
      BY <3>1, <3>3, Zenon DEF Safe
    <3>. QED
      BY <3>2, <3>4, <3>5, ExternalShown, Zenon DEF MonitorSafe
  <2>. QED
    BY <2>1, Zenon DEF MonitorNeedsExternalClock
<1>. QED
  BY <1>1, ClockInvariant, PTL

\* What a write may do to the clock in use.
LEMMA WriteSafe ==
  ASSUME ClockInv, board.timely, DoWrite
  PROVE  /\ st'.clkst = st.clkst
         /\ st.clkst = 3 => mcg'.prdiv0 = mcg.prdiv0 /\ mcg'.vdiv0 = mcg.vdiv0
         /\ mcg'.oscsel # mcg.oscsel => what_mcg_mode \in Modes \ External
<1>1. TypeOK /\ ~Idle /\ Head(todo).op = "write" /\ mcg \in Regs /\ st \in Status
  BY DEF ClockInv, TypeOK, DoWrite
<1>2. Head(todo).op \in {"write", "poll"} /\ "write" # "poll"
  BY <1>1, Zenon
<1>3. PICK s, t, q : \E r1 \in Regs, t1 \in Status :
           /\ s \in Seq(Steps) /\ Tail(todo) = s \o <<Done>>
           /\ Between(st, t, mcg) /\ t \in Status
           /\ Does(Head(todo), mcg, t, r1, t1) /\ Leads(s, r1, t1, q, SettledBits(q))
           /\ Good(q) /\ Delivers(fn, from, ret, q)
  BY <1>1, <1>2, NextStep, Zenon
<1>4. PICK r1 \in Regs, t1 \in Status :
           Between(st, t, mcg) /\ Does(Head(todo), mcg, t, r1, t1)
  BY <1>3
<1>5. mcg' = r1 /\ st' = AtOnce(r1, st) /\ Writes(mcg, t, r1, t1)
  BY <1>1, <1>2, <1>4, Zenon DEF Does, DoWrite
<1>6. st'.clkst = st.clkst
  BY <1>1, <1>5, AtOnceFields, Zenon
<1>7. st.clkst = 3 => mcg'.prdiv0 = mcg.prdiv0 /\ mcg'.vdiv0 = mcg.vdiv0
  <2>1. st.clkst = t.clkst \/ st.clkst = ClkTo(mcg)
    BY <1>4 DEF Between
  <2>2. t.clkst = 3 \/ ClkTo(mcg) = 3 => r1.prdiv0 = mcg.prdiv0 /\ r1.vdiv0 = mcg.vdiv0
    BY <1>5, Zenon DEF Writes
  <2>. QED
    BY <1>5, <2>1, <2>2, Zenon
<1>8. ASSUME mcg'.oscsel # mcg.oscsel PROVE what_mcg_mode \in Modes \ External
  <2>1. st.clkst \in {t.clkst, ClkTo(mcg)} /\ st.irefst \in {t.irefst, mcg.irefs} /\ st.pllst \in {t.pllst, mcg.plls}
    BY <1>4, Zenon DEF Between
  <2>2. \A c \in {t.clkst, ClkTo(mcg)}, i \in {t.irefst, mcg.irefs}, p \in {t.pllst, mcg.plls} :
          UsesInternal(c, i, p)
    BY <1>5, <1>8, Zenon DEF Writes
  <2>3. UsesInternal(st.clkst, st.irefst, st.pllst)
    BY <2>1, <2>2, Zenon
  <2>. QED
    BY <1>1, <2>3, ExternalShown, Zenon
<1>. QED
  BY <1>6, <1>7, <1>8

\* MCGOUTCLK switches to the PLL only if it has locked.
LEMMA SettleSafe ==
  ASSUME ClockInv, board.timely, Settle, st.clkst # 3, st'.clkst = 3
  PROVE  st.lock0 = 1
<1>1. st \in Status /\ mcg \in Regs
  BY Zenon DEF ClockInv, TypeOK
<1>2. PICK b \in StatusBits : /\ st[b] # Target(b, mcg, st)
                              /\ st' = [st EXCEPT ![b] = Target(b, mcg, st)]
  BY Zenon DEF Settle
<1>3. PICK t : t \in Status /\ Between(st, t, mcg) /\ Safe(mcg, t)
  BY Position, Zenon
<1>4. st'.clkst = IF b = "clkst" THEN Target("clkst", mcg, st) ELSE st.clkst
  BY <1>1, <1>2, Zenon DEF Status
<1>5. mcg.clks # 3 /\ Target("clkst", mcg, st) = ClkTo(mcg)
  <2>1. mcg.clks # 3
    BY <1>3 DEF Safe
  <2>. QED
    BY <1>1, <2>1, TargetFields, Zenon
<1>6. ClkTo(mcg) = 3
  BY <1>4, <1>5, Zenon
<1>7. t.clkst # 3
  BY <1>3, <1>6, Zenon DEF Between
<1>8. t.lock0 = 1 /\ LockTo(mcg) = 1
  BY <1>3, <1>6, <1>7, Zenon DEF Safe
<1>. QED
  BY <1>3, <1>8, Zenon DEF Between

\* No step but a write changes the control registers, none but a settling bit CLKST.
LEMMA OtherSteps ==
  ASSUME ClockInv, [Next]_vars, ~DoWrite
  PROVE  mcg' = mcg /\ board' = board /\ (~Settle => st' = st)
<1>1. ASSUME AnyCall PROVE mcg' = mcg /\ st' = st /\ board' = board
  <2>1. PICK f, err, steps, r : Call(f, err, steps, r)
    BY <1>1, InvReady, CallsAccepted, Zenon DEF Accepted
  <2>. QED
    BY <2>1, Zenon DEF Call
<1>2. ASSUME PollSucceeds \/ PollTimesOut \/ Return \/ UNCHANGED vars PROVE mcg' = mcg /\ st' = st /\ board' = board
  BY <1>2, Zenon DEF PollSucceeds, PollTimesOut, Return, vars
<1>3. ASSUME Settle PROVE mcg' = mcg /\ board' = board
  BY <1>3, Zenon DEF Settle
<1>. QED
  BY <1>1, <1>2, <1>3, Zenon DEF Next, Step, AnyCall

\* OSCSEL is switched, and the PLL used and reconfigured, only when that is safe; no call leaves a
\* timely board in a state from which a later one could do otherwise.
THEOREM SwitchesSafe ==
  ASSUME \A bd \in Boards : bd.timely
  PROVE  Spec => SwitchesAreSafe
<1>. DEFINE O == board.timely /\ mcg'.oscsel # mcg.oscsel => what_mcg_mode \in Modes \ External
            P == /\ st.clkst # 3 /\ st'.clkst = 3 => st.lock0 = 1
                 /\ st.clkst = 3 => mcg'.prdiv0 = mcg.prdiv0 /\ mcg'.vdiv0 = mcg.vdiv0
<1>1. ASSUME ClockInv, [Next]_vars PROVE O /\ P
  <2>1. board.timely
    BY <1>1, Zenon DEF ClockInv, TypeOK
  <2>2. CASE DoWrite
    BY <1>1, <2>1, <2>2, WriteSafe, Zenon
  <2>3. CASE ~DoWrite
    BY <1>1, <2>1, <2>3, OtherSteps, SettleSafe, Zenon
  <2>. QED
    BY <2>2, <2>3
<1>2. Spec => [][O]_vars /\ [][P]_vars
  BY <1>1, ClockInvariant, PTL DEF Spec
<1>. QED
  BY <1>2 DEF SwitchesAreSafe, OscselSwitchedInternally, PllLockedBeforeUse

-----------------------------------------------------------------------------
(* The refinement of ClockModes.                                           *)

\* The refinement mapping.
ModeOf == IF ~board.timely THEN "FEI" ELSE IF Idle THEN what_mcg_mode ELSE from
FunOf == IF ~board.timely THEN "reset" ELSE fn
ResultOf == IF ~board.timely THEN "error" ELSE IF ~Idle THEN "busy"
            ELSE IF ret >= FirstFrequency THEN "frequency" ELSE "error"

Stands == ModeOf' = ModeOf /\ FunOf' = FunOf /\ ResultOf' = ResultOf

\* The mode is a function of the registers and the status.
LEMMA SameMode ==
  ASSUME mcg' = mcg, st' = st
  PROVE  what_mcg_mode' = what_mcg_mode
  BY Zenon DEF what_mcg_mode

\* During a call the abstract state stands still.
LEMMA StandsStill ==
  ASSUME board' = board, Idle' <=> Idle, fn' = fn, ret' = ret, from' = from, Idle => what_mcg_mode' = what_mcg_mode
  PROVE  Stands
  BY Zenon DEF Stands, ModeOf, FunOf, ResultOf

\* A call is refused or begun.
LEMMA CallRefines ==
  ASSUME ClockInv, board.timely, AnyCall
  PROVE  Abstract!Begin \/ Abstract!Monitor
<1>1. Ready
  BY InvReady
<1>2. PICK f, err, steps, r : Call(f, err, steps, r) /\ Kept(f, err, steps, r)
  BY <1>1, CallsAccepted, Zenon DEF Accepted
<1>3. /\ Idle /\ fn' = f /\ from' = what_mcg_mode /\ board' = board /\ mcg' = mcg /\ st' = st
      /\ f \in DOMAIN Abstract!Edge \cup {"clk_monitor_0"} /\ err \in Verdict
  BY <1>2, Zenon DEF Call, Kept
<1>4. what_mcg_mode' = what_mcg_mode
  BY <1>3, SameMode, Zenon
<1>5. ResultOf # "busy" /\ ModeOf = what_mcg_mode /\ FunOf' = f
  BY <1>3, Zenon DEF ResultOf, ModeOf, FunOf
<1>6. CASE err # 0
  <2>1. todo' = <<>> /\ ret' = err /\ f \in DOMAIN Abstract!Edge
    BY <1>2, <1>6, Zenon DEF Call, Kept
  <2>2. ~(ret' >= FirstFrequency)
    BY <1>3, <1>6, <2>1, SMT DEF Verdict, FirstFrequency
  <2>3. Idle'
    BY <2>1 DEF Idle
  <2>4. ModeOf' = ModeOf /\ ResultOf' = "error"
    BY <1>3, <1>4, <1>5, <2>2, <2>3, Zenon DEF ModeOf, ResultOf
  <2>5. Abstract!Begin
    BY <1>5, <2>1, <2>4, Zenon DEF Abstract!Begin, ModeOf, FunOf, ResultOf
  <2>. QED
    BY <2>5
<1>7. CASE err = 0
  <2>1. todo' = steps \o <<Done>> /\ steps \in Seq(Steps)
    BY <1>2, <1>7, Zenon DEF Call, Kept
  <2>2. ~Idle'
    BY <2>1, NotIdle, Zenon
  <2>3. ModeOf' = ModeOf /\ ResultOf' = "busy"
    BY <1>3, <1>5, <2>2, Zenon DEF ModeOf, ResultOf
  <2>4. CASE f = "clk_monitor_0"
    BY <1>5, <2>3, <2>4, Zenon DEF Abstract!Monitor, ModeOf, FunOf, ResultOf
  <2>5. CASE f # "clk_monitor_0"
    <3>1. f \in DOMAIN Abstract!Edge /\ Abstract!Edge[f][1] = what_mcg_mode
      <4>1. PICK q : Delivers(f, what_mcg_mode, r, q)
        BY <1>2, <1>7, Zenon DEF Kept
      <4>. QED
        BY <2>5, <4>1, Zenon DEF Delivers, Goes
    <3>2. Abstract!Begin
      BY <1>5, <2>3, <3>1, Zenon DEF Abstract!Begin, ModeOf, FunOf, ResultOf
    <3>. QED
      BY <3>2
  <2>. QED
    BY <2>4, <2>5
<1>. QED
  BY <1>6, <1>7

\* A return is a success, a failure or the end of clk_monitor_0.
LEMMA ReturnRefines ==
  ASSUME ClockInv, board.timely, Return
  PROVE  Abstract!Succeed \/ Abstract!Fail \/ Abstract!Monitor
<1>1. /\ ~Idle /\ Head(todo).op = "return" /\ board' = board /\ mcg' = mcg /\ st' = st /\ fn' = fn /\ ret' = ret
      /\ Idle' /\ from \in Modes
  BY Zenon DEF Return, Idle, ClockInv, OnCourse
<1>2. what_mcg_mode' = what_mcg_mode
  BY <1>1, SameMode, Zenon
<1>3. Good(mcg) /\ st = SettledBits(mcg) /\ Delivers(fn, from, ret, mcg)
  BY <1>1, Returned, Zenon
<1>4. \A m \in Modes : InMode(m, mcg) => what_mcg_mode = m
  BY <1>3, ModeIs, Zenon
<1>5. /\ ResultOf = "busy" /\ ModeOf = from /\ FunOf = fn /\ FunOf' = fn /\ ModeOf' = what_mcg_mode
      /\ ResultOf' = IF ret >= FirstFrequency THEN "frequency" ELSE "error"
  BY <1>1, <1>2, Zenon DEF ResultOf, ModeOf, FunOf
<1>6. CASE fn = "clk_monitor_0" /\ InMode(from, mcg)
  <2>1. what_mcg_mode = from
    BY <1>1, <1>4, <1>6, Zenon
  <2>2. ResultOf' \in {"frequency", "error"}
    BY <1>5, Zenon
  <2>3. Abstract!Monitor
    BY <1>5, <1>6, <2>1, <2>2, Zenon DEF Abstract!Monitor, ModeOf, FunOf, ResultOf
  <2>. QED
    BY <2>3
<1>7. CASE \E m2 \in Modes : /\ Goes(fn, from, m2)
                             /\ ret >= FirstFrequency /\ InMode(m2, mcg)
  <2>1. PICK m2 \in Modes : Goes(fn, from, m2) /\ ret >= FirstFrequency /\ InMode(m2, mcg)
    BY <1>7
  <2>2. ResultOf' = "frequency" /\ ModeOf' = m2
    BY <1>4, <1>5, <2>1, Zenon
  <2>3. fn \in DOMAIN Abstract!Edge /\ Abstract!Edge[fn][2] = m2
    BY <2>1 DEF Goes
  <2>4. Abstract!Succeed
    BY <1>5, <2>2, <2>3, Zenon DEF Abstract!Succeed, ModeOf, FunOf, ResultOf
  <2>. QED
    BY <2>4
<1>8. CASE \E m2 \in Modes : /\ Goes(fn, from, m2) /\ ret < FirstFrequency
                             /\ InMode(from, mcg) \/ (fn = "fei_fee_rtc" /\ InMode("FEE", mcg))
  <2>1. /\ fn \in DOMAIN Abstract!Edge /\ ret < FirstFrequency
        /\ InMode(from, mcg) \/ (fn = "fei_fee_rtc" /\ InMode("FEE", mcg))
    BY <1>8, Zenon DEF Goes
  <2>2. ~(ret >= FirstFrequency)
    BY <2>1, SMT DEF ClockInv, TypeOK, FirstFrequency
  <2>3. ModeOf' = from \/ (fn = "fei_fee_rtc" /\ ModeOf' = "FEE")
    <3>1. "FEE" \in Modes
      BY Zenon DEF Modes
    <3>. QED
      BY <1>1, <1>4, <1>5, <2>1, <3>1, Zenon
  <2>4. ResultOf' = "error"
    BY <1>5, <2>2, Zenon
  <2>5. Abstract!Fail
    BY <1>5, <2>1, <2>3, <2>4, Zenon DEF Abstract!Fail, ModeOf, FunOf, ResultOf
  <2>. QED
    BY <2>5
<1>. QED
  BY <1>3, <1>6, <1>7, <1>8, Zenon DEF Delivers

\* Every step is one of ClockModes or leaves its state alone.
LEMMA StepRefines ==
  ASSUME ClockInv, [Next]_vars
  PROVE  Abstract!Next \/ Stands
<1>1. CASE ~board.timely
  <2>1. board' = board
    BY <1>1, OtherSteps, Zenon DEF DoWrite
  <2>. QED
    BY <1>1, <2>1, Zenon DEF Stands, ModeOf, FunOf, ResultOf
<1>2. CASE board.timely
  <2>1. CASE AnyCall
    BY <1>2, <2>1, CallRefines, Zenon DEF Abstract!Next
  <2>2. CASE DoWrite
    <3>1. ~Idle /\ ~Idle' /\ board' = board /\ fn' = fn /\ ret' = ret /\ from' = from
      BY <1>2, <2>2, WriteInv, Zenon DEF DoWrite
    <3>. QED
      BY <3>1, StandsStill, Zenon
  <2>3. CASE PollSucceeds
    <3>1. ~Idle /\ ~Idle' /\ board' = board /\ fn' = fn /\ ret' = ret /\ from' = from
      BY <1>2, <2>3, PollInv, Zenon DEF PollSucceeds
    <3>. QED
      BY <3>1, StandsStill, Zenon
  <2>4. CASE PollTimesOut
    BY <1>2, <2>4, NoTimeout
  <2>5. CASE Return
    BY <1>2, <2>5, ReturnRefines, Zenon DEF Abstract!Next
  <2>6. CASE Settle
    <3>1. ~Idle /\ ~Idle' /\ board' = board /\ fn' = fn /\ ret' = ret /\ from' = from
      BY <1>2, <2>6, SettleInv, Zenon DEF Settle
    <3>. QED
      BY <3>1, StandsStill, Zenon
  <2>7. CASE UNCHANGED vars
    <3>1. /\ board' = board /\ fn' = fn /\ ret' = ret /\ from' = from /\ mcg' = mcg /\ st' = st
          /\ (Idle' <=> Idle)
      BY <2>7, Zenon DEF vars, Idle
    <3>2. what_mcg_mode' = what_mcg_mode
      BY <3>1, SameMode, Zenon
    <3>. QED
      BY <3>1, <3>2, StandsStill, Zenon
  <2>. QED
    BY <2>1, <2>2, <2>3, <2>4, <2>5, <2>6, <2>7, Zenon DEF Next, Step, AnyCall
<1>. QED
  BY <1>1, <1>2

\* After reset the mode is FEI.
LEMMA InitRefines ==
  ASSUME Init
  PROVE  Abstract!Init
<1>1. ClockInv
  BY InitInv
<1>2. Idle /\ fn = "reset" /\ ret = 0
  BY Zenon DEF Init, Idle
<1>3. ~(ret >= FirstFrequency)
  BY <1>2, SMT DEF FirstFrequency
<1>4. ASSUME board.timely PROVE what_mcg_mode = "FEI"
  <2>1. Good(mcg) /\ st = SettledBits(mcg)
    BY <1>1, <1>2, <1>4, Zenon DEF ClockInv, OnCourse, Resting
  <2>2. "FEI" \in Modes /\ InMode("FEI", mcg)
    BY Zenon DEF Init, Modes, InMode
  <2>. QED
    BY <2>1, <2>2, ModeIs, Zenon
<1>. QED
  BY <1>2, <1>3, <1>4, Zenon DEF Abstract!Init

\* The driver implements what its prototypes promise: on a board that is in time every call ends in the
\* mode the function is named for and returns a frequency, or returns an error and leaves the mode alone.
THEOREM ClockModesImplemented == Spec => ImplementsClockModes
<1>1. Init => Abstract!Init
  BY InitRefines
<1>2. ASSUME ClockInv, [Next]_vars PROVE [Abstract!Next]_(Abstract!vars)
  BY <1>2, StepRefines, Zenon DEF Stands, ModeOf, FunOf, ResultOf, Abstract!vars
<1>. QED
  BY <1>1, <1>2, ClockInvariant, PTL DEF Spec, ImplementsClockModes, Abstract!Spec

-----------------------------------------------------------------------------
(* The clock set-up of main, where any poll may run out.                   *)

\* The control registers on the way from FEI to PEE; m is the OSC0 monitor, which an abandoned fbi_fbe
\* leaves off.
BootRegs(c, f, i, g, p, s, m, v) ==
  [clks |-> c, frdiv |-> f, irefs |-> i, range |-> g, erefs0 |-> 0, lp |-> 0, ircs |-> 0,
   prdiv0 |-> p, plls |-> s, cme0 |-> m, vdiv0 |-> v, oscsel |-> 0, cme1 |-> 0]

R0 == BootRegs(0, 0, 1, 0, 0, 0, 0, 0)
R1 == BootRegs(1, 0, 1, 0, 0, 0, 0, 0)
R2 == BootRegs(1, 0, 1, 2, 0, 0, 0, 0)
R3(m) == BootRegs(2, 5, 0, 2, 0, 0, m, 0)
R4(m) == BootRegs(2, 5, 0, 2, 24, 0, m, 0)
R5(m) == BootRegs(2, 5, 0, 2, 24, 1, m, 6)
R6(m) == BootRegs(0, 5, 0, 2, 24, 1, m, 6)

\* The registers r, and a status that settles to them within these bits; the oscillator and the slow
\* reference are not waited for.
Within(r, C, I, P, L) ==
  /\ r \in Regs /\ r.clks # 3 /\ OscTo(r) = 0 /\ r.ircs = 0
  /\ ClkTo(r) \in C /\ r.irefs \in I /\ r.plls \in P /\ LockTo(r) \in L
  /\ C \subseteq 0..3 /\ I \subseteq Bit /\ P \subseteq Bit /\ L \subseteq Bit

\* Each of the registers with what it settles to.
LEMMA BootWithin ==
  /\ Within(R0, {0}, {1}, {0}, {0})
  /\ Within(R1, {0, 1}, {1}, {0}, {0}) /\ Within(R1, {1}, {1}, {0}, {0})
  /\ Within(R2, {1}, {1}, {0}, {0})
  /\ Within(R3(0), {1, 2}, {0, 1}, {0}, {0}) /\ Within(R3(0), {1, 2}, {0}, {0}, {0})
  /\ \A m \in Bit : /\ Within(R3(m), {2}, {0}, {0}, {0}) /\ Within(R4(m), {2}, {0}, {0}, {0})
                    /\ Within(R5(m), {2}, {0}, {0, 1}, {0, 1}) /\ Within(R5(m), {2}, {0}, {1}, {0, 1})
                    /\ Within(R5(m), {2}, {0}, {1}, {1})
                    /\ Within(R6(m), {2, 3}, {0}, {1}, {1}) /\ Within(R6(m), {3}, {0}, {1}, {1})
<1>2. /\ \A x \in {0, 1, 2, 3} : x \in 0..3
      /\ 0 \in 0..3 /\ 1 \in 0..3 /\ 2 \in 0..3
      /\ 0 \in Bit /\ 1 \in Bit /\ 5 \in 0..7 /\ 0 \in 0..7 /\ 24 \in 0..31 /\ 0 \in 0..31 /\ 6 \in 0..31
  BY SMT DEF Bit
<1>3. /\ R0 \in Regs /\ R0.clks # 3 /\ OscTo(R0) = 0 /\ R0.ircs = 0 /\ ClkTo(R0) = 0
      /\ R0.irefs = 1 /\ R0.plls = 0 /\ LockTo(R0) = 0
  <2>1. R0 \in Regs
    BY <1>2, Zenon DEF Regs, BootRegs, R0
  <2>2. /\ R0.clks = 0 /\ R0.irefs = 1 /\ R0.erefs0 = 0 /\ R0.lp = 0 /\ R0.ircs = 0
        /\ R0.plls = 0
    BY Zenon DEF BootRegs, R0
  <2>. QED
    BY <2>1, <2>2, SMT DEF OscTo, ClkTo, LockTo
<1>4. /\ R1 \in Regs /\ R1.clks # 3 /\ OscTo(R1) = 0 /\ R1.ircs = 0 /\ ClkTo(R1) = 1
      /\ R1.irefs = 1 /\ R1.plls = 0 /\ LockTo(R1) = 0
  <2>1. R1 \in Regs
    BY <1>2, Zenon DEF Regs, BootRegs, R1
  <2>2. /\ R1.clks = 1 /\ R1.irefs = 1 /\ R1.erefs0 = 0 /\ R1.lp = 0 /\ R1.ircs = 0
        /\ R1.plls = 0
    BY Zenon DEF BootRegs, R1
  <2>. QED
    BY <2>1, <2>2, SMT DEF OscTo, ClkTo, LockTo
<1>5. /\ R2 \in Regs /\ R2.clks # 3 /\ OscTo(R2) = 0 /\ R2.ircs = 0 /\ ClkTo(R2) = 1
      /\ R2.irefs = 1 /\ R2.plls = 0 /\ LockTo(R2) = 0
  <2>1. R2 \in Regs
    BY <1>2, Zenon DEF Regs, BootRegs, R2
  <2>2. /\ R2.clks = 1 /\ R2.irefs = 1 /\ R2.erefs0 = 0 /\ R2.lp = 0 /\ R2.ircs = 0
        /\ R2.plls = 0
    BY Zenon DEF BootRegs, R2
  <2>. QED
    BY <2>1, <2>2, SMT DEF OscTo, ClkTo, LockTo
<1>6. ASSUME NEW m \in Bit
      PROVE  /\ R3(m) \in Regs /\ R3(m).clks # 3 /\ OscTo(R3(m)) = 0 /\ R3(m).ircs = 0 /\ ClkTo(R3(m)) = 2
             /\ R3(m).irefs = 0 /\ R3(m).plls = 0 /\ LockTo(R3(m)) = 0
  <2>1. R3(m) \in Regs
    BY <1>2, Zenon DEF Regs, BootRegs, R3
  <2>2. /\ R3(m).clks = 2 /\ R3(m).irefs = 0 /\ R3(m).erefs0 = 0 /\ R3(m).lp = 0 /\ R3(m).ircs = 0
        /\ R3(m).plls = 0
    BY Zenon DEF BootRegs, R3
  <2>. QED
    BY <2>1, <2>2, SMT DEF OscTo, ClkTo, LockTo
<1>7. ASSUME NEW m \in Bit
      PROVE  /\ R4(m) \in Regs /\ R4(m).clks # 3 /\ OscTo(R4(m)) = 0 /\ R4(m).ircs = 0 /\ ClkTo(R4(m)) = 2
             /\ R4(m).irefs = 0 /\ R4(m).plls = 0 /\ LockTo(R4(m)) = 0
  <2>1. R4(m) \in Regs
    BY <1>2, Zenon DEF Regs, BootRegs, R4
  <2>2. /\ R4(m).clks = 2 /\ R4(m).irefs = 0 /\ R4(m).erefs0 = 0 /\ R4(m).lp = 0 /\ R4(m).ircs = 0
        /\ R4(m).plls = 0
    BY Zenon DEF BootRegs, R4
  <2>. QED
    BY <2>1, <2>2, SMT DEF OscTo, ClkTo, LockTo
<1>8. ASSUME NEW m \in Bit
      PROVE  /\ R5(m) \in Regs /\ R5(m).clks # 3 /\ OscTo(R5(m)) = 0 /\ R5(m).ircs = 0 /\ ClkTo(R5(m)) = 2
             /\ R5(m).irefs = 0 /\ R5(m).plls = 1 /\ LockTo(R5(m)) = 1
  <2>1. R5(m) \in Regs
    BY <1>2, Zenon DEF Regs, BootRegs, R5
  <2>2. /\ R5(m).clks = 2 /\ R5(m).irefs = 0 /\ R5(m).erefs0 = 0 /\ R5(m).lp = 0 /\ R5(m).ircs = 0
        /\ R5(m).plls = 1
    BY Zenon DEF BootRegs, R5
  <2>. QED
    BY <2>1, <2>2, SMT DEF OscTo, ClkTo, LockTo
<1>9. ASSUME NEW m \in Bit
      PROVE  /\ R6(m) \in Regs /\ R6(m).clks # 3 /\ OscTo(R6(m)) = 0 /\ R6(m).ircs = 0 /\ ClkTo(R6(m)) = 3
             /\ R6(m).irefs = 0 /\ R6(m).plls = 1 /\ LockTo(R6(m)) = 1
  <2>1. R6(m) \in Regs
    BY <1>2, Zenon DEF Regs, BootRegs, R6
  <2>2. /\ R6(m).clks = 0 /\ R6(m).irefs = 0 /\ R6(m).erefs0 = 0 /\ R6(m).lp = 0 /\ R6(m).ircs = 0
        /\ R6(m).plls = 1
    BY Zenon DEF BootRegs, R6
  <2>. QED
    BY <2>1, <2>2, SMT DEF OscTo, ClkTo, LockTo
<1>10. Within(R0, {0}, {1}, {0}, {0})
  BY <1>2, <1>3, Zenon DEF Within
<1>11. Within(R1, {0, 1}, {1}, {0}, {0}) /\ Within(R1, {1}, {1}, {0}, {0})
  BY <1>2, <1>4, Zenon DEF Within
<1>12. Within(R2, {1}, {1}, {0}, {0})
  BY <1>2, <1>5, Zenon DEF Within
<1>13. Within(R3(0), {1, 2}, {0, 1}, {0}, {0}) /\ Within(R3(0), {1, 2}, {0}, {0}, {0})
  BY <1>2, <1>6, Zenon DEF Within
<1>14. ASSUME NEW m \in Bit
       PROVE  Within(R3(m), {2}, {0}, {0}, {0}) /\ Within(R4(m), {2}, {0}, {0}, {0})
  BY <1>2, <1>6, <1>7, Zenon DEF Within
<1>15. ASSUME NEW m \in Bit
       PROVE  /\ Within(R5(m), {2}, {0}, {0, 1}, {0, 1}) /\ Within(R5(m), {2}, {0}, {1}, {0, 1})
              /\ Within(R5(m), {2}, {0}, {1}, {1})
  BY <1>2, <1>8, Zenon DEF Within
<1>16. ASSUME NEW m \in Bit
       PROVE  Within(R6(m), {2, 3}, {0}, {1}, {1}) /\ Within(R6(m), {3}, {0}, {1}, {1})
  BY <1>2, <1>9, Zenon DEF Within
<1>. QED
  BY <1>10, <1>11, <1>12, <1>13, <1>14, <1>15, <1>16

\* The registers are reg and the status is somewhere within these bits.
On(r, s, reg, C, I, P, L) ==
  r = reg /\ \E c \in C, i \in I, p \in P, l \in L : s = Bits(c, i, p, l, 0, 0)

\* A bit that settles stays within.
LEMMA SettleOn ==
  ASSUME Settle, NEW reg, NEW C, NEW I, NEW P, NEW L, On(mcg, st, reg, C, I, P, L), Within(reg, C, I, P, L)
  PROVE  /\ On(mcg', st', reg, C, I, P, L)
         /\ board' = board /\ todo' = todo /\ ret' = ret
<1>1. mcg = reg /\ mcg' = mcg /\ board' = board /\ todo' = todo /\ ret' = ret /\ reg \in Regs /\ reg.clks # 3
  BY Zenon DEF Settle, On, Within
<1>2. PICK c \in C, i \in I, p \in P, l \in L : st = Bits(c, i, p, l, 0, 0)
  BY DEF On
<1>3. PICK b \in StatusBits : st[b] # Target(b, mcg, st) /\ st' = [st EXCEPT ![b] = Target(b, mcg, st)]
  BY Zenon DEF Settle
<1>4. /\ Target("clkst", mcg, st) = ClkTo(reg) /\ Target("irefst", mcg, st) = reg.irefs
      /\ Target("pllst", mcg, st) = reg.plls /\ Target("lock0", mcg, st) = LockTo(reg)
      /\ Target("oscinit0", mcg, st) = OscTo(reg) /\ Target("ircst", mcg, st) = reg.ircs
  BY <1>1, TargetFields, Zenon
<1>5. OscTo(reg) = 0 /\ reg.ircs = 0 /\ ClkTo(reg) \in C /\ reg.irefs \in I /\ reg.plls \in P /\ LockTo(reg) \in L
  BY DEF Within
<1>6. CASE b = "clkst"
  <2>1. st' = Bits(ClkTo(reg), i, p, l, 0, 0)
    BY <1>2, <1>3, <1>4, <1>6, Zenon DEF Bits
  <2>. QED
    BY <1>1, <1>5, <2>1, Zenon DEF On
<1>7. CASE b = "irefst"
  <2>1. st' = Bits(c, reg.irefs, p, l, 0, 0)
    BY <1>2, <1>3, <1>4, <1>7, Zenon DEF Bits
  <2>. QED
    BY <1>1, <1>5, <2>1, Zenon DEF On
<1>8. CASE b = "pllst"
  <2>1. st' = Bits(c, i, reg.plls, l, 0, 0)
    BY <1>2, <1>3, <1>4, <1>8, Zenon DEF Bits
  <2>. QED
    BY <1>1, <1>5, <2>1, Zenon DEF On
<1>9. CASE b = "lock0"
  <2>1. st' = Bits(c, i, p, LockTo(reg), 0, 0)
    BY <1>2, <1>3, <1>4, <1>9, Zenon DEF Bits
  <2>. QED
    BY <1>1, <1>5, <2>1, Zenon DEF On
<1>10. CASE b = "oscinit0" \/ b = "ircst"
  <2>1. st.oscinit0 = 0 /\ st.ircst = 0
    BY <1>2, Zenon DEF Bits
  <2>. QED
    BY <1>3, <1>4, <1>5, <1>10, <2>1, Zenon
<1>. QED
  BY <1>6, <1>7, <1>8, <1>9, <1>10, Zenon DEF StatusBits

\* A write of r1: the lock is lost, or kept.
LEMMA WriteOn ==
  ASSUME NEW r1, NEW reg, NEW C, NEW I, NEW P, NEW L, On(mcg, st, reg, C, I, P, L), r1 \in Regs, r1.clks # 3,
         OscTo(r1) = 0
  PROVE  /\ LockTo(r1) = 0 \/ r1.vdiv0 # reg.vdiv0 => On(r1, AtOnce(r1, st), r1, C, I, P, {0})
         /\ LockTo(r1) # 0 /\ r1.prdiv0 = reg.prdiv0 /\ r1.vdiv0 = reg.vdiv0
              => On(r1, AtOnce(r1, st), r1, C, I, P, L)
<1>1. PICK c \in C, i \in I, p \in P, l \in L : st = Bits(c, i, p, l, 0, 0)
  BY DEF On
<1>2. mcg = reg
  BY DEF On
<1>3. Target("lock0", r1, st) = LockTo(r1) /\ Target("oscinit0", r1, st) = 0
  BY TargetFields, Zenon
<1>. DEFINE k == IF r1.prdiv0 # reg.prdiv0 \/ r1.vdiv0 # reg.vdiv0 \/ LockTo(r1) = 0 THEN 0 ELSE l
<1>4. AtOnce(r1, st) = Bits(c, i, p, k, 0, 0)
  <2>1. AtOnce(r1, st) = [st EXCEPT !.lock0 = k, !.oscinit0 = 0]
    BY <1>1, <1>2, <1>3, Zenon DEF AtOnce, Bits
  <2>. HIDE DEF k
  <2>. QED
    BY <1>1, <2>1, Zenon DEF Bits
<1>5. LockTo(r1) = 0 \/ r1.vdiv0 # reg.vdiv0 => k = 0
  OBVIOUS
<1>6. LockTo(r1) # 0 /\ r1.prdiv0 = reg.prdiv0 /\ r1.vdiv0 = reg.vdiv0 => k = l
  OBVIOUS
<1>. HIDE DEF k
<1>. QED
  BY <1>4, <1>5, <1>6, Zenon DEF On

\* What a poll that succeeds has seen.
LEMMA PollOn ==
  ASSUME NEW reg, NEW C, NEW I, NEW P, NEW L, On(mcg, st, reg, C, I, P, L)
  PROVE  /\ st.clkst \in C /\ On(mcg, st, reg, {st.clkst}, I, P, L)
         /\ st.irefst \in I /\ On(mcg, st, reg, C, {st.irefst}, P, L)
         /\ st.pllst \in P /\ On(mcg, st, reg, C, I, {st.pllst}, L)
         /\ st.lock0 \in L /\ On(mcg, st, reg, C, I, P, {st.lock0})
<1>1. PICK c \in C, i \in I, p \in P, l \in L : st = Bits(c, i, p, l, 0, 0)
  BY DEF On
<1>2. mcg = reg
  BY DEF On
<1>3. st.clkst = c /\ st.irefst = i /\ st.pllst = p /\ st.lock0 = l
  BY <1>1, Zenon DEF Bits
<1>. QED
  BY <1>1, <1>2, <1>3, Zenon DEF On

\* A place within more bits.
LEMMA OnMore ==
  ASSUME NEW r, NEW s, NEW reg, NEW C, NEW I, NEW P, NEW L, On(r, s, reg, C, I, P, L),
         NEW C1, NEW I1, NEW P1, NEW L1, C \subseteq C1, I \subseteq I1, P \subseteq P1, L \subseteq L1
  PROVE  On(r, s, reg, C1, I1, P1, L1)
  BY Zenon DEF On

\* A place of the clock set-up: what remains of the call, the registers and the bits of the status.
Row(t, r, s, steps, reg, C, I, P, L) == t = steps /\ On(r, s, reg, C, I, P, L)

\* A status bit that settles leaves the place as it is.
LEMMA RowSettle ==
  ASSUME Settle, NEW steps, NEW reg, NEW C, NEW I, NEW P, NEW L, Row(todo, mcg, st, steps, reg, C, I, P, L),
         Within(reg, C, I, P, L)
  PROVE  Row(todo', mcg', st', steps, reg, C, I, P, L) /\ ret' = ret
  BY SettleOn, Zenon DEF Row

\* What remains, step by step.
First(steps, x, rest) == steps # <<>> /\ Head(steps) = x /\ Tail(steps) = rest

\* The registers r1 written over reg keep the bits, within more of them, and lose the lock or keep it.
Hands(reg, C, I, P, L, r1, C1, I1, P1, L1) ==
  /\ r1 \in Regs /\ r1.clks # 3 /\ OscTo(r1) = 0
  /\ C \subseteq C1 /\ I \subseteq I1 /\ P \subseteq P1
  /\ \/ (LockTo(r1) = 0 \/ r1.vdiv0 # reg.vdiv0) /\ 0 \in L1
     \/ LockTo(r1) # 0 /\ r1.prdiv0 = reg.prdiv0 /\ r1.vdiv0 = reg.vdiv0 /\ L \subseteq L1

\* The step that writes.
LEMMA RowWrite ==
  ASSUME Step, NEW steps, NEW r1, NEW rest, First(steps, Write(r1), rest),
         NEW reg, NEW C, NEW I, NEW P, NEW L, Row(todo, mcg, st, steps, reg, C, I, P, L),
         NEW C1, NEW I1, NEW P1, NEW L1, Hands(reg, C, I, P, L, r1, C1, I1, P1, L1)
  PROVE  Row(todo', mcg', st', rest, r1, C1, I1, P1, L1) /\ ret' = ret
<1>1. todo = steps /\ steps # <<>> /\ Head(steps) = Write(r1) /\ Tail(steps) = rest /\ On(mcg, st, reg, C, I, P, L)
  BY DEF Row, First
<1>2. Write(r1).op = "write" /\ Write(r1).regs = r1
  BY Zenon DEF Write
<1>3. mcg' = r1 /\ st' = AtOnce(r1, st) /\ todo' = rest /\ ret' = ret
  BY <1>1, <1>2, Zenon DEF Step, DoWrite, PollSucceeds, PollTimesOut, Return
<1>4. r1 \in Regs /\ r1.clks # 3 /\ OscTo(r1) = 0 /\ C \subseteq C1 /\ I \subseteq I1 /\ P \subseteq P1
  BY DEF Hands
<1>5. CASE (LockTo(r1) = 0 \/ r1.vdiv0 # reg.vdiv0) /\ 0 \in L1
  <2>1. On(r1, AtOnce(r1, st), r1, C, I, P, {0})
    BY <1>1, <1>4, <1>5, WriteOn, Zenon
  <2>2. {0} \subseteq L1
    BY <1>5, Zenon
  <2>3. On(r1, AtOnce(r1, st), r1, C1, I1, P1, L1)
    BY <1>4, <2>1, <2>2, Zenon DEF On
  <2>. QED
    BY <1>3, <2>3, Zenon DEF Row
<1>6. CASE LockTo(r1) # 0 /\ r1.prdiv0 = reg.prdiv0 /\ r1.vdiv0 = reg.vdiv0 /\ L \subseteq L1
  <2>1. On(r1, AtOnce(r1, st), r1, C, I, P, L)
    BY <1>1, <1>4, <1>6, WriteOn, Zenon
  <2>2. On(r1, AtOnce(r1, st), r1, C1, I1, P1, L1)
    BY <1>4, <1>6, <2>1, OnMore, Zenon
  <2>. QED
    BY <1>3, <2>2, Zenon DEF Row
<1>. QED
  BY <1>5, <1>6, Zenon DEF Hands

\* A poll sees its value, or runs out: the call returns its code from this place.
Sees(t, r, s, q, rest, reg, C, I, P, L, D, J, O, K, e) ==
  \/ Row(t, r, s, rest, reg, D, J, O, K) /\ q = ret
  \/ Row(t, r, s, <<>>, reg, C, I, P, L) /\ q = e

\* The steps that poll.
LEMMA RowPoll ==
  ASSUME Step, NEW steps, NEW b, NEW v, NEW e, NEW rest, First(steps, Poll(b, v, e), rest),
         NEW reg, NEW C, NEW I, NEW P, NEW L, Row(todo, mcg, st, steps, reg, C, I, P, L)
  PROVE  /\ b = "clkst" => Sees(todo', mcg', st', ret', rest, reg, C, I, P, L, {v}, I, P, L, e)
         /\ b = "irefst" => Sees(todo', mcg', st', ret', rest, reg, C, I, P, L, C, {v}, P, L, e)
         /\ b = "pllst" => Sees(todo', mcg', st', ret', rest, reg, C, I, P, L, C, I, {v}, L, e)
         /\ b = "lock0" => Sees(todo', mcg', st', ret', rest, reg, C, I, P, L, C, I, P, {v}, e)
         /\ b = "ircst" => Sees(todo', mcg', st', ret', rest, reg, C, I, P, L, C, I, P, L, e)
<1>1. todo = steps /\ steps # <<>> /\ Head(steps) = Poll(b, v, e) /\ Tail(steps) = rest
      /\ On(mcg, st, reg, C, I, P, L)
  BY DEF Row, First
<1>2. /\ Poll(b, v, e).op = "poll" /\ Poll(b, v, e).bit = b /\ Poll(b, v, e).want = v
      /\ Poll(b, v, e).err = e
  BY Zenon DEF Poll
<1>3. /\ mcg' = mcg /\ st' = st
      /\ (todo' = rest /\ ret' = ret /\ st[b] = v) \/ (todo' = <<>> /\ ret' = e)
  BY <1>1, <1>2, Zenon DEF Step, DoWrite, PollSucceeds, PollTimesOut, Return
<1>4. /\ On(mcg, st, reg, {st.clkst}, I, P, L) /\ On(mcg, st, reg, C, {st.irefst}, P, L)
      /\ On(mcg, st, reg, C, I, {st.pllst}, L) /\ On(mcg, st, reg, C, I, P, {st.lock0})
  BY <1>1, PollOn, Zenon
<1>5. CASE todo' = <<>> /\ ret' = e
  BY <1>1, <1>3, <1>5, Zenon DEF Sees, Row
<1>6. CASE todo' = rest /\ ret' = ret /\ st[b] = v
  BY <1>1, <1>3, <1>4, <1>6, Zenon DEF Sees, Row
<1>. QED
  BY <1>3, <1>5, <1>6

\* The step that returns.
LEMMA RowReturn ==
  ASSUME Step, NEW reg, NEW C, NEW I, NEW P, NEW L, Row(todo, mcg, st, <<Done>>, reg, C, I, P, L)
  PROVE  Row(todo', mcg', st', <<>>, reg, C, I, P, L) /\ ret' = ret
<1>1. todo = <<Done>> /\ On(mcg, st, reg, C, I, P, L)
  BY DEF Row
<1>2. todo # <<>> /\ Head(todo) = Done
  BY <1>1, SMT
<1>3. Done.op = "return"
  BY Zenon DEF Done
<1>4. mcg' = mcg /\ st' = st /\ todo' = <<>> /\ ret' = ret
  BY <1>2, <1>3, Zenon DEF Step, DoWrite, PollSucceeds, PollTimesOut, Return
<1>. QED
  BY <1>1, <1>4, Zenon DEF Row

\* The calls of main, with the registers they find and leave; m is the OSC0 monitor.
Fbi1 == <<Write(R0), Write(R1), Poll("ircst", 0, \h13), Poll("clkst", 1, \h19), Done>>
Fbi2 == <<Write(R1), Poll("ircst", 0, \h13), Poll("clkst", 1, \h19), Done>>
Fbi3 == <<Poll("ircst", 0, \h13), Poll("clkst", 1, \h19), Done>>
Fbi4 == <<Poll("clkst", 1, \h19), Done>>
Fbi5 == <<Done>>

Fbe1 == <<Write(R2), Write(R3(0)), Poll("irefst", 0, \h11), Poll("clkst", 2, \h1A), Write(R3(1)), Done>>
Fbe2 == <<Write(R3(0)), Poll("irefst", 0, \h11), Poll("clkst", 2, \h1A), Write(R3(1)), Done>>
Fbe3 == <<Poll("irefst", 0, \h11), Poll("clkst", 2, \h1A), Write(R3(1)), Done>>
Fbe4 == <<Poll("clkst", 2, \h1A), Write(R3(1)), Done>>
Fbe5 == <<Write(R3(1)), Done>>
Fbe6 == <<Done>>

Pbe1(m) == <<Write(R4(m)), Write(R5(m)), Poll("pllst", 1, \h16), Poll("lock0", 1, \h44), Done>>
Pbe2(m) == <<Write(R5(m)), Poll("pllst", 1, \h16), Poll("lock0", 1, \h44), Done>>
Pbe3(m) == <<Poll("pllst", 1, \h16), Poll("lock0", 1, \h44), Done>>
Pbe4(m) == <<Poll("lock0", 1, \h44), Done>>
Pbe5(m) == <<Done>>

Pee1(m) == <<Poll("lock0", 1, \h44), Write(R6(m)), Poll("clkst", 3, \h1B), Done>>
Pee2(m) == <<Write(R6(m)), Poll("clkst", 3, \h1B), Done>>
Pee3(m) == <<Poll("clkst", 3, \h1B), Done>>
Pee4(m) == <<Done>>

\* The places fei_fbi passes.
FbiRows(t, r, s) ==
  \/ Row(t, r, s, Fbi1, R0, {0}, {1}, {0}, {0})
  \/ Row(t, r, s, Fbi2, R0, {0}, {1}, {0}, {0})
  \/ Row(t, r, s, Fbi3, R1, {0, 1}, {1}, {0}, {0})
  \/ Row(t, r, s, Fbi4, R1, {0, 1}, {1}, {0}, {0})
  \/ Row(t, r, s, Fbi5, R1, {1}, {1}, {0}, {0})

\* The places fbi_fbe passes.
FbeRows(t, r, s) ==
  \/ Row(t, r, s, Fbe1, R1, {1}, {1}, {0}, {0})
  \/ Row(t, r, s, Fbe2, R2, {1}, {1}, {0}, {0})
  \/ Row(t, r, s, Fbe3, R3(0), {1, 2}, {0, 1}, {0}, {0})
  \/ Row(t, r, s, Fbe4, R3(0), {1, 2}, {0}, {0}, {0})
  \/ Row(t, r, s, Fbe5, R3(0), {2}, {0}, {0}, {0})
  \/ Row(t, r, s, Fbe6, R3(1), {2}, {0}, {0}, {0})

\* The places fbe_pbe passes.
PbeRows(m, t, r, s) ==
  \/ Row(t, r, s, Pbe1(m), R3(m), {2}, {0}, {0}, {0})
  \/ Row(t, r, s, Pbe2(m), R4(m), {2}, {0}, {0}, {0})
  \/ Row(t, r, s, Pbe3(m), R5(m), {2}, {0}, {0, 1}, {0, 1})
  \/ Row(t, r, s, Pbe4(m), R5(m), {2}, {0}, {1}, {0, 1})
  \/ Row(t, r, s, Pbe5(m), R5(m), {2}, {0}, {1}, {1})

\* The places pbe_pee passes.
PeeRows(m, t, r, s) ==
  \/ Row(t, r, s, Pee1(m), R5(m), {2}, {0}, {1}, {0, 1})
  \/ Row(t, r, s, Pee2(m), R5(m), {2}, {0}, {1}, {1})
  \/ Row(t, r, s, Pee3(m), R6(m), {2, 3}, {0}, {1}, {1})
  \/ Row(t, r, s, Pee4(m), R6(m), {3}, {0}, {1}, {1})

\* Where a call that gave up, or was refused, leaves the clock.
FbiRests(r, s) == On(r, s, R0, {0}, {1}, {0}, {0}) \/ On(r, s, R1, {0, 1}, {1}, {0}, {0})

FbeRests(r, s) ==
  FbiRests(r, s) \/ On(r, s, R3(0), {1, 2}, {0, 1}, {0}, {0}) \/ On(r, s, R3(1), {2}, {0}, {0}, {0})

PbeRests(r, s) == FbeRests(r, s) \/ \E m \in Bit : On(r, s, R5(m), {2}, {0}, {0, 1}, {0, 1})

PeeRests(r, s) == PbeRests(r, s) \/ \E m \in Bit : On(r, s, R6(m), {2, 3}, {0}, {1}, {1})

\* Where pbe_pee arrives.
Arrived(r, s) == \E m \in Bit : On(r, s, R6(m), {3}, {0}, {1}, {1})

\* The lists, step by step.
LEMMA BootLists ==
  ASSUME NEW m
  PROVE  /\ First(Fbi1, Write(R0), Fbi2)
         /\ First(Fbi2, Write(R1), Fbi3)
         /\ First(Fbi3, Poll("ircst", 0, \h13), Fbi4)
         /\ First(Fbi4, Poll("clkst", 1, \h19), Fbi5)
         /\ Fbi5 = <<Done>>
         /\ First(Fbe1, Write(R2), Fbe2)
         /\ First(Fbe2, Write(R3(0)), Fbe3)
         /\ First(Fbe3, Poll("irefst", 0, \h11), Fbe4)
         /\ First(Fbe4, Poll("clkst", 2, \h1A), Fbe5)
         /\ First(Fbe5, Write(R3(1)), Fbe6)
         /\ Fbe6 = <<Done>>
         /\ First(Pbe1(m), Write(R4(m)), Pbe2(m))
         /\ First(Pbe2(m), Write(R5(m)), Pbe3(m))
         /\ First(Pbe3(m), Poll("pllst", 1, \h16), Pbe4(m))
         /\ First(Pbe4(m), Poll("lock0", 1, \h44), Pbe5(m))
         /\ Pbe5(m) = <<Done>>
         /\ First(Pee1(m), Poll("lock0", 1, \h44), Pee2(m))
         /\ First(Pee2(m), Write(R6(m)), Pee3(m))
         /\ First(Pee3(m), Poll("clkst", 3, \h1B), Pee4(m))
         /\ Pee4(m) = <<Done>>
<1>1. First(Fbi1, Write(R0), Fbi2)
  BY SMT DEF First, Fbi1, Fbi2
<1>2. First(Fbi2, Write(R1), Fbi3)
  BY SMT DEF First, Fbi2, Fbi3
<1>3. First(Fbi3, Poll("ircst", 0, \h13), Fbi4)
  BY SMT DEF First, Fbi3, Fbi4
<1>4. First(Fbi4, Poll("clkst", 1, \h19), Fbi5)
  BY SMT DEF First, Fbi4, Fbi5
<1>5. Fbi5 = <<Done>>
  BY DEF Fbi5
<1>6. First(Fbe1, Write(R2), Fbe2)
  BY SMT DEF First, Fbe1, Fbe2
<1>7. First(Fbe2, Write(R3(0)), Fbe3)
  BY SMT DEF First, Fbe2, Fbe3
<1>8. First(Fbe3, Poll("irefst", 0, \h11), Fbe4)
  BY SMT DEF First, Fbe3, Fbe4
<1>9. First(Fbe4, Poll("clkst", 2, \h1A), Fbe5)
  BY SMT DEF First, Fbe4, Fbe5
<1>10. First(Fbe5, Write(R3(1)), Fbe6)
  BY SMT DEF First, Fbe5, Fbe6
<1>11. Fbe6 = <<Done>>
  BY DEF Fbe6
<1>12. First(Pbe1(m), Write(R4(m)), Pbe2(m))
  BY SMT DEF First, Pbe1, Pbe2
<1>13. First(Pbe2(m), Write(R5(m)), Pbe3(m))
  BY SMT DEF First, Pbe2, Pbe3
<1>14. First(Pbe3(m), Poll("pllst", 1, \h16), Pbe4(m))
  BY SMT DEF First, Pbe3, Pbe4
<1>15. First(Pbe4(m), Poll("lock0", 1, \h44), Pbe5(m))
  BY SMT DEF First, Pbe4, Pbe5
<1>16. Pbe5(m) = <<Done>>
  BY DEF Pbe5
<1>17. First(Pee1(m), Poll("lock0", 1, \h44), Pee2(m))
  BY SMT DEF First, Pee1, Pee2
<1>18. First(Pee2(m), Write(R6(m)), Pee3(m))
  BY SMT DEF First, Pee2, Pee3
<1>19. First(Pee3(m), Poll("clkst", 3, \h1B), Pee4(m))
  BY SMT DEF First, Pee3, Pee4
<1>20. Pee4(m) = <<Done>>
  BY DEF Pee4
<1>. QED
  BY <1>1, <1>2, <1>3, <1>4, <1>5, <1>6, <1>7, <1>8, <1>9, <1>10, <1>11, <1>12, <1>13, <1>14, <1>15, <1>16, <1>17, <1>18, <1>19, <1>20

\* The writes: only the one of C6 starts the PLL, and the one that selects it keeps the lock.
LEMMA BootWrites ==
  ASSUME NEW m \in Bit
  PROVE  /\ Hands(R0, {0}, {1}, {0}, {0}, R0, {0}, {1}, {0}, {0})
         /\ Hands(R0, {0}, {1}, {0}, {0}, R1, {0, 1}, {1}, {0}, {0})
         /\ Hands(R1, {1}, {1}, {0}, {0}, R2, {1}, {1}, {0}, {0})
         /\ Hands(R2, {1}, {1}, {0}, {0}, R3(0), {1, 2}, {0, 1}, {0}, {0})
         /\ Hands(R3(0), {2}, {0}, {0}, {0}, R3(1), {2}, {0}, {0}, {0})
         /\ Hands(R3(m), {2}, {0}, {0}, {0}, R4(m), {2}, {0}, {0}, {0})
         /\ Hands(R4(m), {2}, {0}, {0}, {0}, R5(m), {2}, {0}, {0, 1}, {0, 1})
         /\ Hands(R5(m), {2}, {0}, {1}, {1}, R6(m), {2, 3}, {0}, {1}, {1})
<1>1. 0 \in Bit /\ 1 \in Bit /\ 0 # 1 /\ 0 # 6
  BY SMT DEF Bit
<1>2. /\ R0.vdiv0 = 0 /\ R1.vdiv0 = 0 /\ R2.vdiv0 = 0 /\ \A k \in Bit : R3(k).vdiv0 = 0 /\ R4(k).vdiv0 = 0
      /\ \A k \in Bit : R5(k).vdiv0 = 6 /\ R6(k).vdiv0 = 6 /\ R5(k).prdiv0 = 24 /\ R6(k).prdiv0 = 24
  BY Zenon DEF BootRegs, R0, R1, R2, R3, R4, R5, R6
<1>3. Hands(R0, {0}, {1}, {0}, {0}, R0, {0}, {1}, {0}, {0})
  <2>1. Within(R0, {0}, {1}, {0}, {0})
    BY <1>1, BootWithin, Zenon
  <2>2. R0 \in Regs /\ R0.clks # 3 /\ OscTo(R0) = 0
    BY <2>1, Zenon DEF Within
  <2>3. LockTo(R0) = 0
    BY <2>1, Zenon DEF Within
  <2>. QED
    BY <1>1, <1>2, <2>2, <2>3, Zenon DEF Hands
<1>4. Hands(R0, {0}, {1}, {0}, {0}, R1, {0, 1}, {1}, {0}, {0})
  <2>1. Within(R1, {0, 1}, {1}, {0}, {0})
    BY <1>1, BootWithin, Zenon
  <2>2. R1 \in Regs /\ R1.clks # 3 /\ OscTo(R1) = 0
    BY <2>1, Zenon DEF Within
  <2>3. LockTo(R1) = 0
    BY <2>1, Zenon DEF Within
  <2>. QED
    BY <1>1, <1>2, <2>2, <2>3, Zenon DEF Hands
<1>5. Hands(R1, {1}, {1}, {0}, {0}, R2, {1}, {1}, {0}, {0})
  <2>1. Within(R2, {1}, {1}, {0}, {0})
    BY <1>1, BootWithin, Zenon
  <2>2. R2 \in Regs /\ R2.clks # 3 /\ OscTo(R2) = 0
    BY <2>1, Zenon DEF Within
  <2>3. LockTo(R2) = 0
    BY <2>1, Zenon DEF Within
  <2>. QED
    BY <1>1, <1>2, <2>2, <2>3, Zenon DEF Hands
<1>6. Hands(R2, {1}, {1}, {0}, {0}, R3(0), {1, 2}, {0, 1}, {0}, {0})
  <2>1. Within(R3(0), {1, 2}, {0, 1}, {0}, {0})
    BY <1>1, BootWithin, Zenon
  <2>2. R3(0) \in Regs /\ R3(0).clks # 3 /\ OscTo(R3(0)) = 0
    BY <2>1, Zenon DEF Within
  <2>3. LockTo(R3(0)) = 0
    BY <2>1, Zenon DEF Within
  <2>. QED
    BY <1>1, <1>2, <2>2, <2>3, Zenon DEF Hands
<1>7. Hands(R3(0), {2}, {0}, {0}, {0}, R3(1), {2}, {0}, {0}, {0})
  <2>1. Within(R3(1), {2}, {0}, {0}, {0})
    BY <1>1, BootWithin, Zenon
  <2>2. R3(1) \in Regs /\ R3(1).clks # 3 /\ OscTo(R3(1)) = 0
    BY <2>1, Zenon DEF Within
  <2>3. LockTo(R3(1)) = 0
    BY <2>1, Zenon DEF Within
  <2>. QED
    BY <1>1, <1>2, <2>2, <2>3, Zenon DEF Hands
<1>8. Hands(R3(m), {2}, {0}, {0}, {0}, R4(m), {2}, {0}, {0}, {0})
  <2>1. Within(R4(m), {2}, {0}, {0}, {0})
    BY <1>1, BootWithin, Zenon
  <2>2. R4(m) \in Regs /\ R4(m).clks # 3 /\ OscTo(R4(m)) = 0
    BY <2>1, Zenon DEF Within
  <2>3. LockTo(R4(m)) = 0
    BY <2>1, Zenon DEF Within
  <2>. QED
    BY <1>1, <1>2, <2>2, <2>3, Zenon DEF Hands
<1>9. Hands(R4(m), {2}, {0}, {0}, {0}, R5(m), {2}, {0}, {0, 1}, {0, 1})
  <2>1. Within(R5(m), {2}, {0}, {0, 1}, {0, 1})
    BY <1>1, BootWithin, Zenon
  <2>2. R5(m) \in Regs /\ R5(m).clks # 3 /\ OscTo(R5(m)) = 0
    BY <2>1, Zenon DEF Within
  <2>3. R5(m).vdiv0 # R4(m).vdiv0
    BY <1>1, <1>2, Zenon
  <2>. QED
    BY <1>1, <1>2, <2>2, <2>3, Zenon DEF Hands
<1>10. Hands(R5(m), {2}, {0}, {1}, {1}, R6(m), {2, 3}, {0}, {1}, {1})
  <2>1. Within(R6(m), {2, 3}, {0}, {1}, {1})
    BY <1>1, BootWithin, Zenon
  <2>2. R6(m) \in Regs /\ R6(m).clks # 3 /\ OscTo(R6(m)) = 0
    BY <2>1, Zenon DEF Within
  <2>3. LockTo(R6(m)) # 0
    BY <1>1, <2>1, Zenon DEF Within
  <2>. QED
    BY <1>1, <1>2, <2>2, <2>3, Zenon DEF Hands
<1>. QED
  BY <1>3, <1>4, <1>5, <1>6, <1>7, <1>8, <1>9, <1>10


\* The steps of fei_fbi.
LEMMA FbiStep ==
  ASSUME Step, FbiRows(todo, mcg, st)
  PROVE  FbiRows(todo', mcg', st') \/ (todo' = <<>> /\ FbiRests(mcg', st'))
<1>1. CASE Row(todo, mcg, st, Fbi1, R0, {0}, {1}, {0}, {0})
  <2>1. First(Fbi1, Write(R0), Fbi2)
    BY BootLists, Zenon
  <2>0. 0 \in Bit
    BY SMT DEF Bit
  <2>2. Hands(R0, {0}, {1}, {0}, {0}, R0, {0}, {1}, {0}, {0})
    BY <2>0, BootWrites, Zenon
  <2>3. Row(todo', mcg', st', Fbi2, R0, {0}, {1}, {0}, {0}) /\ ret' = ret
    BY <1>1, <2>1, <2>2, RowWrite, Zenon
  <2>. QED
    BY <2>3, Zenon DEF FbiRows
<1>2. CASE Row(todo, mcg, st, Fbi2, R0, {0}, {1}, {0}, {0})
  <2>1. First(Fbi2, Write(R1), Fbi3)
    BY BootLists, Zenon
  <2>0. 0 \in Bit
    BY SMT DEF Bit
  <2>2. Hands(R0, {0}, {1}, {0}, {0}, R1, {0, 1}, {1}, {0}, {0})
    BY <2>0, BootWrites, Zenon
  <2>3. Row(todo', mcg', st', Fbi3, R1, {0, 1}, {1}, {0}, {0}) /\ ret' = ret
    BY <1>2, <2>1, <2>2, RowWrite, Zenon
  <2>. QED
    BY <2>3, Zenon DEF FbiRows
<1>3. CASE Row(todo, mcg, st, Fbi3, R1, {0, 1}, {1}, {0}, {0})
  <2>1. First(Fbi3, Poll("ircst", 0, \h13), Fbi4)
    BY BootLists, Zenon
  <2>2. Sees(todo', mcg', st', ret', Fbi4, R1, {0, 1}, {1}, {0}, {0}, {0, 1}, {1}, {0}, {0}, \h13)
    BY <1>3, <2>1, RowPoll, Zenon
  <2>3. \/ Row(todo', mcg', st', Fbi4, R1, {0, 1}, {1}, {0}, {0}) /\ ret' = ret
        \/ Row(todo', mcg', st', <<>>, R1, {0, 1}, {1}, {0}, {0}) /\ ret' = \h13
    BY <2>2, Zenon DEF Sees
  <2>4. ASSUME Row(todo', mcg', st', <<>>, R1, {0, 1}, {1}, {0}, {0})
        PROVE  todo' = <<>> /\ On(mcg', st', R1, {0, 1}, {1}, {0}, {0})
    BY <2>4, Zenon DEF Row, On
  <2>5. CASE Row(todo', mcg', st', Fbi4, R1, {0, 1}, {1}, {0}, {0}) /\ ret' = ret
    BY <2>5, Zenon DEF FbiRows
  <2>6. CASE Row(todo', mcg', st', <<>>, R1, {0, 1}, {1}, {0}, {0}) /\ ret' = \h13
    <3>1. todo' = <<>> /\ FbiRests(mcg', st')
      BY <2>4, <2>6, Zenon DEF FbiRests
    <3>. QED
      BY <3>1
  <2>. QED
    BY <2>3, <2>5, <2>6
<1>4. CASE Row(todo, mcg, st, Fbi4, R1, {0, 1}, {1}, {0}, {0})
  <2>1. First(Fbi4, Poll("clkst", 1, \h19), Fbi5)
    BY BootLists, Zenon
  <2>2. Sees(todo', mcg', st', ret', Fbi5, R1, {0, 1}, {1}, {0}, {0}, {1}, {1}, {0}, {0}, \h19)
    BY <1>4, <2>1, RowPoll, Zenon
  <2>3. \/ Row(todo', mcg', st', Fbi5, R1, {1}, {1}, {0}, {0}) /\ ret' = ret
        \/ Row(todo', mcg', st', <<>>, R1, {0, 1}, {1}, {0}, {0}) /\ ret' = \h19
    BY <2>2, Zenon DEF Sees
  <2>4. ASSUME Row(todo', mcg', st', <<>>, R1, {0, 1}, {1}, {0}, {0})
        PROVE  todo' = <<>> /\ On(mcg', st', R1, {0, 1}, {1}, {0}, {0})
    BY <2>4, Zenon DEF Row, On
  <2>5. CASE Row(todo', mcg', st', Fbi5, R1, {1}, {1}, {0}, {0}) /\ ret' = ret
    BY <2>5, Zenon DEF FbiRows
  <2>6. CASE Row(todo', mcg', st', <<>>, R1, {0, 1}, {1}, {0}, {0}) /\ ret' = \h19
    <3>1. todo' = <<>> /\ FbiRests(mcg', st')
      BY <2>4, <2>6, Zenon DEF FbiRests
    <3>. QED
      BY <3>1
  <2>. QED
    BY <2>3, <2>5, <2>6
<1>5. CASE Row(todo, mcg, st, Fbi5, R1, {1}, {1}, {0}, {0})
  <2>1. Fbi5 = <<Done>>
    BY BootLists, Zenon
  <2>1a. Row(todo, mcg, st, <<Done>>, R1, {1}, {1}, {0}, {0})
    BY <1>5, <2>1
  <2>2. Row(todo', mcg', st', <<>>, R1, {1}, {1}, {0}, {0}) /\ ret' = ret
    BY <2>1a, RowReturn, Zenon
  <2>3. todo' = <<>> /\ On(mcg', st', R1, {0, 1}, {1}, {0}, {0})
    BY <2>2, Zenon DEF Row, On
  <2>. QED
    BY <2>2, <2>3, Zenon DEF FbiRests
<1>. QED
  BY <1>1, <1>2, <1>3, <1>4, <1>5, Zenon DEF FbiRows

\* The status settles during fei_fbi.
LEMMA FbiSettles ==
  ASSUME Settle, FbiRows(todo, mcg, st)
  PROVE  FbiRows(todo', mcg', st') /\ ret' = ret
<1>0. 0 \in Bit /\ 1 \in Bit
  BY SMT DEF Bit
<1>1. CASE Row(todo, mcg, st, Fbi1, R0, {0}, {1}, {0}, {0})
  <2>1. Within(R0, {0}, {1}, {0}, {0})
    BY <1>0, BootWithin, Zenon
  <2>2. Row(todo', mcg', st', Fbi1, R0, {0}, {1}, {0}, {0}) /\ ret' = ret
    BY <1>1, <2>1, RowSettle, Zenon
  <2>. QED
    BY <2>2, Zenon DEF FbiRows
<1>2. CASE Row(todo, mcg, st, Fbi2, R0, {0}, {1}, {0}, {0})
  <2>1. Within(R0, {0}, {1}, {0}, {0})
    BY <1>0, BootWithin, Zenon
  <2>2. Row(todo', mcg', st', Fbi2, R0, {0}, {1}, {0}, {0}) /\ ret' = ret
    BY <1>2, <2>1, RowSettle, Zenon
  <2>. QED
    BY <2>2, Zenon DEF FbiRows
<1>3. CASE Row(todo, mcg, st, Fbi3, R1, {0, 1}, {1}, {0}, {0})
  <2>1. Within(R1, {0, 1}, {1}, {0}, {0})
    BY <1>0, BootWithin, Zenon
  <2>2. Row(todo', mcg', st', Fbi3, R1, {0, 1}, {1}, {0}, {0}) /\ ret' = ret
    BY <1>3, <2>1, RowSettle, Zenon
  <2>. QED
    BY <2>2, Zenon DEF FbiRows
<1>4. CASE Row(todo, mcg, st, Fbi4, R1, {0, 1}, {1}, {0}, {0})
  <2>1. Within(R1, {0, 1}, {1}, {0}, {0})
    BY <1>0, BootWithin, Zenon
  <2>2. Row(todo', mcg', st', Fbi4, R1, {0, 1}, {1}, {0}, {0}) /\ ret' = ret
    BY <1>4, <2>1, RowSettle, Zenon
  <2>. QED
    BY <2>2, Zenon DEF FbiRows
<1>5. CASE Row(todo, mcg, st, Fbi5, R1, {1}, {1}, {0}, {0})
  <2>1. Within(R1, {1}, {1}, {0}, {0})
    BY <1>0, BootWithin, Zenon
  <2>2. Row(todo', mcg', st', Fbi5, R1, {1}, {1}, {0}, {0}) /\ ret' = ret
    BY <1>5, <2>1, RowSettle, Zenon
  <2>. QED
    BY <2>2, Zenon DEF FbiRows
<1>. QED
  BY <1>1, <1>2, <1>3, <1>4, <1>5, Zenon DEF FbiRows

\* The steps of fbi_fbe.
LEMMA FbeStep ==
  ASSUME Step, FbeRows(todo, mcg, st)
  PROVE  FbeRows(todo', mcg', st') \/ (todo' = <<>> /\ FbeRests(mcg', st'))
<1>1. CASE Row(todo, mcg, st, Fbe1, R1, {1}, {1}, {0}, {0})
  <2>1. First(Fbe1, Write(R2), Fbe2)
    BY BootLists, Zenon
  <2>0. 0 \in Bit
    BY SMT DEF Bit
  <2>2. Hands(R1, {1}, {1}, {0}, {0}, R2, {1}, {1}, {0}, {0})
    BY <2>0, BootWrites, Zenon
  <2>3. Row(todo', mcg', st', Fbe2, R2, {1}, {1}, {0}, {0}) /\ ret' = ret
    BY <1>1, <2>1, <2>2, RowWrite, Zenon
  <2>. QED
    BY <2>3, Zenon DEF FbeRows
<1>2. CASE Row(todo, mcg, st, Fbe2, R2, {1}, {1}, {0}, {0})
  <2>1. First(Fbe2, Write(R3(0)), Fbe3)
    BY BootLists, Zenon
  <2>0. 0 \in Bit
    BY SMT DEF Bit
  <2>2. Hands(R2, {1}, {1}, {0}, {0}, R3(0), {1, 2}, {0, 1}, {0}, {0})
    BY <2>0, BootWrites, Zenon
  <2>3. Row(todo', mcg', st', Fbe3, R3(0), {1, 2}, {0, 1}, {0}, {0}) /\ ret' = ret
    BY <1>2, <2>1, <2>2, RowWrite, Zenon
  <2>. QED
    BY <2>3, Zenon DEF FbeRows
<1>3. CASE Row(todo, mcg, st, Fbe3, R3(0), {1, 2}, {0, 1}, {0}, {0})
  <2>1. First(Fbe3, Poll("irefst", 0, \h11), Fbe4)
    BY BootLists, Zenon
  <2>2. Sees(todo', mcg', st', ret', Fbe4, R3(0), {1, 2}, {0, 1}, {0}, {0}, {1, 2}, {0}, {0}, {0}, \h11)
    BY <1>3, <2>1, RowPoll, Zenon
  <2>3. \/ Row(todo', mcg', st', Fbe4, R3(0), {1, 2}, {0}, {0}, {0}) /\ ret' = ret
        \/ Row(todo', mcg', st', <<>>, R3(0), {1, 2}, {0, 1}, {0}, {0}) /\ ret' = \h11
    BY <2>2, Zenon DEF Sees
  <2>4. ASSUME Row(todo', mcg', st', <<>>, R3(0), {1, 2}, {0, 1}, {0}, {0})
        PROVE  todo' = <<>> /\ On(mcg', st', R3(0), {1, 2}, {0, 1}, {0}, {0})
    BY <2>4, Zenon DEF Row, On
  <2>5. CASE Row(todo', mcg', st', Fbe4, R3(0), {1, 2}, {0}, {0}, {0}) /\ ret' = ret
    BY <2>5, Zenon DEF FbeRows
  <2>6. CASE Row(todo', mcg', st', <<>>, R3(0), {1, 2}, {0, 1}, {0}, {0}) /\ ret' = \h11
    <3>1. todo' = <<>> /\ FbeRests(mcg', st')
      BY <2>4, <2>6, Zenon DEF FbeRests
    <3>. QED
      BY <3>1
  <2>. QED
    BY <2>3, <2>5, <2>6
<1>4. CASE Row(todo, mcg, st, Fbe4, R3(0), {1, 2}, {0}, {0}, {0})
  <2>1. First(Fbe4, Poll("clkst", 2, \h1A), Fbe5)
    BY BootLists, Zenon
  <2>2. Sees(todo', mcg', st', ret', Fbe5, R3(0), {1, 2}, {0}, {0}, {0}, {2}, {0}, {0}, {0}, \h1A)
    BY <1>4, <2>1, RowPoll, Zenon
  <2>3. \/ Row(todo', mcg', st', Fbe5, R3(0), {2}, {0}, {0}, {0}) /\ ret' = ret
        \/ Row(todo', mcg', st', <<>>, R3(0), {1, 2}, {0}, {0}, {0}) /\ ret' = \h1A
    BY <2>2, Zenon DEF Sees
  <2>4. ASSUME Row(todo', mcg', st', <<>>, R3(0), {1, 2}, {0}, {0}, {0})
        PROVE  todo' = <<>> /\ On(mcg', st', R3(0), {1, 2}, {0, 1}, {0}, {0})
    BY <2>4, Zenon DEF Row, On
  <2>5. CASE Row(todo', mcg', st', Fbe5, R3(0), {2}, {0}, {0}, {0}) /\ ret' = ret
    BY <2>5, Zenon DEF FbeRows
  <2>6. CASE Row(todo', mcg', st', <<>>, R3(0), {1, 2}, {0}, {0}, {0}) /\ ret' = \h1A
    <3>1. todo' = <<>> /\ FbeRests(mcg', st')
      BY <2>4, <2>6, Zenon DEF FbeRests
    <3>. QED
      BY <3>1
  <2>. QED
    BY <2>3, <2>5, <2>6
<1>5. CASE Row(todo, mcg, st, Fbe5, R3(0), {2}, {0}, {0}, {0})
  <2>1. First(Fbe5, Write(R3(1)), Fbe6)
    BY BootLists, Zenon
  <2>0. 0 \in Bit
    BY SMT DEF Bit
  <2>2. Hands(R3(0), {2}, {0}, {0}, {0}, R3(1), {2}, {0}, {0}, {0})
    BY <2>0, BootWrites, Zenon
  <2>3. Row(todo', mcg', st', Fbe6, R3(1), {2}, {0}, {0}, {0}) /\ ret' = ret
    BY <1>5, <2>1, <2>2, RowWrite, Zenon
  <2>. QED
    BY <2>3, Zenon DEF FbeRows
<1>6. CASE Row(todo, mcg, st, Fbe6, R3(1), {2}, {0}, {0}, {0})
  <2>1. Fbe6 = <<Done>>
    BY BootLists, Zenon
  <2>1a. Row(todo, mcg, st, <<Done>>, R3(1), {2}, {0}, {0}, {0})
    BY <1>6, <2>1
  <2>2. Row(todo', mcg', st', <<>>, R3(1), {2}, {0}, {0}, {0}) /\ ret' = ret
    BY <2>1a, RowReturn, Zenon
  <2>3. todo' = <<>> /\ On(mcg', st', R3(1), {2}, {0}, {0}, {0})
    BY <2>2, Zenon DEF Row, On
  <2>. QED
    BY <2>2, <2>3, Zenon DEF FbeRests
<1>. QED
  BY <1>1, <1>2, <1>3, <1>4, <1>5, <1>6, Zenon DEF FbeRows

\* The status settles during fbi_fbe.
LEMMA FbeSettles ==
  ASSUME Settle, FbeRows(todo, mcg, st)
  PROVE  FbeRows(todo', mcg', st') /\ ret' = ret
<1>0. 0 \in Bit /\ 1 \in Bit
  BY SMT DEF Bit
<1>1. CASE Row(todo, mcg, st, Fbe1, R1, {1}, {1}, {0}, {0})
  <2>1. Within(R1, {1}, {1}, {0}, {0})
    BY <1>0, BootWithin, Zenon
  <2>2. Row(todo', mcg', st', Fbe1, R1, {1}, {1}, {0}, {0}) /\ ret' = ret
    BY <1>1, <2>1, RowSettle, Zenon
  <2>. QED
    BY <2>2, Zenon DEF FbeRows
<1>2. CASE Row(todo, mcg, st, Fbe2, R2, {1}, {1}, {0}, {0})
  <2>1. Within(R2, {1}, {1}, {0}, {0})
    BY <1>0, BootWithin, Zenon
  <2>2. Row(todo', mcg', st', Fbe2, R2, {1}, {1}, {0}, {0}) /\ ret' = ret
    BY <1>2, <2>1, RowSettle, Zenon
  <2>. QED
    BY <2>2, Zenon DEF FbeRows
<1>3. CASE Row(todo, mcg, st, Fbe3, R3(0), {1, 2}, {0, 1}, {0}, {0})
  <2>1. Within(R3(0), {1, 2}, {0, 1}, {0}, {0})
    BY <1>0, BootWithin, Zenon
  <2>2. Row(todo', mcg', st', Fbe3, R3(0), {1, 2}, {0, 1}, {0}, {0}) /\ ret' = ret
    BY <1>3, <2>1, RowSettle, Zenon
  <2>. QED
    BY <2>2, Zenon DEF FbeRows
<1>4. CASE Row(todo, mcg, st, Fbe4, R3(0), {1, 2}, {0}, {0}, {0})
  <2>1. Within(R3(0), {1, 2}, {0}, {0}, {0})
    BY <1>0, BootWithin, Zenon
  <2>2. Row(todo', mcg', st', Fbe4, R3(0), {1, 2}, {0}, {0}, {0}) /\ ret' = ret
    BY <1>4, <2>1, RowSettle, Zenon
  <2>. QED
    BY <2>2, Zenon DEF FbeRows
<1>5. CASE Row(todo, mcg, st, Fbe5, R3(0), {2}, {0}, {0}, {0})
  <2>1. Within(R3(0), {2}, {0}, {0}, {0})
    BY <1>0, BootWithin, Zenon
  <2>2. Row(todo', mcg', st', Fbe5, R3(0), {2}, {0}, {0}, {0}) /\ ret' = ret
    BY <1>5, <2>1, RowSettle, Zenon
  <2>. QED
    BY <2>2, Zenon DEF FbeRows
<1>6. CASE Row(todo, mcg, st, Fbe6, R3(1), {2}, {0}, {0}, {0})
  <2>1. Within(R3(1), {2}, {0}, {0}, {0})
    BY <1>0, BootWithin, Zenon
  <2>2. Row(todo', mcg', st', Fbe6, R3(1), {2}, {0}, {0}, {0}) /\ ret' = ret
    BY <1>6, <2>1, RowSettle, Zenon
  <2>. QED
    BY <2>2, Zenon DEF FbeRows
<1>. QED
  BY <1>1, <1>2, <1>3, <1>4, <1>5, <1>6, Zenon DEF FbeRows

\* The steps of fbe_pbe.
LEMMA PbeStep ==
  ASSUME Step, NEW m \in Bit, PbeRows(m, todo, mcg, st)
  PROVE  PbeRows(m, todo', mcg', st') \/ (todo' = <<>> /\ PbeRests(mcg', st'))
<1>1. CASE Row(todo, mcg, st, Pbe1(m), R3(m), {2}, {0}, {0}, {0})
  <2>1. First(Pbe1(m), Write(R4(m)), Pbe2(m))
    BY BootLists, Zenon
  <2>2. Hands(R3(m), {2}, {0}, {0}, {0}, R4(m), {2}, {0}, {0}, {0})
    BY BootWrites, Zenon
  <2>3. Row(todo', mcg', st', Pbe2(m), R4(m), {2}, {0}, {0}, {0}) /\ ret' = ret
    BY <1>1, <2>1, <2>2, RowWrite, Zenon
  <2>. QED
    BY <2>3, Zenon DEF PbeRows
<1>2. CASE Row(todo, mcg, st, Pbe2(m), R4(m), {2}, {0}, {0}, {0})
  <2>1. First(Pbe2(m), Write(R5(m)), Pbe3(m))
    BY BootLists, Zenon
  <2>2. Hands(R4(m), {2}, {0}, {0}, {0}, R5(m), {2}, {0}, {0, 1}, {0, 1})
    BY BootWrites, Zenon
  <2>3. Row(todo', mcg', st', Pbe3(m), R5(m), {2}, {0}, {0, 1}, {0, 1}) /\ ret' = ret
    BY <1>2, <2>1, <2>2, RowWrite, Zenon
  <2>. QED
    BY <2>3, Zenon DEF PbeRows
<1>3. CASE Row(todo, mcg, st, Pbe3(m), R5(m), {2}, {0}, {0, 1}, {0, 1})
  <2>1. First(Pbe3(m), Poll("pllst", 1, \h16), Pbe4(m))
    BY BootLists, Zenon
  <2>2. Sees(todo', mcg', st', ret', Pbe4(m), R5(m), {2}, {0}, {0, 1}, {0, 1}, {2}, {0}, {1}, {0, 1}, \h16)
    BY <1>3, <2>1, RowPoll, Zenon
  <2>3. \/ Row(todo', mcg', st', Pbe4(m), R5(m), {2}, {0}, {1}, {0, 1}) /\ ret' = ret
        \/ Row(todo', mcg', st', <<>>, R5(m), {2}, {0}, {0, 1}, {0, 1}) /\ ret' = \h16
    BY <2>2, Zenon DEF Sees
  <2>4. ASSUME Row(todo', mcg', st', <<>>, R5(m), {2}, {0}, {0, 1}, {0, 1})
        PROVE  todo' = <<>> /\ On(mcg', st', R5(m), {2}, {0}, {0, 1}, {0, 1})
    BY <2>4, Zenon DEF Row, On
  <2>5. CASE Row(todo', mcg', st', Pbe4(m), R5(m), {2}, {0}, {1}, {0, 1}) /\ ret' = ret
    BY <2>5, Zenon DEF PbeRows
  <2>6. CASE Row(todo', mcg', st', <<>>, R5(m), {2}, {0}, {0, 1}, {0, 1}) /\ ret' = \h16
    <3>1. todo' = <<>> /\ PbeRests(mcg', st')
      BY <2>4, <2>6, Zenon DEF PbeRests
    <3>. QED
      BY <3>1
  <2>. QED
    BY <2>3, <2>5, <2>6
<1>4. CASE Row(todo, mcg, st, Pbe4(m), R5(m), {2}, {0}, {1}, {0, 1})
  <2>1. First(Pbe4(m), Poll("lock0", 1, \h44), Pbe5(m))
    BY BootLists, Zenon
  <2>2. Sees(todo', mcg', st', ret', Pbe5(m), R5(m), {2}, {0}, {1}, {0, 1}, {2}, {0}, {1}, {1}, \h44)
    BY <1>4, <2>1, RowPoll, Zenon
  <2>3. \/ Row(todo', mcg', st', Pbe5(m), R5(m), {2}, {0}, {1}, {1}) /\ ret' = ret
        \/ Row(todo', mcg', st', <<>>, R5(m), {2}, {0}, {1}, {0, 1}) /\ ret' = \h44
    BY <2>2, Zenon DEF Sees
  <2>4. ASSUME Row(todo', mcg', st', <<>>, R5(m), {2}, {0}, {1}, {0, 1})
        PROVE  todo' = <<>> /\ On(mcg', st', R5(m), {2}, {0}, {0, 1}, {0, 1})
    BY <2>4, Zenon DEF Row, On
  <2>5. CASE Row(todo', mcg', st', Pbe5(m), R5(m), {2}, {0}, {1}, {1}) /\ ret' = ret
    BY <2>5, Zenon DEF PbeRows
  <2>6. CASE Row(todo', mcg', st', <<>>, R5(m), {2}, {0}, {1}, {0, 1}) /\ ret' = \h44
    <3>1. todo' = <<>> /\ PbeRests(mcg', st')
      BY <2>4, <2>6, Zenon DEF PbeRests
    <3>. QED
      BY <3>1
  <2>. QED
    BY <2>3, <2>5, <2>6
<1>5. CASE Row(todo, mcg, st, Pbe5(m), R5(m), {2}, {0}, {1}, {1})
  <2>1. Pbe5(m) = <<Done>>
    BY BootLists, Zenon
  <2>1a. Row(todo, mcg, st, <<Done>>, R5(m), {2}, {0}, {1}, {1})
    BY <1>5, <2>1
  <2>2. Row(todo', mcg', st', <<>>, R5(m), {2}, {0}, {1}, {1}) /\ ret' = ret
    BY <2>1a, RowReturn, Zenon
  <2>3. todo' = <<>> /\ On(mcg', st', R5(m), {2}, {0}, {0, 1}, {0, 1})
    BY <2>2, Zenon DEF Row, On
  <2>. QED
    BY <2>2, <2>3, Zenon DEF PbeRests
<1>. QED
  BY <1>1, <1>2, <1>3, <1>4, <1>5, Zenon DEF PbeRows

\* The status settles during fbe_pbe.
LEMMA PbeSettles ==
  ASSUME Settle, NEW m \in Bit, PbeRows(m, todo, mcg, st)
  PROVE  PbeRows(m, todo', mcg', st') /\ ret' = ret
<1>1. CASE Row(todo, mcg, st, Pbe1(m), R3(m), {2}, {0}, {0}, {0})
  <2>1. Within(R3(m), {2}, {0}, {0}, {0})
    BY BootWithin, Zenon
  <2>2. Row(todo', mcg', st', Pbe1(m), R3(m), {2}, {0}, {0}, {0}) /\ ret' = ret
    BY <1>1, <2>1, RowSettle, Zenon
  <2>. QED
    BY <2>2, Zenon DEF PbeRows
<1>2. CASE Row(todo, mcg, st, Pbe2(m), R4(m), {2}, {0}, {0}, {0})
  <2>1. Within(R4(m), {2}, {0}, {0}, {0})
    BY BootWithin, Zenon
  <2>2. Row(todo', mcg', st', Pbe2(m), R4(m), {2}, {0}, {0}, {0}) /\ ret' = ret
    BY <1>2, <2>1, RowSettle, Zenon
  <2>. QED
    BY <2>2, Zenon DEF PbeRows
<1>3. CASE Row(todo, mcg, st, Pbe3(m), R5(m), {2}, {0}, {0, 1}, {0, 1})
  <2>1. Within(R5(m), {2}, {0}, {0, 1}, {0, 1})
    BY BootWithin, Zenon
  <2>2. Row(todo', mcg', st', Pbe3(m), R5(m), {2}, {0}, {0, 1}, {0, 1}) /\ ret' = ret
    BY <1>3, <2>1, RowSettle, Zenon
  <2>. QED
    BY <2>2, Zenon DEF PbeRows
<1>4. CASE Row(todo, mcg, st, Pbe4(m), R5(m), {2}, {0}, {1}, {0, 1})
  <2>1. Within(R5(m), {2}, {0}, {1}, {0, 1})
    BY BootWithin, Zenon
  <2>2. Row(todo', mcg', st', Pbe4(m), R5(m), {2}, {0}, {1}, {0, 1}) /\ ret' = ret
    BY <1>4, <2>1, RowSettle, Zenon
  <2>. QED
    BY <2>2, Zenon DEF PbeRows
<1>5. CASE Row(todo, mcg, st, Pbe5(m), R5(m), {2}, {0}, {1}, {1})
  <2>1. Within(R5(m), {2}, {0}, {1}, {1})
    BY BootWithin, Zenon
  <2>2. Row(todo', mcg', st', Pbe5(m), R5(m), {2}, {0}, {1}, {1}) /\ ret' = ret
    BY <1>5, <2>1, RowSettle, Zenon
  <2>. QED
    BY <2>2, Zenon DEF PbeRows
<1>. QED
  BY <1>1, <1>2, <1>3, <1>4, <1>5, Zenon DEF PbeRows

\* The steps of pbe_pee.
LEMMA PeeStep ==
  ASSUME Step, NEW m \in Bit, PeeRows(m, todo, mcg, st)
  PROVE  \/ PeeRows(m, todo', mcg', st') /\ ret' = ret
         \/ todo' = <<>> /\ PeeRests(mcg', st') /\ ret' \in ErrorCode
         \/ todo' = <<>> /\ Arrived(mcg', st') /\ ret' = ret
<1>1. CASE Row(todo, mcg, st, Pee1(m), R5(m), {2}, {0}, {1}, {0, 1})
  <2>1. First(Pee1(m), Poll("lock0", 1, \h44), Pee2(m))
    BY BootLists, Zenon
  <2>2. Sees(todo', mcg', st', ret', Pee2(m), R5(m), {2}, {0}, {1}, {0, 1}, {2}, {0}, {1}, {1}, \h44)
    BY <1>1, <2>1, RowPoll, Zenon
  <2>3. \/ Row(todo', mcg', st', Pee2(m), R5(m), {2}, {0}, {1}, {1}) /\ ret' = ret
        \/ Row(todo', mcg', st', <<>>, R5(m), {2}, {0}, {1}, {0, 1}) /\ ret' = \h44
    BY <2>2, Zenon DEF Sees
  <2>4. ASSUME Row(todo', mcg', st', <<>>, R5(m), {2}, {0}, {1}, {0, 1})
        PROVE  todo' = <<>> /\ On(mcg', st', R5(m), {2}, {0}, {0, 1}, {0, 1})
    BY <2>4, Zenon DEF Row, On
  <2>5. CASE Row(todo', mcg', st', Pee2(m), R5(m), {2}, {0}, {1}, {1}) /\ ret' = ret
    BY <2>5, Zenon DEF PeeRows
  <2>6. CASE Row(todo', mcg', st', <<>>, R5(m), {2}, {0}, {1}, {0, 1}) /\ ret' = \h44
    <3>1. todo' = <<>> /\ PeeRests(mcg', st')
      BY <2>4, <2>6, Zenon DEF PeeRests, PbeRests
    <3>2. ret' \in ErrorCode
      BY <2>6, Codes
    <3>. QED
      BY <3>1, <3>2
  <2>. QED
    BY <2>3, <2>5, <2>6
<1>2. CASE Row(todo, mcg, st, Pee2(m), R5(m), {2}, {0}, {1}, {1})
  <2>1. First(Pee2(m), Write(R6(m)), Pee3(m))
    BY BootLists, Zenon
  <2>2. Hands(R5(m), {2}, {0}, {1}, {1}, R6(m), {2, 3}, {0}, {1}, {1})
    BY BootWrites, Zenon
  <2>3. Row(todo', mcg', st', Pee3(m), R6(m), {2, 3}, {0}, {1}, {1}) /\ ret' = ret
    BY <1>2, <2>1, <2>2, RowWrite, Zenon
  <2>. QED
    BY <2>3, Zenon DEF PeeRows
<1>3. CASE Row(todo, mcg, st, Pee3(m), R6(m), {2, 3}, {0}, {1}, {1})
  <2>1. First(Pee3(m), Poll("clkst", 3, \h1B), Pee4(m))
    BY BootLists, Zenon
  <2>2. Sees(todo', mcg', st', ret', Pee4(m), R6(m), {2, 3}, {0}, {1}, {1}, {3}, {0}, {1}, {1}, \h1B)
    BY <1>3, <2>1, RowPoll, Zenon
  <2>3. \/ Row(todo', mcg', st', Pee4(m), R6(m), {3}, {0}, {1}, {1}) /\ ret' = ret
        \/ Row(todo', mcg', st', <<>>, R6(m), {2, 3}, {0}, {1}, {1}) /\ ret' = \h1B
    BY <2>2, Zenon DEF Sees
  <2>4. ASSUME Row(todo', mcg', st', <<>>, R6(m), {2, 3}, {0}, {1}, {1})
        PROVE  todo' = <<>> /\ On(mcg', st', R6(m), {2, 3}, {0}, {1}, {1})
    BY <2>4, Zenon DEF Row, On
  <2>5. CASE Row(todo', mcg', st', Pee4(m), R6(m), {3}, {0}, {1}, {1}) /\ ret' = ret
    BY <2>5, Zenon DEF PeeRows
  <2>6. CASE Row(todo', mcg', st', <<>>, R6(m), {2, 3}, {0}, {1}, {1}) /\ ret' = \h1B
    <3>1. todo' = <<>> /\ PeeRests(mcg', st')
      BY <2>4, <2>6, Zenon DEF PeeRests, PbeRests
    <3>2. ret' \in ErrorCode
      BY <2>6, Codes
    <3>. QED
      BY <3>1, <3>2
  <2>. QED
    BY <2>3, <2>5, <2>6
<1>4. CASE Row(todo, mcg, st, Pee4(m), R6(m), {3}, {0}, {1}, {1})
  <2>1. Pee4(m) = <<Done>>
    BY BootLists, Zenon
  <2>1a. Row(todo, mcg, st, <<Done>>, R6(m), {3}, {0}, {1}, {1})
    BY <1>4, <2>1
  <2>2. Row(todo', mcg', st', <<>>, R6(m), {3}, {0}, {1}, {1}) /\ ret' = ret
    BY <2>1a, RowReturn, Zenon
  <2>3. todo' = <<>> /\ On(mcg', st', R6(m), {3}, {0}, {1}, {1})
    BY <2>2, Zenon DEF Row, On
  <2>. QED
    BY <2>2, <2>3, Zenon DEF Arrived
<1>. QED
  BY <1>1, <1>2, <1>3, <1>4, Zenon DEF PeeRows

\* The status settles during pbe_pee.
LEMMA PeeSettles ==
  ASSUME Settle, NEW m \in Bit, PeeRows(m, todo, mcg, st)
  PROVE  PeeRows(m, todo', mcg', st') /\ ret' = ret
<1>1. CASE Row(todo, mcg, st, Pee1(m), R5(m), {2}, {0}, {1}, {0, 1})
  <2>1. Within(R5(m), {2}, {0}, {1}, {0, 1})
    BY BootWithin, Zenon
  <2>2. Row(todo', mcg', st', Pee1(m), R5(m), {2}, {0}, {1}, {0, 1}) /\ ret' = ret
    BY <1>1, <2>1, RowSettle, Zenon
  <2>. QED
    BY <2>2, Zenon DEF PeeRows
<1>2. CASE Row(todo, mcg, st, Pee2(m), R5(m), {2}, {0}, {1}, {1})
  <2>1. Within(R5(m), {2}, {0}, {1}, {1})
    BY BootWithin, Zenon
  <2>2. Row(todo', mcg', st', Pee2(m), R5(m), {2}, {0}, {1}, {1}) /\ ret' = ret
    BY <1>2, <2>1, RowSettle, Zenon
  <2>. QED
    BY <2>2, Zenon DEF PeeRows
<1>3. CASE Row(todo, mcg, st, Pee3(m), R6(m), {2, 3}, {0}, {1}, {1})
  <2>1. Within(R6(m), {2, 3}, {0}, {1}, {1})
    BY BootWithin, Zenon
  <2>2. Row(todo', mcg', st', Pee3(m), R6(m), {2, 3}, {0}, {1}, {1}) /\ ret' = ret
    BY <1>3, <2>1, RowSettle, Zenon
  <2>. QED
    BY <2>2, Zenon DEF PeeRows
<1>4. CASE Row(todo, mcg, st, Pee4(m), R6(m), {3}, {0}, {1}, {1})
  <2>1. Within(R6(m), {3}, {0}, {1}, {1})
    BY BootWithin, Zenon
  <2>2. Row(todo', mcg', st', Pee4(m), R6(m), {3}, {0}, {1}, {1}) /\ ret' = ret
    BY <1>4, <2>1, RowSettle, Zenon
  <2>. QED
    BY <2>2, Zenon DEF PeeRows
<1>. QED
  BY <1>1, <1>2, <1>3, <1>4, Zenon DEF PeeRows

\* The status settles between the calls.
LEMMA RestsSettle ==
  ASSUME Settle
  PROVE  /\ On(mcg, st, R0, {0}, {1}, {0}, {0}) => On(mcg', st', R0, {0}, {1}, {0}, {0})
         /\ FbiRests(mcg, st) => FbiRests(mcg', st')
         /\ FbeRests(mcg, st) => FbeRests(mcg', st')
         /\ PbeRests(mcg, st) => PbeRests(mcg', st')
         /\ PeeRests(mcg, st) => PeeRests(mcg', st')
         /\ Arrived(mcg, st) => Arrived(mcg', st')
<1>0. 0 \in Bit /\ 1 \in Bit
  BY SMT DEF Bit
<1>1. ASSUME On(mcg, st, R0, {0}, {1}, {0}, {0})
      PROVE  On(mcg', st', R0, {0}, {1}, {0}, {0})
  <2>1. Within(R0, {0}, {1}, {0}, {0})
    BY <1>0, BootWithin, Zenon
  <2>. QED
    BY <1>1, <2>1, SettleOn, Zenon
<1>2. ASSUME On(mcg, st, R1, {0, 1}, {1}, {0}, {0})
      PROVE  On(mcg', st', R1, {0, 1}, {1}, {0}, {0})
  <2>1. Within(R1, {0, 1}, {1}, {0}, {0})
    BY <1>0, BootWithin, Zenon
  <2>. QED
    BY <1>2, <2>1, SettleOn, Zenon
<1>3. ASSUME On(mcg, st, R3(0), {1, 2}, {0, 1}, {0}, {0})
      PROVE  On(mcg', st', R3(0), {1, 2}, {0, 1}, {0}, {0})
  <2>1. Within(R3(0), {1, 2}, {0, 1}, {0}, {0})
    BY <1>0, BootWithin, Zenon
  <2>. QED
    BY <1>3, <2>1, SettleOn, Zenon
<1>4. ASSUME On(mcg, st, R3(1), {2}, {0}, {0}, {0})
      PROVE  On(mcg', st', R3(1), {2}, {0}, {0}, {0})
  <2>1. Within(R3(1), {2}, {0}, {0}, {0})
    BY <1>0, BootWithin, Zenon
  <2>. QED
    BY <1>4, <2>1, SettleOn, Zenon
<1>5. ASSUME NEW m \in Bit, On(mcg, st, R5(m), {2}, {0}, {0, 1}, {0, 1})
      PROVE  On(mcg', st', R5(m), {2}, {0}, {0, 1}, {0, 1})
  <2>1. Within(R5(m), {2}, {0}, {0, 1}, {0, 1})
    BY <1>0, BootWithin, Zenon
  <2>. QED
    BY <1>5, <2>1, SettleOn, Zenon
<1>6. ASSUME NEW m \in Bit, On(mcg, st, R6(m), {2, 3}, {0}, {1}, {1})
      PROVE  On(mcg', st', R6(m), {2, 3}, {0}, {1}, {1})
  <2>1. Within(R6(m), {2, 3}, {0}, {1}, {1})
    BY <1>0, BootWithin, Zenon
  <2>. QED
    BY <1>6, <2>1, SettleOn, Zenon
<1>7. ASSUME NEW m \in Bit, On(mcg, st, R6(m), {3}, {0}, {1}, {1})
      PROVE  On(mcg', st', R6(m), {3}, {0}, {1}, {1})
  <2>1. Within(R6(m), {3}, {0}, {1}, {1})
    BY <1>0, BootWithin, Zenon
  <2>. QED
    BY <1>7, <2>1, SettleOn, Zenon
<1>8. FbiRests(mcg, st) => FbiRests(mcg', st')
  BY <1>1, <1>2, Zenon DEF FbiRests
<1>9. FbeRests(mcg, st) => FbeRests(mcg', st')
  BY <1>3, <1>4, <1>8, Zenon DEF FbeRests
<1>10. PbeRests(mcg, st) => PbeRests(mcg', st')
  BY <1>5, <1>9, Zenon DEF PbeRests
<1>11. PeeRests(mcg, st) => PeeRests(mcg', st')
  BY <1>6, <1>10, Zenon DEF PeeRests
<1>12. Arrived(mcg, st) => Arrived(mcg', st')
  BY <1>7, Zenon DEF Arrived
<1>. QED
  BY <1>1, <1>8, <1>9, <1>10, <1>11, <1>12

\* Three steps and one.
LEMMA Joined31 ==
  ASSUME NEW x1, NEW x2, NEW x3, NEW x4
  PROVE  <<x1, x2, x3>> \o <<x4>> = <<x1, x2, x3, x4>>
<1>. DEFINE s == <<x1, x2, x3>> \o <<x4>>  u == <<x1, x2, x3, x4>>  S == {x1, x2, x3, x4}
<1>0. x1 \in S /\ x2 \in S /\ x3 \in S /\ x4 \in S
  OBVIOUS
<1>. HIDE DEF S
<1>1. s \in Seq(S) /\ Len(s) = 4 /\ s[1] = x1 /\ s[2] = x2 /\ s[3] = x3 /\ s[4] = x4
  BY <1>0, SMT
<1>2. u \in Seq(S) /\ Len(u) = 4 /\ u[1] = x1 /\ u[2] = x2 /\ u[3] = x3 /\ u[4] = x4
  BY <1>0, SMT
<1>. HIDE DEF s, u
<1>3. s = u
  BY <1>1, <1>2, SMT
<1>. QED
  BY <1>3 DEF s, u

\* Three steps and two.
LEMMA Joined32 ==
  ASSUME NEW x1, NEW x2, NEW x3, NEW x4, NEW x5
  PROVE  <<x1, x2, x3>> \o <<x4, x5>> = <<x1, x2, x3, x4, x5>>
<1>. DEFINE s == <<x1, x2, x3>> \o <<x4, x5>>  u == <<x1, x2, x3, x4, x5>>  S == {x1, x2, x3, x4, x5}
<1>0. x1 \in S /\ x2 \in S /\ x3 \in S /\ x4 \in S /\ x5 \in S
  OBVIOUS
<1>. HIDE DEF S
<1>1. s \in Seq(S) /\ Len(s) = 5 /\ s[1] = x1 /\ s[2] = x2 /\ s[3] = x3 /\ s[4] = x4 /\ s[5] = x5
  BY <1>0, SMT
<1>2. u \in Seq(S) /\ Len(u) = 5 /\ u[1] = x1 /\ u[2] = x2 /\ u[3] = x3 /\ u[4] = x4 /\ u[5] = x5
  BY <1>0, SMT
<1>. HIDE DEF s, u
<1>3. s = u
  BY <1>1, <1>2, SMT
<1>. QED
  BY <1>3 DEF s, u

\* Four steps and one.
LEMMA Joined41 ==
  ASSUME NEW x1, NEW x2, NEW x3, NEW x4, NEW x5
  PROVE  <<x1, x2, x3, x4>> \o <<x5>> = <<x1, x2, x3, x4, x5>>
<1>. DEFINE s == <<x1, x2, x3, x4>> \o <<x5>>  u == <<x1, x2, x3, x4, x5>>  S == {x1, x2, x3, x4, x5}
<1>0. x1 \in S /\ x2 \in S /\ x3 \in S /\ x4 \in S /\ x5 \in S
  OBVIOUS
<1>. HIDE DEF S
<1>1. s \in Seq(S) /\ Len(s) = 5 /\ s[1] = x1 /\ s[2] = x2 /\ s[3] = x3 /\ s[4] = x4 /\ s[5] = x5
  BY <1>0, SMT
<1>2. u \in Seq(S) /\ Len(u) = 5 /\ u[1] = x1 /\ u[2] = x2 /\ u[3] = x3 /\ u[4] = x4 /\ u[5] = x5
  BY <1>0, SMT
<1>. HIDE DEF s, u
<1>3. s = u
  BY <1>1, <1>2, SMT
<1>. QED
  BY <1>3 DEF s, u

\* Five steps and one.
LEMMA Joined51 ==
  ASSUME NEW x1, NEW x2, NEW x3, NEW x4, NEW x5, NEW x6
  PROVE  <<x1, x2, x3, x4, x5>> \o <<x6>> = <<x1, x2, x3, x4, x5, x6>>
<1>. DEFINE s == <<x1, x2, x3, x4, x5>> \o <<x6>>  u == <<x1, x2, x3, x4, x5, x6>>  S == {x1, x2, x3, x4, x5, x6}
<1>0. x1 \in S /\ x2 \in S /\ x3 \in S /\ x4 \in S /\ x5 \in S /\ x6 \in S
  OBVIOUS
<1>. HIDE DEF S
<1>1. s \in Seq(S) /\ Len(s) = 6 /\ s[1] = x1 /\ s[2] = x2 /\ s[3] = x3 /\ s[4] = x4 /\ s[5] = x5 /\ s[6] = x6
  BY <1>0, SMT
<1>2. u \in Seq(S) /\ Len(u) = 6 /\ u[1] = x1 /\ u[2] = x2 /\ u[3] = x3 /\ u[4] = x4 /\ u[5] = x5 /\ u[6] = x6
  BY <1>0, SMT
<1>. HIDE DEF s, u
<1>3. s = u
  BY <1>1, <1>2, SMT
<1>. QED
  BY <1>3 DEF s, u

\* 50 MHz from the Ethernet PHY on CLKIN0, and the PLL's output with the dividers of main.
PhyClock(bd) == bd.xtal = 50000000 /\ bd.erefs = 0
PeeHz == 60000000

\* What the driver makes of this clock.
LEMMA PhyChecks ==
  ASSUME PhyClock(board)
  PROVE  /\ RangeFor(board.xtal) = 2 /\ FrdivFor(board.xtal) = 5 /\ board.erefs = 0
         /\ (board.xtal \div (24 + 1)) * (6 + 24) = PeeHz
<1>1. board.xtal = 50000000 /\ board.erefs = 0
  BY DEF PhyClock
<1>2. RangeFor(board.xtal) = 2 /\ FrdivFor(board.xtal) = 5
  BY <1>1, SMT DEF RangeFor, FrdivFor
<1>3. board.xtal \div 25 = 2000000
  BY <1>1, SMT
<1>4. (board.xtal \div (24 + 1)) * (6 + 24) = PeeHz
  BY <1>3, SMT DEF PeeHz
<1>. QED
  BY <1>1, <1>2, <1>4

\* Two checks, one after the other, that pass.
LEMMA ThenZero ==
  ASSUME NEW e1, NEW e2, Then(e1, e2) = 0
  PROVE  e1 = 0
  BY Zenon DEF Then

\* In a place, what_mcg_mode reads these bits.
LEMMA ModeOn ==
  ASSUME NEW reg, NEW C, NEW I, NEW P, NEW L, On(mcg, st, reg, C, I, P, L), Within(reg, C, I, P, L)
  PROVE  /\ mcg \in Regs /\ st \in Status
         /\ \A n \in Modes : what_mcg_mode = n <=> Shows(n, st, mcg.lp)
<1>1. PICK c \in C, i \in I, p \in P, l \in L : st = Bits(c, i, p, l, 0, 0)
  BY DEF On
<1>2. mcg \in Regs /\ c \in 0..3 /\ i \in Bit /\ p \in Bit /\ l \in Bit
  BY <1>1, Zenon DEF On, Within
<1>3. 0 \in Bit
  BY SMT DEF Bit
<1>4. st \in Status
  BY <1>1, <1>2, <1>3, BitsType, Zenon
<1>. QED
  BY <1>2, <1>4, ModeShown, Zenon

\* FBI is shown in one place between fei_fbi and fbi_fbe.
LEMMA FbiShown ==
  ASSUME FbiRests(mcg, st), what_mcg_mode = "FBI"
  PROVE  On(mcg, st, R1, {1}, {1}, {0}, {0})
<1>0. 0 # 1 /\ "FBI" \in Modes
  <2>1. "FBI" \in Modes
    BY Zenon DEF Modes
  <2>. QED
    BY <2>1, SMT
<1>1. CASE On(mcg, st, R0, {0}, {1}, {0}, {0})
  <2>1. Within(R0, {0}, {1}, {0}, {0})
    BY BootWithin, Zenon
  <2>2. st.clkst \in {0}
    BY <1>1, PollOn, Zenon
  <2>3. Shows("FBI", st, mcg.lp)
    BY <1>0, <1>1, <2>1, ModeOn, Zenon
  <2>. QED
    BY <1>0, <2>2, <2>3, Zenon DEF Shows
<1>2. CASE On(mcg, st, R1, {0, 1}, {1}, {0}, {0})
  <2>1. Within(R1, {0, 1}, {1}, {0}, {0})
    BY BootWithin, Zenon
  <2>2. On(mcg, st, R1, {st.clkst}, {1}, {0}, {0})
    BY <1>2, PollOn, Zenon
  <2>3. Shows("FBI", st, mcg.lp)
    BY <1>0, <1>2, <2>1, ModeOn, Zenon
  <2>4. st.clkst = 1
    BY <2>3, Zenon DEF Shows
  <2>. QED
    BY <2>2, <2>4
<1>. QED
  BY <1>1, <1>2, Zenon DEF FbiRests

\* FBE is shown in one place between fbi_fbe and fbe_pbe.
LEMMA FbeShown ==
  ASSUME FbeRests(mcg, st), what_mcg_mode = "FBE"
  PROVE  \E m \in Bit : On(mcg, st, R3(m), {2}, {0}, {0}, {0})
<1>0. 0 # 1 /\ 0 \in Bit /\ 1 \in Bit /\ "FBE" \in Modes
  <2>1. "FBE" \in Modes
    BY Zenon DEF Modes
  <2>. QED
    BY <2>1, SMT DEF Bit
<1>1. ASSUME NEW reg, NEW C, NEW I, NEW P, NEW L, On(mcg, st, reg, C, I, P, L), Within(reg, C, I, P, L)
      PROVE  st.clkst = 2 /\ st.irefst = 0 /\ st.irefst \in I
  <2>1. Shows("FBE", st, mcg.lp)
    BY <1>0, <1>1, ModeOn, Zenon
  <2>2. st.irefst \in I
    BY <1>1, PollOn, Zenon
  <2>. QED
    BY <2>1, <2>2, Zenon DEF Shows
<1>2. CASE On(mcg, st, R0, {0}, {1}, {0}, {0})
  <2>1. Within(R0, {0}, {1}, {0}, {0})
    BY BootWithin, Zenon
  <2>2. st.irefst = 0 /\ st.irefst \in {1}
    BY <1>1, <1>2, <2>1, Zenon
  <2>. QED
    BY <1>0, <2>2, Zenon
<1>3. CASE On(mcg, st, R1, {0, 1}, {1}, {0}, {0})
  <2>1. Within(R1, {0, 1}, {1}, {0}, {0})
    BY BootWithin, Zenon
  <2>2. st.irefst = 0 /\ st.irefst \in {1}
    BY <1>1, <1>3, <2>1, Zenon
  <2>. QED
    BY <1>0, <2>2, Zenon
<1>4. CASE On(mcg, st, R3(0), {1, 2}, {0, 1}, {0}, {0})
  <2>1. Within(R3(0), {1, 2}, {0, 1}, {0}, {0})
    BY BootWithin, Zenon
  <2>2. st.clkst = 2 /\ st.irefst = 0
    BY <1>1, <1>4, <2>1, Zenon
  <2>3. On(mcg, st, R3(0), {st.clkst}, {0, 1}, {0}, {0})
    BY <1>4, PollOn, Zenon
  <2>4. On(mcg, st, R3(0), {st.clkst}, {st.irefst}, {0}, {0})
    BY <2>3, PollOn, Zenon
  <2>5. On(mcg, st, R3(0), {2}, {0}, {0}, {0})
    BY <2>2, <2>4
  <2>. QED
    BY <1>0, <2>5, Zenon
<1>5. CASE On(mcg, st, R3(1), {2}, {0}, {0}, {0})
  BY <1>0, <1>5, Zenon
<1>. QED
  BY <1>2, <1>3, <1>4, <1>5, Zenon DEF FbeRests, FbiRests

\* PBE is shown in one place between fbe_pbe and pbe_pee: the PLL is selected, and may not have locked.
LEMMA PbeShown ==
  ASSUME PbeRests(mcg, st), what_mcg_mode = "PBE"
  PROVE  \E m \in Bit : On(mcg, st, R5(m), {2}, {0}, {1}, {0, 1})
<1>0. 0 # 1 /\ 0 \in Bit /\ 1 \in Bit /\ "PBE" \in Modes
  <2>1. "PBE" \in Modes
    BY Zenon DEF Modes
  <2>. QED
    BY <2>1, SMT DEF Bit
<1>1. ASSUME NEW reg, NEW C, NEW I, NEW P, NEW L, On(mcg, st, reg, C, I, P, L), Within(reg, C, I, P, L)
      PROVE  st.pllst = 1 /\ st.pllst \in P /\ On(mcg, st, reg, C, I, {st.pllst}, L)
  <2>1. Shows("PBE", st, mcg.lp)
    BY <1>0, <1>1, ModeOn, Zenon
  <2>2. st.pllst \in P /\ On(mcg, st, reg, C, I, {st.pllst}, L)
    BY <1>1, PollOn, Zenon
  <2>. QED
    BY <2>1, <2>2, Zenon DEF Shows
<1>2. ~FbeRests(mcg, st)
  <2>1. /\ Within(R0, {0}, {1}, {0}, {0}) /\ Within(R1, {0, 1}, {1}, {0}, {0})
        /\ Within(R3(0), {1, 2}, {0, 1}, {0}, {0}) /\ Within(R3(1), {2}, {0}, {0}, {0})
    BY <1>0, BootWithin, Zenon
  <2>2. ASSUME NEW reg, NEW C, NEW I, NEW L, On(mcg, st, reg, C, I, {0}, L), Within(reg, C, I, {0}, L)
        PROVE  FALSE
    <3>1. st.pllst = 1 /\ st.pllst \in {0}
      BY <1>1, <2>2, Zenon
    <3>. QED
      BY <1>0, <3>1, Zenon
  <2>. QED
    BY <2>1, <2>2, Zenon DEF FbeRests, FbiRests
<1>3. PICK m \in Bit : On(mcg, st, R5(m), {2}, {0}, {0, 1}, {0, 1})
  BY <1>2, Zenon DEF PbeRests
<1>4. Within(R5(m), {2}, {0}, {0, 1}, {0, 1})
  BY BootWithin, Zenon
<1>5. st.pllst = 1 /\ On(mcg, st, R5(m), {2}, {0}, {st.pllst}, {0, 1})
  BY <1>1, <1>3, <1>4, Zenon
<1>. QED
  BY <1>5

\* From one set of registers to the next.
LEMMA BootNextRegs ==
  /\ [R0 EXCEPT !.ircs = 0] = R0 /\ [R0 EXCEPT !.clks = 1] = R1
  /\ [R1 EXCEPT !.range = 2, !.erefs0 = 0] = R2
  /\ [R2 EXCEPT !.clks = 2, !.irefs = 0, !.frdiv = 5] = R3(0)
  /\ [R3(0) EXCEPT !.cme0 = 1] = R3(1)
  /\ \A m : /\ [R3(m) EXCEPT !.prdiv0 = 24] = R4(m)
            /\ [R4(m) EXCEPT !.plls = 1, !.vdiv0 = 6] = R5(m)
            /\ [R5(m) EXCEPT !.clks = 0] = R6(m)
<1>1. [R0 EXCEPT !.ircs = 0] = R0 /\ [R0 EXCEPT !.clks = 1] = R1
  BY SMT DEF R0, R1, BootRegs
<1>2. [R1 EXCEPT !.range = 2, !.erefs0 = 0] = R2
  <2>1. [R1 EXCEPT !.range = 2] = R2
    BY SMT DEF R1, R2, BootRegs
  <2>2. [R2 EXCEPT !.erefs0 = 0] = R2
    BY SMT DEF R2, BootRegs
  <2>. QED
    BY <2>1, <2>2, Zenon
<1>3. [R2 EXCEPT !.clks = 2, !.irefs = 0, !.frdiv = 5] = R3(0)
  <2>1. [R2 EXCEPT !.clks = 2] = BootRegs(2, 0, 1, 2, 0, 0, 0, 0)
    BY SMT DEF R2, BootRegs
  <2>2. [BootRegs(2, 0, 1, 2, 0, 0, 0, 0) EXCEPT !.irefs = 0] = BootRegs(2, 0, 0, 2, 0, 0, 0, 0)
    BY SMT DEF BootRegs
  <2>3. [BootRegs(2, 0, 0, 2, 0, 0, 0, 0) EXCEPT !.frdiv = 5] = R3(0)
    BY SMT DEF BootRegs, R3
  <2>. QED
    BY <2>1, <2>2, <2>3, Zenon
<1>4. [R3(0) EXCEPT !.cme0 = 1] = R3(1)
  BY SMT DEF R3, BootRegs
<1>5. ASSUME NEW m
      PROVE  [R3(m) EXCEPT !.prdiv0 = 24] = R4(m) /\ [R5(m) EXCEPT !.clks = 0] = R6(m)
  BY SMT DEF R3, R4, R5, R6, BootRegs
<1>6. ASSUME NEW m
      PROVE  [R4(m) EXCEPT !.plls = 1, !.vdiv0 = 6] = R5(m)
  <2>1. [R4(m) EXCEPT !.plls = 1] = BootRegs(2, 5, 0, 2, 24, 1, m, 0)
    BY SMT DEF R4, BootRegs
  <2>2. [BootRegs(2, 5, 0, 2, 24, 1, m, 0) EXCEPT !.vdiv0 = 6] = R5(m)
    BY SMT DEF R5, BootRegs
  <2>. QED
    BY <2>1, <2>2, Zenon
<1>. QED
  BY <1>1, <1>2, <1>3, <1>4, <1>5, <1>6, Zenon

\* main calls fei_fbi after reset.
LEMMA BootFbi ==
  ASSUME On(mcg, st, R0, {0}, {1}, {0}, {0}), fei_fbi(SLOW_IRC_FREQ, 0)
  PROVE  FbiRows(todo', mcg', st') \/ (todo' = <<>> /\ FbiRests(mcg', st'))
<1>. DEFINE c2 == [mcg EXCEPT !.ircs = 0]
            c1 == [c2 EXCEPT !.clks = 1]
            s == <<Write(c2), Write(c1), PollIrc(0), Poll("clkst", 1, \h19)>>
            err == Then(WrongMode("FEI"), IrcCheck(SLOW_IRC_FREQ, 0))
            r == IrcHz(SLOW_IRC_FREQ, 0)
<1>1. Call("fei_fbi", err, s, r)
  BY Zenon DEF fei_fbi
<1>2. mcg = R0
  BY DEF On
<1>3. c2 = R0
  BY <1>2, BootNextRegs, Zenon
<1>4. c1 = R1
  BY <1>3, BootNextRegs, Zenon
<1>5. PollIrc(0) = Poll("ircst", 0, \h13)
  BY Zenon DEF PollIrc
<1>6. s \o <<Done>> = Fbi1
  <2>1. <<Write(R0), Write(R1), Poll("ircst", 0, \h13), Poll("clkst", 1, \h19)>> \o <<Done>> = Fbi1
    BY Joined41, Zenon DEF Fbi1
  <2>. QED
    BY <1>3, <1>4, <1>5, <2>1
<1>. HIDE DEF c2, c1, s, err, r
<1>7. mcg' = mcg /\ st' = st /\ (todo' = <<>> \/ todo' = Fbi1)
  BY <1>1, <1>6, Zenon DEF Call
<1>8. On(mcg', st', R0, {0}, {1}, {0}, {0})
  BY <1>7
<1>. QED
  BY <1>7, <1>8, Zenon DEF FbiRows, FbiRests, Row

\* main calls fbi_fbe whatever became of fei_fbi.
LEMMA BootFbe ==
  ASSUME PhyClock(board), FbiRests(mcg, st), fbi_fbe
  PROVE  FbeRows(todo', mcg', st') \/ (todo' = <<>> /\ FbeRests(mcg', st'))
<1>. DEFINE c2 == ExtC2
            c1 == ExtC1(2)
            cm == [ExtC1(2) EXCEPT !.cme0 = 1]
            s == <<Write(c2), Write(c1)>> \o PollExt \o <<Poll("clkst", 2, \h1A), Write(cm)>>
            err == Then(WrongMode("FBI"), ExtCheck)
            r == board.xtal
<1>1. Call("fbi_fbe", err, s, r)
  BY Zenon DEF fbi_fbe, ToFbe
<1>2. mcg' = mcg /\ st' = st /\ ((err # 0 /\ todo' = <<>>) \/ (err = 0 /\ todo' = s \o <<Done>>))
  <2>. HIDE DEF s, err, r
  <2>. QED
    BY <1>1, Zenon DEF Call
<1>3. CASE err # 0
  BY <1>2, <1>3, Zenon DEF FbeRests
<1>4. CASE err = 0
  <2>1. On(mcg, st, R1, {1}, {1}, {0}, {0})
    <3>1. WrongMode("FBI") = 0
      BY <1>4, ThenZero, Zenon
    <3>. QED
      BY <3>1, FbiShown, WrongModeIs, Zenon
  <2>2. mcg = R1
    BY <2>1 DEF On
  <2>3. RangeFor(board.xtal) = 2 /\ FrdivFor(board.xtal) = 5 /\ board.erefs = 0
    BY PhyChecks, Zenon
  <2>4. c2 = R2
    BY <2>2, <2>3, BootNextRegs, Zenon DEF ExtC2
  <2>5. c1 = R3(0)
    BY <2>3, <2>4, BootNextRegs, Zenon DEF ExtC1
  <2>6. cm = R3(1)
    BY <2>5, BootNextRegs, Zenon
  <2>. DEFINE i == Poll("irefst", 0, \h11)  k == Poll("clkst", 2, \h1A)
              S == {Write(R2), Write(R3(0)), i, k, Write(R3(1)), Done}
  <2>7. PollExt = <<i>>
    <3>1. 0 # 1
      BY SMT
    <3>2. PollExt = <<>> \o <<i>>
      BY <2>3, <3>1, Zenon DEF PollExt
    <3>3. <<i>> \in Seq({i})
      BY SMT
    <3>4. <<>> \o <<i>> = <<i>>
      BY <3>3, SMT
    <3>. QED
      BY <3>2, <3>4
  <2>8. /\ Write(R2) \in S /\ Write(R3(0)) \in S /\ i \in S /\ k \in S /\ Write(R3(1)) \in S /\ Done \in S
    OBVIOUS
  <2>9. Fbe1 = <<Write(R2), Write(R3(0)), i, k, Write(R3(1)), Done>>
    BY DEF Fbe1
  <2>. HIDE DEF S, i, k
  <2>10. <<Write(R2), Write(R3(0))>> \o <<i>> = <<Write(R2), Write(R3(0)), i>>
    BY <2>8, ListOf3, Zenon
  <2>11. <<Write(R2), Write(R3(0)), i>> \o <<k, Write(R3(1))>> = <<Write(R2), Write(R3(0)), i, k, Write(R3(1))>>
    BY Joined32, Zenon
  <2>12. <<Write(R2), Write(R3(0)), i, k, Write(R3(1))>> \o <<Done>> = Fbe1
    BY <2>9, Joined51, Zenon
  <2>13. s \o <<Done>> = Fbe1
    BY <2>4, <2>5, <2>6, <2>7, <2>10, <2>11, <2>12 DEF k
  <2>14. Row(todo', mcg', st', Fbe1, R1, {1}, {1}, {0}, {0})
    BY <1>2, <1>4, <2>1, <2>13, Zenon DEF Row
  <2>. QED
    BY <2>14, Zenon DEF FbeRows
<1>. QED
  BY <1>3, <1>4

\* main calls fbe_pbe whatever became of fbi_fbe.
LEMMA BootPbe ==
  ASSUME FbeRests(mcg, st), fbe_pbe(PLL0_PRDIV, PLL0_VDIV)
  PROVE  \/ \E m \in Bit : PbeRows(m, todo', mcg', st')
         \/ todo' = <<>> /\ PbeRests(mcg', st')
<1>. DEFINE c5 == PllC5(mcg, PLL0_PRDIV)
            c6 == PllC6(mcg, PLL0_PRDIV, PLL0_VDIV)
            s == <<Write(c5), Write(c6)>> \o PollPll
            err == Then(WrongMode("FBE"), PllCheck(PLL0_PRDIV, PLL0_VDIV))
            r == board.xtal
<1>1. Call("fbe_pbe", err, s, r)
  BY Zenon DEF fbe_pbe
<1>2. mcg' = mcg /\ st' = st /\ ((err # 0 /\ todo' = <<>>) \/ (err = 0 /\ todo' = s \o <<Done>>))
  <2>. HIDE DEF s, err, r
  <2>. QED
    BY <1>1, Zenon DEF Call
<1>3. CASE err # 0
  BY <1>2, <1>3, Zenon DEF PbeRests
<1>4. CASE err = 0
  <2>1. PICK m \in Bit : On(mcg, st, R3(m), {2}, {0}, {0}, {0})
    <3>1. WrongMode("FBE") = 0
      BY <1>4, ThenZero, Zenon
    <3>. QED
      BY <3>1, FbeShown, WrongModeIs, Zenon
  <2>2. mcg = R3(m)
    BY <2>1 DEF On
  <2>3. PLL0_PRDIV - 1 = 24 /\ PLL0_VDIV - 24 = 6
    BY SMT DEF PLL0_PRDIV, PLL0_VDIV
  <2>4. c5 = R4(m)
    BY <2>2, <2>3, BootNextRegs, Zenon DEF PllC5
  <2>5. c6 = R5(m)
    BY <2>3, <2>4, BootNextRegs, Zenon DEF PllC6
  <2>. DEFINE p == Poll("pllst", 1, \h16)  k == Poll("lock0", 1, \h44)
              S == {Write(R4(m)), Write(R5(m)), p, k, Done}
  <2>6. PollPll = <<p, k>>
    BY DEF PollPll
  <2>7. Write(R4(m)) \in S /\ Write(R5(m)) \in S /\ p \in S /\ k \in S /\ Done \in S
    OBVIOUS
  <2>8. Pbe1(m) = <<Write(R4(m)), Write(R5(m)), p, k, Done>>
    BY DEF Pbe1
  <2>. HIDE DEF S, p, k
  <2>9. <<Write(R4(m)), Write(R5(m))>> \o <<p, k>> = <<Write(R4(m)), Write(R5(m)), p, k>>
    BY <2>7, ListOf4, Zenon
  <2>10. <<Write(R4(m)), Write(R5(m)), p, k>> \o <<Done>> = Pbe1(m)
    BY <2>8, Joined41, Zenon
  <2>11. s \o <<Done>> = Pbe1(m)
    BY <2>4, <2>5, <2>6, <2>9, <2>10
  <2>12. Row(todo', mcg', st', Pbe1(m), R3(m), {2}, {0}, {0}, {0})
    BY <1>2, <1>4, <2>1, <2>11, Zenon DEF Row
  <2>. QED
    BY <2>12, Zenon DEF PbeRows
<1>. QED
  BY <1>3, <1>4

\* main calls pbe_pee whatever became of fbe_pbe; what it is to return is the PLL's output.
LEMMA BootPee ==
  ASSUME PhyClock(board), PbeRests(mcg, st), pbe_pee
  PROVE  \/ \E m \in Bit : PeeRows(m, todo', mcg', st') /\ ret' = PeeHz
         \/ todo' = <<>> /\ PeeRests(mcg', st') /\ ret' \in ErrorCode
<1>. DEFINE c1 == [mcg EXCEPT !.clks = 0]
            s == <<Poll("lock0", 1, \h44), Write(c1), Poll("clkst", 3, \h1B)>>
            err == WrongMode("PBE")
            r == (board.xtal \div (mcg.prdiv0 + 1)) * (mcg.vdiv0 + 24)
<1>1. Call("pbe_pee", err, s, r)
  BY Zenon DEF pbe_pee
<1>2. /\ mcg' = mcg /\ st' = st
      /\ (err # 0 /\ todo' = <<>> /\ ret' = err) \/ (err = 0 /\ todo' = s \o <<Done>> /\ ret' = r)
  <2>. HIDE DEF s, err, r
  <2>. QED
    BY <1>1, Zenon DEF Call
<1>3. CASE err # 0
  <2>1. err \in ErrorCode
    <3>1. err \in Verdict
      BY WrongModeIs
    <3>. HIDE DEF err
    <3>. QED
      BY <1>3, <3>1, SMT DEF Verdict, ErrorCode, FirstFrequency
  <2>. QED
    BY <1>2, <1>3, <2>1, Zenon DEF PeeRests
<1>4. CASE err = 0
  <2>1. PICK m \in Bit : On(mcg, st, R5(m), {2}, {0}, {1}, {0, 1})
    BY <1>4, PbeShown, WrongModeIs, Zenon
  <2>2. mcg = R5(m)
    BY <2>1 DEF On
  <2>3. mcg.prdiv0 = 24 /\ mcg.vdiv0 = 6
    BY <2>2, Zenon DEF R5, BootRegs
  <2>4. r = PeeHz
    BY <2>3, PhyChecks, Zenon
  <2>5. c1 = R6(m)
    BY <2>2, BootNextRegs, Zenon
  <2>. DEFINE k == Poll("lock0", 1, \h44)  c == Poll("clkst", 3, \h1B)
  <2>7. Pee1(m) = <<k, Write(R6(m)), c, Done>>
    BY DEF Pee1
  <2>. HIDE DEF k, c
  <2>8. <<k, Write(R6(m)), c>> \o <<Done>> = Pee1(m)
    BY <2>7, Joined31, Zenon
  <2>9. s \o <<Done>> = Pee1(m)
    BY <2>5, <2>8 DEF k, c
  <2>10. Row(todo', mcg', st', Pee1(m), R5(m), {2}, {0}, {1}, {0, 1})
    BY <1>2, <1>4, <2>1, <2>9, Zenon DEF Row
  <2>. QED
    BY <1>2, <1>4, <2>4, <2>10, Zenon DEF PeeRows
<1>. QED
  BY <1>3, <1>4

\* Where main is: each call in one of its places or over, and the last result true.
BootPlace ==
  \/ line = 1 /\ todo = <<>> /\ On(mcg, st, R0, {0}, {1}, {0}, {0})
  \/ line = 2 /\ (FbiRows(todo, mcg, st) \/ (todo = <<>> /\ FbiRests(mcg, st)))
  \/ line = 3 /\ (FbeRows(todo, mcg, st) \/ (todo = <<>> /\ FbeRests(mcg, st)))
  \/ line = 4 /\ ((\E m \in Bit : PbeRows(m, todo, mcg, st)) \/ (todo = <<>> /\ PbeRests(mcg, st)))
  \/ line = 5 /\ \/ \E m \in Bit : PeeRows(m, todo, mcg, st) /\ ret = PeeHz
                 \/ todo = <<>> /\ PeeRests(mcg, st) /\ ret \in ErrorCode
                 \/ todo = <<>> /\ Arrived(mcg, st) /\ ret = PeeHz
  \/ line = 6 /\ todo = <<>> /\ \/ PeeRests(mcg, st) /\ mcg_clk_hz \in ErrorCode
                                \/ Arrived(mcg, st) /\ mcg_clk_hz = PeeHz /\ modeMCG = "PEE"

BootInv == PhyClock(board) /\ BootPlace

\* Nothing moves between calls but the status.
LEMMA NoStepIdle ==
  ASSUME Step, todo = <<>>
  PROVE  FALSE
  BY Zenon DEF Step, DoWrite, PollSucceeds, PollTimesOut, Return, Idle

\* main starts after reset.
LEMMA BootInitInv ==
  ASSUME \A bd \in Boards : PhyClock(bd), BootInit
  PROVE  BootInv
<1>1. PhyClock(board) /\ line = 1 /\ todo = <<>>
  BY Zenon DEF BootInit, Init
<1>2. mcg = R0
  BY Zenon DEF BootInit, Init, R0, BootRegs
<1>3. st = Bits(0, 1, 0, 0, 0, 0)
  BY Zenon DEF BootInit, Init, Bits
<1>4. On(mcg, st, R0, {0}, {1}, {0}, {0})
  BY <1>2, <1>3, Zenon DEF On
<1>. QED
  BY <1>1, <1>4, Zenon DEF BootInv, BootPlace

\* A step of a call keeps main in place.
LEMMA BootStepInv ==
  ASSUME BootInv, Step, UNCHANGED bootVars
  PROVE  BootInv'
<1>1. board' = board /\ line' = line
  BY Zenon DEF Step, DoWrite, PollSucceeds, PollTimesOut, Return, bootVars
<1>2. PhyClock(board')
  BY <1>1, Zenon DEF BootInv
<1>3. todo # <<>>
  BY NoStepIdle, Zenon
<1>4. CASE line = 2 /\ FbiRows(todo, mcg, st)
  BY <1>1, <1>2, <1>4, FbiStep, Zenon DEF BootInv, BootPlace
<1>5. CASE line = 3 /\ FbeRows(todo, mcg, st)
  BY <1>1, <1>2, <1>5, FbeStep, Zenon DEF BootInv, BootPlace
<1>6. CASE line = 4 /\ \E m \in Bit : PbeRows(m, todo, mcg, st)
  BY <1>1, <1>2, <1>6, PbeStep, Zenon DEF BootInv, BootPlace
<1>7. CASE line = 5 /\ \E m \in Bit : PeeRows(m, todo, mcg, st) /\ ret = PeeHz
  <2>1. PICK m \in Bit : PeeRows(m, todo, mcg, st) /\ ret = PeeHz
    BY <1>7
  <2>2. \/ PeeRows(m, todo', mcg', st') /\ ret' = ret
        \/ todo' = <<>> /\ PeeRests(mcg', st') /\ ret' \in ErrorCode
        \/ todo' = <<>> /\ Arrived(mcg', st') /\ ret' = ret
    BY <2>1, PeeStep, Zenon
  <2>. QED
    BY <1>1, <1>2, <1>7, <2>1, <2>2, Zenon DEF BootInv, BootPlace
<1>. QED
  BY <1>3, <1>4, <1>5, <1>6, <1>7, Zenon DEF BootInv, BootPlace

\* So does a status bit that settles.
LEMMA BootSettleInv ==
  ASSUME BootInv, Settle, UNCHANGED bootVars
  PROVE  BootInv'
<1>1. /\ board' = board /\ line' = line /\ mcg_clk_hz' = mcg_clk_hz /\ modeMCG' = modeMCG
      /\ todo' = todo /\ ret' = ret
  BY Zenon DEF Settle, bootVars
<1>2. PhyClock(board')
  BY <1>1, Zenon DEF BootInv
<1>3. CASE line = 1 /\ todo = <<>> /\ On(mcg, st, R0, {0}, {1}, {0}, {0})
  BY <1>1, <1>2, <1>3, RestsSettle, Zenon DEF BootInv, BootPlace
<1>4. CASE line = 2 /\ (FbiRows(todo, mcg, st) \/ (todo = <<>> /\ FbiRests(mcg, st)))
  BY <1>1, <1>2, <1>4, RestsSettle, FbiSettles, Zenon DEF BootInv, BootPlace
<1>5. CASE line = 3 /\ (FbeRows(todo, mcg, st) \/ (todo = <<>> /\ FbeRests(mcg, st)))
  BY <1>1, <1>2, <1>5, RestsSettle, FbeSettles, Zenon DEF BootInv, BootPlace
<1>6. CASE line = 4 /\ ((\E m \in Bit : PbeRows(m, todo, mcg, st)) \/ (todo = <<>> /\ PbeRests(mcg, st)))
  BY <1>1, <1>2, <1>6, RestsSettle, PbeSettles, Zenon DEF BootInv, BootPlace
<1>7. CASE line = 5 /\ \/ \E m \in Bit : PeeRows(m, todo, mcg, st) /\ ret = PeeHz
                       \/ todo = <<>> /\ PeeRests(mcg, st) /\ ret \in ErrorCode
                       \/ todo = <<>> /\ Arrived(mcg, st) /\ ret = PeeHz
  BY <1>1, <1>2, <1>7, RestsSettle, PeeSettles, Zenon DEF BootInv, BootPlace
<1>8. CASE line = 6 /\ todo = <<>> /\ \/ PeeRests(mcg, st) /\ mcg_clk_hz \in ErrorCode
                                      \/ Arrived(mcg, st) /\ mcg_clk_hz = PeeHz /\ modeMCG = "PEE"
  BY <1>1, <1>2, <1>8, RestsSettle, Zenon DEF BootInv, BootPlace
<1>. QED
  BY <1>3, <1>4, <1>5, <1>6, <1>7, <1>8, Zenon DEF BootInv, BootPlace

\* Where pbe_pee arrives the mode is PEE.
LEMMA ArrivedPee ==
  ASSUME Arrived(mcg, st)
  PROVE  /\ what_mcg_mode = "PEE" /\ st.clkst = 3 /\ st.lock0 = 1
         /\ mcg.prdiv0 = 24 /\ mcg.vdiv0 = 6
<1>1. PICK m \in Bit : On(mcg, st, R6(m), {3}, {0}, {1}, {1})
  BY DEF Arrived
<1>2. Within(R6(m), {3}, {0}, {1}, {1})
  BY BootWithin, Zenon
<1>3. st.clkst \in {3} /\ st.irefst \in {0} /\ st.pllst \in {1} /\ st.lock0 \in {1}
  BY <1>1, PollOn, Zenon
<1>4. Shows("PEE", st, mcg.lp)
  BY <1>3, Zenon DEF Shows
<1>5. "PEE" \in Modes
  BY Zenon DEF Modes
<1>6. what_mcg_mode = "PEE"
  BY <1>1, <1>2, <1>4, <1>5, ModeOn, Zenon
<1>7. mcg = R6(m)
  BY <1>1 DEF On
<1>8. mcg.prdiv0 = 24 /\ mcg.vdiv0 = 6
  BY <1>7, Zenon DEF R6, BootRegs
<1>. QED
  BY <1>3, <1>6, <1>8, Zenon

\* The statements of main.
LEMMA BootStatementInv ==
  ASSUME BootInv, Statement
  PROVE  BootInv'
<1>1. todo = <<>> /\ line' = line + 1 /\ (line > 1 => mcg_clk_hz' = ret)
  <2>1. todo = <<>> /\ line' = line + 1 /\ mcg_clk_hz' = (IF line > 1 THEN ret ELSE mcg_clk_hz)
    BY Zenon DEF Statement, Idle
  <2>. QED
    BY <2>1, Zenon
<1>3. 1 # 2 /\ 1 # 3 /\ 1 # 4 /\ 1 # 5 /\ 2 # 3 /\ 2 # 4 /\ 2 # 5 /\ 3 # 4 /\ 3 # 5 /\ 4 # 5 /\ 5 > 1
      /\ 1 # 6 /\ 2 # 6 /\ 3 # 6 /\ 4 # 6 /\ 5 # 6
      /\ 1 + 1 = 2 /\ 2 + 1 = 3 /\ 3 + 1 = 4 /\ 4 + 1 = 5 /\ 5 + 1 = 6 /\ ~(6 < 6)
  BY SMT
<1>4. PhyClock(board) /\ BootPlace
  BY DEF BootInv
<1>5. FbiRows(todo, mcg, st) => FALSE
  <2>1. Fbi1 # <<>> /\ Fbi2 # <<>> /\ Fbi3 # <<>> /\ Fbi4 # <<>> /\ Fbi5 # <<>>
    BY SMT DEF Fbi1, Fbi2, Fbi3, Fbi4, Fbi5
  <2>. QED
    BY <1>1, <2>1, Zenon DEF FbiRows, Row
<1>6. FbeRows(todo, mcg, st) => FALSE
  <2>1. Fbe1 # <<>> /\ Fbe2 # <<>> /\ Fbe3 # <<>> /\ Fbe4 # <<>> /\ Fbe5 # <<>> /\ Fbe6 # <<>>
    BY SMT DEF Fbe1, Fbe2, Fbe3, Fbe4, Fbe5, Fbe6
  <2>. QED
    BY <1>1, <2>1, Zenon DEF FbeRows, Row
<1>7. ASSUME NEW m \in Bit PROVE ~PbeRows(m, todo, mcg, st) /\ ~PeeRows(m, todo, mcg, st)
  <2>1. Pbe1(m) # <<>> /\ Pbe2(m) # <<>> /\ Pbe3(m) # <<>> /\ Pbe4(m) # <<>> /\ Pbe5(m) # <<>>
    BY SMT DEF Pbe1, Pbe2, Pbe3, Pbe4, Pbe5
  <2>2. Pee1(m) # <<>> /\ Pee2(m) # <<>> /\ Pee3(m) # <<>> /\ Pee4(m) # <<>>
    BY SMT DEF Pee1, Pee2, Pee3, Pee4
  <2>. QED
    BY <1>1, <2>1, <2>2, Zenon DEF PbeRows, PeeRows, Row
<1>8. ASSUME NEW f, NEW err, NEW steps, NEW r, Call(f, err, steps, r) PROVE board' = board
  BY <1>8, Zenon DEF Call
<1>9. CASE line = 1
  <2>1. fei_fbi(SLOW_IRC_FREQ, 0)
    BY <1>3, <1>9, Zenon DEF Statement
  <2>2. On(mcg, st, R0, {0}, {1}, {0}, {0})
    BY <1>3, <1>4, <1>9, Zenon DEF BootPlace
  <2>3. board' = board
    BY <1>8, <2>1, Zenon DEF fei_fbi
  <2>4. FbiRows(todo', mcg', st') \/ (todo' = <<>> /\ FbiRests(mcg', st'))
    BY <2>1, <2>2, BootFbi, Zenon
  <2>. QED
    BY <1>1, <1>3, <1>4, <1>9, <2>3, <2>4, Zenon DEF BootInv, BootPlace
<1>10. CASE line = 2
  <2>1. fbi_fbe
    BY <1>3, <1>10, Zenon DEF Statement
  <2>2. FbiRests(mcg, st)
    BY <1>3, <1>4, <1>5, <1>10, Zenon DEF BootPlace
  <2>3. board' = board
    BY <1>8, <2>1, Zenon DEF fbi_fbe, ToFbe
  <2>4. FbeRows(todo', mcg', st') \/ (todo' = <<>> /\ FbeRests(mcg', st'))
    BY <1>4, <2>1, <2>2, BootFbe, Zenon
  <2>. QED
    BY <1>1, <1>3, <1>4, <1>10, <2>3, <2>4, Zenon DEF BootInv, BootPlace
<1>11. CASE line = 3
  <2>1. fbe_pbe(PLL0_PRDIV, PLL0_VDIV)
    BY <1>3, <1>11, Zenon DEF Statement
  <2>2. FbeRests(mcg, st)
    BY <1>3, <1>4, <1>6, <1>11, Zenon DEF BootPlace
  <2>3. board' = board
    BY <1>8, <2>1, Zenon DEF fbe_pbe
  <2>4. (\E m \in Bit : PbeRows(m, todo', mcg', st')) \/ (todo' = <<>> /\ PbeRests(mcg', st'))
    BY <2>1, <2>2, BootPbe, Zenon
  <2>. QED
    BY <1>1, <1>3, <1>4, <1>11, <2>3, <2>4, Zenon DEF BootInv, BootPlace
<1>12. CASE line = 4
  <2>1. pbe_pee
    BY <1>3, <1>12, Zenon DEF Statement
  <2>2. PbeRests(mcg, st)
    BY <1>3, <1>4, <1>7, <1>12, Zenon DEF BootPlace
  <2>3. board' = board
    BY <1>8, <2>1, Zenon DEF pbe_pee
  <2>4. \/ \E m \in Bit : PeeRows(m, todo', mcg', st') /\ ret' = PeeHz
        \/ todo' = <<>> /\ PeeRests(mcg', st') /\ ret' \in ErrorCode
    BY <1>4, <2>1, <2>2, BootPee, Zenon
  <2>. QED
    BY <1>1, <1>3, <1>4, <1>12, <2>3, <2>4, Zenon DEF BootInv, BootPlace
<1>13. CASE line = 5
  <2>1. modeMCG' = what_mcg_mode /\ UNCHANGED vars
    BY <1>3, <1>13, Zenon DEF Statement
  <2>2. (PeeRests(mcg, st) /\ ret \in ErrorCode) \/ (Arrived(mcg, st) /\ ret = PeeHz)
    BY <1>3, <1>4, <1>7, <1>13, Zenon DEF BootPlace
  <2>3. board' = board /\ mcg' = mcg /\ st' = st /\ todo' = todo
    BY <2>1, Zenon DEF vars
  <2>4. mcg_clk_hz' = ret /\ line' = 6
    BY <1>1, <1>3, <1>13, Zenon
  <2>5. Arrived(mcg, st) => modeMCG' = "PEE"
    BY <2>1, ArrivedPee, Zenon
  <2>. QED
    BY <1>1, <1>4, <2>2, <2>3, <2>4, <2>5, Zenon DEF BootInv, BootPlace
<1>. QED
  BY <1>3, <1>4, <1>9, <1>10, <1>11, <1>12, <1>13, Zenon DEF BootPlace, Statement

\* And a step that changes nothing.
LEMMA BootStutterInv ==
  ASSUME BootInv, UNCHANGED <<vars, bootVars>>
  PROVE  BootInv'
<1>1. /\ board' = board /\ mcg' = mcg /\ st' = st /\ todo' = todo /\ ret' = ret
      /\ line' = line /\ mcg_clk_hz' = mcg_clk_hz /\ modeMCG' = modeMCG
  BY Zenon DEF vars, bootVars
<1>. QED
  BY <1>1, Zenon DEF BootInv, BootPlace

\* main stays in these places.
LEMMA BootInvariant ==
  ASSUME \A bd \in Boards : PhyClock(bd)
  PROVE  BootSpec => []BootInv
<1>1. ASSUME BootInv, [BootNext]_<<vars, bootVars>> PROVE BootInv'
  BY <1>1, BootStepInv, BootSettleInv, BootStatementInv, BootStutterInv, Zenon DEF BootNext
<1>. QED
  BY <1>1, BootInitInv, PTL DEF BootSpec

\* Each register on the way has LP, OSCSEL and CME1 clear.
LEMMA BootRegsPlain ==
  ASSUME NEW m
  PROVE  /\ R0.cme1 = 0 /\ R0.cme0 = 0 /\ R1.cme1 = 0 /\ R1.cme0 = 0 /\ R2.cme1 = 0 /\ R2.cme0 = 0
         /\ R3(m).cme1 = 0 /\ R3(m).cme0 = m /\ R3(m).oscsel = 0
         /\ R4(m).cme1 = 0 /\ R4(m).oscsel = 0 /\ R5(m).cme1 = 0 /\ R5(m).oscsel = 0
         /\ R6(m).cme1 = 0 /\ R6(m).oscsel = 0
  BY Zenon DEF R0, R1, R2, R3, R4, R5, R6, BootRegs

\* A place where no monitor is armed.
LEMMA Unarmed ==
  ASSUME NEW reg, NEW C, NEW I, NEW P, NEW L, On(mcg, st, reg, C, I, P, L), reg.cme0 = 0, reg.cme1 = 0
  PROVE  MonitorSafe
<1>1. mcg.cme0 = 0 /\ mcg.cme1 = 0 /\ 0 # 1
  <2>1. mcg.cme0 = 0 /\ mcg.cme1 = 0
    BY Zenon DEF On
  <2>. QED
    BY <2>1, SMT
<1>. QED
  BY <1>1, Zenon DEF MonitorSafe

\* A place where OSC0 is the source, or the reference of a PLL that is.
LEMMA Armed ==
  ASSUME NEW reg, NEW C, NEW P, NEW L, On(mcg, st, reg, C, {0}, P, L), Within(reg, C, {0}, P, L),
         reg.oscsel = 0, reg.cme1 = 0, C = {2} \/ (C \subseteq {2, 3} /\ P = {1})
  PROVE  MonitorSafe
<1>1. mcg.oscsel = 0 /\ mcg.cme1 = 0 /\ 0 # 1
  <2>1. mcg.oscsel = 0 /\ mcg.cme1 = 0
    BY Zenon DEF On
  <2>. QED
    BY <2>1, SMT
<1>2. st.clkst \in C /\ st.irefst \in {0} /\ st.pllst \in P
  BY PollOn, Zenon
<1>3. mcg \in Regs /\ st \in Status
  BY ModeOn, Zenon
<1>4. UsesExternal(st.clkst, st.irefst, st.pllst)
  BY <1>2, Zenon DEF UsesExternal
<1>5. what_mcg_mode \in External
  BY <1>3, <1>4, ExternalShown, Zenon
<1>. QED
  BY <1>1, <1>5, Zenon DEF MonitorSafe

\* The monitor is armed in no place of main where OSC0 is not in use.
LEMMA BootArms ==
  ASSUME BootInv
  PROVE  MonitorSafe
<1>0. 0 \in Bit /\ 1 \in Bit /\ {2, 3} \subseteq {2, 3} /\ {3} \subseteq {2, 3}
  <2>1. 0 \in Bit /\ 1 \in Bit
    BY SMT DEF Bit
  <2>. QED
    BY <2>1, Zenon
<1>1. ASSUME NEW C, NEW I, NEW P, NEW L,
             \/ On(mcg, st, R0, C, I, P, L) \/ On(mcg, st, R1, C, I, P, L) \/ On(mcg, st, R2, C, I, P, L)
             \/ On(mcg, st, R3(0), C, I, P, L)
      PROVE  MonitorSafe
  BY <1>1, BootRegsPlain, Unarmed, Zenon
<1>2. ASSUME NEW m \in Bit, On(mcg, st, R3(m), {2}, {0}, {0}, {0}) \/ On(mcg, st, R4(m), {2}, {0}, {0}, {0})
      PROVE  MonitorSafe
  <2>1. Within(R3(m), {2}, {0}, {0}, {0}) /\ Within(R4(m), {2}, {0}, {0}, {0})
    BY BootWithin, Zenon
  <2>. QED
    BY <1>2, <2>1, BootRegsPlain, Armed, Zenon
<1>3. ASSUME NEW m \in Bit,
             \/ On(mcg, st, R5(m), {2}, {0}, {0, 1}, {0, 1}) \/ On(mcg, st, R5(m), {2}, {0}, {1}, {0, 1})
             \/ On(mcg, st, R5(m), {2}, {0}, {1}, {1})
      PROVE  MonitorSafe
  <2>1. /\ Within(R5(m), {2}, {0}, {0, 1}, {0, 1}) /\ Within(R5(m), {2}, {0}, {1}, {0, 1})
        /\ Within(R5(m), {2}, {0}, {1}, {1})
    BY BootWithin, Zenon
  <2>. QED
    BY <1>3, <2>1, BootRegsPlain, Armed, Zenon
<1>4. ASSUME NEW m \in Bit,
             On(mcg, st, R6(m), {2, 3}, {0}, {1}, {1}) \/ On(mcg, st, R6(m), {3}, {0}, {1}, {1})
      PROVE  MonitorSafe
  <2>1. Within(R6(m), {2, 3}, {0}, {1}, {1}) /\ Within(R6(m), {3}, {0}, {1}, {1})
    BY BootWithin, Zenon
  <2>. QED
    BY <1>0, <1>4, <2>1, BootRegsPlain, Armed, Zenon
<1>5. FbiRests(mcg, st) \/ FbiRows(todo, mcg, st) => MonitorSafe
  BY <1>1, Zenon DEF FbiRests, FbiRows, Row
<1>6. FbeRests(mcg, st) => MonitorSafe
  BY <1>0, <1>1, <1>2, <1>5, Zenon DEF FbeRests
<1>7. FbeRows(todo, mcg, st) => MonitorSafe
  BY <1>0, <1>1, <1>2, Zenon DEF FbeRows, Row
<1>8. PbeRests(mcg, st) => MonitorSafe
  BY <1>3, <1>6, Zenon DEF PbeRests
<1>9. ASSUME NEW m \in Bit, PbeRows(m, todo, mcg, st) PROVE MonitorSafe
  BY <1>2, <1>3, <1>9, Zenon DEF PbeRows, Row
<1>10. PeeRests(mcg, st) \/ Arrived(mcg, st) => MonitorSafe
  BY <1>4, <1>8, Zenon DEF PeeRests, Arrived
<1>11. ASSUME NEW m \in Bit, PeeRows(m, todo, mcg, st) PROVE MonitorSafe
  BY <1>3, <1>4, <1>11, Zenon DEF PeeRows, Row
<1>. QED
  BY <1>1, <1>5, <1>6, <1>7, <1>8, <1>9, <1>10, <1>11, Zenon DEF BootInv, BootPlace

\* On the speakers' board, 50 MHz from the Ethernet PHY, main never arms the monitor of a clock that is not
\* running, however late the status bits are and whichever of the four calls give up.
THEOREM BootMonitorIsSafe ==
  ASSUME \A bd \in Boards : PhyClock(bd)
  PROVE  BootSpec => []MonitorNeverFires
<1>1. BootSpec => []BootInv
  BY BootInvariant
<1>2. BootInv => MonitorNeverFires
  BY BootArms, Zenon DEF MonitorNeverFires, MonitorNeedsExternalClock, BootMonitorSafe
<1>. QED
  BY <1>1, <1>2, PTL

\* On that board a frequency as the last result means PEE with the PLL locked at that frequency, although main
\* tests none of the four results and any of the polls may have run out.
THEOREM BootResultIsTruthful ==
  ASSUME \A bd \in Boards : PhyClock(bd)
  PROVE  BootSpec => []LastResultTruthful
<1>1. BootSpec => []BootInv
  BY BootInvariant
<1>2. ASSUME BootInv PROVE LastResultTruthful
  <2>. SUFFICES ASSUME line = 6, mcg_clk_hz >= FirstFrequency
                PROVE  /\ mcg_clk_hz = PeeHz /\ modeMCG = "PEE" /\ what_mcg_mode = "PEE"
                       /\ MCGOUTCLK(board, mcg, st) = PeeHz /\ st.lock0 = 1
    BY SMT DEF LastResultTruthful, Booted, PeeHz
  <2>1. ~(mcg_clk_hz \in ErrorCode)
    BY SMT DEF ErrorCode, FirstFrequency
  <2>2. 6 # 1 /\ 6 # 2 /\ 6 # 3 /\ 6 # 4 /\ 6 # 5
    BY SMT
  <2>3. PhyClock(board) /\ Arrived(mcg, st) /\ mcg_clk_hz = PeeHz /\ modeMCG = "PEE"
    BY <1>2, <2>1, <2>2, Zenon DEF BootInv, BootPlace
  <2>4. what_mcg_mode = "PEE" /\ st.clkst = 3 /\ st.lock0 = 1 /\ mcg.prdiv0 = 24 /\ mcg.vdiv0 = 6
    BY <2>3, ArrivedPee, Zenon
  <2>5. (board.xtal \div (24 + 1)) * (6 + 24) = PeeHz
    BY <2>3, PhyChecks, Zenon
  <2>6. MCGOUTCLK(board, mcg, st) = (board.xtal \div (mcg.prdiv0 + 1)) * (mcg.vdiv0 + 24)
    <3>1. st.clkst # 0 /\ st.clkst # 1 /\ st.clkst # 2
      BY <2>4, SMT
    <3>. QED
      BY <3>1, Zenon DEF MCGOUTCLK
  <2>7. MCGOUTCLK(board, mcg, st) = PeeHz
    BY <2>4, <2>5, <2>6, Zenon
  <2>. QED
    BY <2>3, <2>4, <2>7, Zenon
<1>. QED
  BY <1>1, <1>2, PTL
=============================================================================
