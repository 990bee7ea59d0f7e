-------------------------------- MODULE MCG --------------------------------
(***************************************************************************)
(* The Multipurpose Clock Generator driver of the speakers,                *)
(* src/source/MCG.c, together with the hardware block it drives.           *)
(*                                                                         *)
(* The driver moves the clock generator between the eight MCG modes.       *)
(* Every transition function has the same shape: it refuses the call when  *)
(* the status register does not show the mode it starts from or when an    *)
(* argument is out of range; it writes control registers; and it polls     *)
(* status bits, each poll with a bounded loop and an error code of its     *)
(* own.  The hardware follows the control registers on its own schedule.   *)
(*                                                                         *)
(* A call is therefore an error code decided at entry, the list of writes  *)
(* and polls that remain (todo) and the value it will return (ret).  The   *)
(* driver is the only writer of the control registers, so the value of     *)
(* each read-modify-write is known when the call starts.                   *)
(***************************************************************************)
EXTENDS Integers, Sequences

CONSTANT
  Boards        \* the boards considered: clock sources and FLL configuration

Bit == {0, 1}

\* xtal: frequency at the OSC0 pin; erefs: 1 when it comes from a crystal;
\* slow, fast, rtc: the internal references and the RTC oscillator;
\* drs, dmx32: MCG_C4, which the driver only reads; fcrdiv: MCG_SC[FCRDIV];
\* timely: a status bit that is about to change does so before the loop that
\* polls it runs out; dividers: the <<prdiv_val, vdiv_val>> arguments its
\* callers use, two signed char.
Board == [xtal : Nat, erefs : Bit, slow : Nat, fast : Nat, rtc : Nat,
          drs : 0..3, dmx32 : Bit, fcrdiv : 0..7, timely : BOOLEAN,
          dividers : SUBSET ((-128..127) \X (-128..127))]

ASSUME MCGAssumption == Boards \subseteq Board

VARIABLES
  board,   \* the board the program runs on, fixed
  mcg,     \* the fields of MCG_C1, C2, C5, C6, C7 and C8 that the driver writes
  st,      \* the fields of the status register MCG_S
  fn,      \* the driver function called last
  todo,    \* what that call has still to do
  ret,     \* the value it returns (or has returned)
  from     \* the mode the status register showed when it was called

vars == <<board, mcg, st, fn, todo, ret, from>>

Regs == [clks : 0..3, frdiv : 0..7, irefs : Bit,
         range : 0..3, erefs0 : Bit, lp : Bit, ircs : Bit,
         prdiv0 : 0..31, plls : Bit, cme0 : Bit, vdiv0 : 0..31,
         oscsel : Bit, cme1 : Bit]

Status == [clkst : 0..3, irefst : Bit, pllst : Bit, lock0 : Bit,
           oscinit0 : Bit, ircst : Bit]

Modes == {"BLPI", "FBI", "FEI", "FEE", "FBE", "BLPE", "PBE", "PEE"}

External == {"FEE", "FBE", "BLPE", "PBE", "PEE"}

\* The smallest value that is a frequency and not an error code.
FirstFrequency == \h5B

\* No clock of a board is so slow that its frequency reads as an error code, and the two internal
\* references are in each other's range on no board: "slow" is one of some 32 kHz, "fast" of some 4 MHz.
ASSUME ReferencesAssumption ==
  \A bd \in Boards : /\ bd.xtal >= FirstFrequency /\ bd.slow >= FirstFrequency
                     /\ bd.slow < 3000000 /\ bd.fast > 39063

-----------------------------------------------------------------------------
(* The hardware.                                                           *)

\* Where the status bit b settles when the control registers are r.  The
\* reserved value 3 of CLKS selects no source, so CLKST stays as it is.
Target(b, r, s) ==
  CASE b = "clkst"    -> IF r.clks = 0 THEN 3 * r.plls
                         ELSE IF r.clks = 3 THEN s.clkst ELSE r.clks
    [] b = "irefst"   -> r.irefs
    [] b = "pllst"    -> r.plls
    [] b = "ircst"    -> r.ircs
    [] b = "lock0"    -> IF r.plls = 1 /\ r.lp = 0 THEN 1 ELSE 0
    [] b = "oscinit0" -> IF r.erefs0 = 1 /\ r.oscsel = 0 /\ (r.irefs = 0 \/ r.clks = 2)
                         THEN 1 ELSE 0

StatusBits == {"clkst", "irefst", "pllst", "lock0", "oscinit0", "ircst"}

\* What a write of the control registers does to the status at once: LOCK0
\* is lost when the PLL is reconfigured or switched off, OSCINIT0 when the
\* oscillator is no longer requested.
AtOnce(r, s) ==
  [s EXCEPT !.lock0 = IF r.prdiv0 # mcg.prdiv0 \/ r.vdiv0 # mcg.vdiv0
                         \/ Target("lock0", r, s) = 0 THEN 0 ELSE @,
            !.oscinit0 = IF Target("oscinit0", r, s) = 0 THEN 0 ELSE @]

\* One status bit reaches the value the control registers ask for.
Settle ==
  \E b \in StatusBits :
    /\ st[b] # Target(b, mcg, st)
    /\ st' = [st EXCEPT ![b] = Target(b, mcg, st)]
    /\ UNCHANGED <<board, mcg, fn, todo, ret, from>>

Pow2(n) == CASE n = 0 -> 1 [] n = 1 -> 2 [] n = 2 -> 4 [] n = 3 -> 8
             [] n = 4 -> 16 [] n = 5 -> 32 [] n = 6 -> 64 [] OTHER -> 128

\* The multiplier of the FLL, from MCG_C4[DMX32] and MCG_C4[DRST_DRS].
FllFactor(bd) ==
  IF bd.dmx32 = 1
  THEN CASE bd.drs = 0 -> 732 [] bd.drs = 1 -> 1464
         [] bd.drs = 2 -> 2197 [] OTHER -> 2929
  ELSE 640 * (bd.drs + 1)

\* The frequency of MCGOUTCLK for a given status, in Hz.
MCGOUTCLK(bd, r, s) ==
  LET ext == IF r.oscsel = 1 THEN bd.rtc ELSE bd.xtal
      div == IF r.range = 0 \/ r.oscsel = 1 THEN Pow2(r.frdiv) ELSE 32 * Pow2(r.frdiv)
  IN CASE s.clkst = 0 -> FllFactor(bd) * (IF s.irefst = 1 THEN bd.slow ELSE ext \div div)
       [] s.clkst = 1 -> IF s.ircst = 1 THEN bd.fast \div Pow2(bd.fcrdiv) ELSE bd.slow
       [] s.clkst = 2 -> ext
       [] OTHER -> (bd.xtal \div (r.prdiv0 + 1)) * (r.vdiv0 + 24)

-----------------------------------------------------------------------------
(* Helpers of the driver.                                                  *)

what_mcg_mode ==
  CASE st.clkst = 0 /\ st.irefst = 1 /\ st.pllst = 0                -> "FEI"
    [] st.clkst = 3 /\ st.irefst = 0 /\ st.pllst = 1                -> "PEE"
    [] st.clkst = 2 /\ st.irefst = 0 /\ st.pllst = 1 /\ mcg.lp = 0  -> "PBE"
    [] st.clkst = 2 /\ st.irefst = 0 /\ st.pllst = 0 /\ mcg.lp = 0  -> "FBE"
    [] st.clkst = 2 /\ st.irefst = 0 /\ mcg.lp = 1                  -> "BLPE"
    [] st.clkst = 1 /\ st.irefst = 1 /\ st.pllst = 0 /\ mcg.lp = 1  -> "BLPI"
    [] st.clkst = 1 /\ st.irefst = 1 /\ st.pllst = 0 /\ mcg.lp = 0  -> "FBI"
    [] st.clkst = 0 /\ st.irefst = 0 /\ st.pllst = 0                -> "FEE"
    [] OTHER                                                        -> "none"

\* The first check that fails decides the error code; 0 is "no error".
Then(e1, e2) == IF e1 # 0 THEN e1 ELSE e2

\* The code every function returns when the status register does not show
\* the mode it starts from.
WrongMode(m) ==
  IF what_mcg_mode = m THEN 0
  ELSE CASE m = "FEI" -> 1 [] m = "FEE" -> 2 [] m = "FBI" -> 3 [] m = "FBE" -> 4
         [] m = "BLPI" -> 5 [] m = "BLPE" -> 6 [] m = "PBE" -> 7 [] m = "PEE" -> 8

MaxExtCheck == IF board.xtal > 50000000 THEN \h21 ELSE 0

ExtCheck ==
  Then(MaxExtCheck,
       IF board.erefs = 1 /\ (\/ board.xtal < 30000
                              \/ board.xtal > 40000 /\ board.xtal < 3000000
                              \/ board.xtal > 32000000) THEN \h22 ELSE 0)

\* The crystals the PLL works from are not those of the low range.
PllExtCheck ==
  Then(MaxExtCheck,
       IF board.erefs = 1 /\ (board.xtal < 3000000 \/ board.xtal > 32000000) THEN \h22 ELSE 0)

SlowIrcCheck(f) == IF f < 31250 \/ f > 39063 THEN \h31 ELSE 0

IrcCheck(f, irc_select) ==
  IF irc_select = 0 THEN SlowIrcCheck(f)
  ELSE IF f < 3000000 \/ f > 5000000 THEN \h32 ELSE 0

\* The divider checks without, and with, the check of the PLL output.
PllRefCheck(p, v) ==
  IF p < 1 \/ p > 25 THEN \h41
  ELSE IF v < 24 \/ v > 55 THEN \h42
  ELSE IF board.xtal \div p < 2000000 \/ board.xtal \div p > 4000000 THEN \h43
  ELSE 0

PllInRange(hz) == hz >= 48000000 /\ hz <= 100000000

PllCheck(p, v) ==
  Then(PllRefCheck(p, v),
       IF PllInRange((board.xtal \div p) * v) THEN 0 ELSE \h45)

\* fll_freq: the FLL output for a reference, or the code for "too slow" or
\* "too fast" in the DCO range that DRS selects.
fll_freq(fll_ref) ==
  LET hz == fll_ref * FllFactor(board)
      lo == 20000000 * (board.drs + 1)
      hi == 25000000 * (board.drs + 1)
  IN IF hz < lo THEN \h33 + 2 * board.drs
     ELSE IF hz > hi THEN \h34 + 2 * board.drs
     ELSE hz

\* fll_freq as a check: its error code, or 0.
FllCheck(fll_ref) == IF fll_freq(fll_ref) < FirstFrequency THEN fll_freq(fll_ref) ELSE 0

RangeFor(hz) == IF hz <= 40000 THEN 0 ELSE IF hz <= 8000000 THEN 1 ELSE 2

PllRangeFor(hz) == IF hz <= 8000000 THEN 1 ELSE 2

FrdivFor(hz) == IF hz <= 1250000 THEN 0 ELSE IF hz <= 2500000 THEN 1
                ELSE IF hz <= 5000000 THEN 2 ELSE IF hz <= 10000000 THEN 3
                ELSE IF hz <= 20000000 THEN 4 ELSE 5

\* What a short holds after x is assigned to it.
Short(x) == ((x + 32768) % 65536) - 32768

\* Seeded fault: the divider of the fast reference is forgotten.
IrcHz_NoDivider(f, irc_select) == f

IrcHz(f, irc_select) == IF irc_select = 0 THEN f ELSE f \div Pow2(board.fcrdiv)

-----------------------------------------------------------------------------
(* The steps of a call.                                                    *)

Write(r) == [op |-> "write", regs |-> r]
Poll(b, v, e) == [op |-> "poll", bit |-> b, want |-> v, err |-> e]
Done == [op |-> "return"]

Idle == todo = <<>>

\* A call of f that is refused with code err when err # 0 and otherwise does
\* steps and returns r.
Call(f, err, steps, r) ==
  /\ Idle
  /\ fn' = f
  /\ from' = what_mcg_mode
  /\ IF err # 0 THEN todo' = <<>> /\ ret' = err
     ELSE todo' = steps \o <<Done>> /\ ret' = r
  /\ UNCHANGED <<board, mcg, st>>

DoWrite ==
  /\ ~Idle /\ Head(todo).op = "write"
  /\ mcg' = Head(todo).regs
  /\ st' = AtOnce(Head(todo).regs, st)
  /\ todo' = Tail(todo)
  /\ UNCHANGED <<board, fn, ret, from>>

PollSucceeds ==
  /\ ~Idle /\ Head(todo).op = "poll"
  /\ st[Head(todo).bit] = Head(todo).want
  /\ todo' = Tail(todo)
  /\ UNCHANGED <<board, mcg, st, fn, ret, from>>

\* Seeded fault: the counter of the oscillator's loop is too short for the
\* bound of the loop, which therefore never runs out.
PollTimesOut_ShortCounter ==
  /\ ~Idle /\ Head(todo).op = "poll" /\ Head(todo).bit # "oscinit0"
  /\ st[Head(todo).bit] # Head(todo).want
  /\ ~board.timely \/ Target(Head(todo).bit, mcg, st) # Head(todo).want
  /\ ret' = Head(todo).err
  /\ todo' = <<>>
  /\ UNCHANGED <<board, mcg, st, fn, from>>

\* The loop runs out: the call returns the error code of this poll and
\* leaves the control registers as they are.
PollTimesOut ==
  /\ ~Idle /\ Head(todo).op = "poll"
  /\ st[Head(todo).bit] # Head(todo).want
  /\ ~board.timely \/ Target(Head(todo).bit, mcg, st) # Head(todo).want
  /\ ret' = Head(todo).err
  /\ todo' = <<>>
  /\ UNCHANGED <<board, mcg, st, fn, from>>

Return ==
  /\ ~Idle /\ Head(todo).op = "return"
  /\ todo' = <<>>
  /\ UNCHANGED <<board, mcg, st, fn, ret, from>>

-----------------------------------------------------------------------------
(* Pieces the transition functions share.                                  *)

\* C2 for the external clock, then C1 with the divider and IREFS clear.
ExtC2 == [mcg EXCEPT !.range = RangeFor(board.xtal), !.erefs0 = board.erefs]
ExtC1(clks) == [ExtC2 EXCEPT !.clks = clks, !.irefs = 0, !.frdiv = FrdivFor(board.xtal)]

\* The polls after the switch to the external reference.
PollExt == (IF board.erefs = 1 THEN <<Poll("oscinit0", 1, \h23)>> ELSE <<>>)
           \o <<Poll("irefst", 0, \h11)>>

PllC5(r, p) == [r EXCEPT !.prdiv0 = p - 1]

PllC6(r, p, v) == [PllC5(r, p) EXCEPT !.plls = 1, !.vdiv0 = v - 24]
\* Seeded fault: the lock of the PLL is not waited for.
PollPll_NoLock == <<Poll("pllst", 1, \h16)>>

PollPll == <<Poll("pllst", 1, \h16), Poll("lock0", 1, \h44)>>

PollIrc(irc_select) ==
  Poll("ircst", irc_select, IF irc_select = 0 THEN \h13 ELSE \h14)

\* MCG_C1 |= MCG_C1_CLKS(2) and MCG_C1 |= MCG_C1_CLKS(1): the two bits of
\* CLKS are or'ed, not replaced.
OrClks2(clks) == IF clks < 2 THEN clks + 2 ELSE clks
OrClks1(clks) == IF clks % 2 = 0 THEN clks + 1 ELSE clks

-----------------------------------------------------------------------------
(* The driver functions.  The arguments are those of a caller that knows   *)
(* its board: crystal_val, erefs_val, slow_irc_freq and rtc_freq are the   *)
(* board's; hgo_val has no effect on the clock tree and is left out.       *)

pll_init ==
  \E d \in board.dividers :
    LET p  == d[1]  v == d[2]
        c2 == [mcg EXCEPT !.range = PllRangeFor(board.xtal), !.erefs0 = board.erefs]
        c1 == [c2 EXCEPT !.clks = 2, !.irefs = 0, !.frdiv = FrdivFor(board.xtal)]
        cm == [c1 EXCEPT !.cme0 = 1]
        c6 == PllC6(cm, p, v)
    IN Call("pll_init",
            Then(WrongMode("FEI"), Then(PllExtCheck, PllCheck(p, v))),
            <<Write(c2), Write(c1)>> \o PollExt \o
            <<Poll("clkst", 2, \h1A), Write(cm), Write(PllC5(cm, p)), Write(c6)>> \o PollPll \o
            <<Write([c6 EXCEPT !.clks = 0]), Poll("clkst", 3, \h1B)>>,
            (board.xtal \div p) * v)

pee_pbe ==
  Call("pee_pbe", WrongMode("PEE"),
       <<Write([mcg EXCEPT !.clks = OrClks2(@)]), Poll("clkst", 2, \h1A)>>,
       board.xtal)

\* Seeded fault: the lock of the PLL is taken for granted.
pbe_pee_NoLock ==
  Call("pbe_pee", WrongMode("PBE"),
       <<Write([mcg EXCEPT !.clks = 0]), Poll("clkst", 3, \h1B)>>,
       (board.xtal \div (mcg.prdiv0 + 1)) * (mcg.vdiv0 + 24))

pbe_pee ==
  Call("pbe_pee", WrongMode("PBE"),
       <<Poll("lock0", 1, \h44), Write([mcg EXCEPT !.clks = 0]), Poll("clkst", 3, \h1B)>>,
       (board.xtal \div (mcg.prdiv0 + 1)) * (mcg.vdiv0 + 24))

pbe_fbe ==
  Call("pbe_fbe", WrongMode("PBE"),
       <<Write([mcg EXCEPT !.plls = 0]), Poll("pllst", 0, \h15)>>, board.xtal)

fbe_pbe(p, v) ==
  Call("fbe_pbe", Then(WrongMode("FBE"), PllCheck(p, v)),
       <<Write(PllC5(mcg, p)), Write(PllC6(mcg, p, v))>> \o PollPll, board.xtal)

pbe_blpe ==
  Call("pbe_blpe", WrongMode("PBE"), <<Write([mcg EXCEPT !.lp = 1])>>, board.xtal)

blpe_pbe(p, v) ==
  Call("blpe_pbe", Then(WrongMode("BLPE"), PllRefCheck(p, v)),
       <<Write(PllC5(mcg, p)), Write(PllC6(mcg, p, v)),
         Write([PllC6(mcg, p, v) EXCEPT !.lp = 0])>> \o PollPll, board.xtal)

\* Seeded fault: LP stays set.
blpe_fbe_KeepsLp ==
  Call("blpe_fbe", WrongMode("BLPE"),
       <<Write([mcg EXCEPT !.plls = 0]), Poll("pllst", 0, \h15)>>, board.xtal)

blpe_fbe ==
  LET c6 == [mcg EXCEPT !.plls = 0]
  IN Call("blpe_fbe", WrongMode("BLPE"),
          <<Write(c6), Write([c6 EXCEPT !.lp = 0]), Poll("pllst", 0, \h15)>>, board.xtal)

fbe_blpe ==
  Call("fbe_blpe", WrongMode("FBE"), <<Write([mcg EXCEPT !.lp = 1])>>, board.xtal)

fbe_fei ==
  LET c6 == [mcg EXCEPT !.cme0 = 0]
  IN Call("fbe_fei",
          Then(WrongMode("FBE"), Then(SlowIrcCheck(board.slow), FllCheck(board.slow))),
          <<Write(c6), Write([c6 EXCEPT !.clks = 0, !.irefs = 1]),
            Poll("irefst", 1, \h12), Poll("clkst", 0, \h18)>>, fll_freq(board.slow))

\* fei_fbe and fbi_fbe differ in the mode they start from only.
ToFbe(f, m) ==
  Call(f, Then(WrongMode(m), ExtCheck),
       <<Write(ExtC2), Write(ExtC1(2))>> \o PollExt \o
       <<Poll("clkst", 2, \h1A), Write([ExtC1(2) EXCEPT !.cme0 = 1])>>, board.xtal)

fei_fbe == ToFbe("fei_fbe", "FEI")
fbi_fbe == ToFbe("fbi_fbe", "FBI")

\* fll_ref_freq is a short here.  With RANGE = 0 the divider is taken from
\* RANGE, so it is 1.
fbe_fee ==
  LET fll_ref_freq ==
        Short(IF mcg.range > 0 THEN board.xtal \div (32 * Pow2(mcg.frdiv))
              ELSE board.xtal \div Pow2(mcg.range))
  IN Call("fbe_fee", Then(WrongMode("FBE"), FllCheck(fll_ref_freq)),
          <<Write([mcg EXCEPT !.clks = 0]), Poll("clkst", 0, \h18)>>,
          fll_freq(fll_ref_freq))

fee_fbe ==
  Call("fee_fbe", WrongMode("FEE"),
       <<Write([mcg EXCEPT !.clks = OrClks2(@)]), Poll("clkst", 2, \h1A)>>, board.xtal)

\* Seeded fault: CLKS is or'ed in, as in fee_fbi, although it is not 0 here.
fbe_fbi_Or(f, irc_select) ==
  LET c2 == [mcg EXCEPT !.ircs = irc_select]
      c6 == [c2 EXCEPT !.cme0 = 0]
  IN Call("fbe_fbi", Then(WrongMode("FBE"), IrcCheck(f, irc_select)),
          <<Write(c2), Write(c6), Write([c6 EXCEPT !.clks = OrClks1(@), !.irefs = 1]),
            PollIrc(irc_select), Poll("clkst", 1, \h19), Poll("irefst", 1, \h12)>>,
          IrcHz(f, irc_select))

fbe_fbi(f, irc_select) ==
  LET c2 == [mcg EXCEPT !.ircs = irc_select]
      c6 == [c2 EXCEPT !.cme0 = 0]
  IN Call("fbe_fbi", Then(WrongMode("FBE"), IrcCheck(f, irc_select)),
          <<Write(c2), Write(c6), Write([c6 EXCEPT !.clks = 1, !.irefs = 1]),
            PollIrc(irc_select), Poll("clkst", 1, \h19), Poll("irefst", 1, \h12)>>,
          IrcHz(f, irc_select))

\* Seeded fault: the clock monitor is disarmed after the switch.
fee_fbi_LateMonitor(f, irc_select) ==
  LET c2 == [mcg EXCEPT !.ircs = irc_select]
      c1 == [c2 EXCEPT !.clks = OrClks1(@), !.irefs = 1]
  IN Call("fee_fbi", Then(WrongMode("FEE"), IrcCheck(f, irc_select)),
          <<Write(c2), Write(c1), Write([c1 EXCEPT !.cme0 = 0]),
            PollIrc(irc_select), Poll("clkst", 1, \h19), Poll("irefst", 1, \h12)>>,
          IrcHz(f, irc_select))

fee_fbi(f, irc_select) ==
  LET c2 == [mcg EXCEPT !.ircs = irc_select]
      c6 == [c2 EXCEPT !.cme0 = 0]
  IN Call("fee_fbi", Then(WrongMode("FEE"), IrcCheck(f, irc_select)),
          <<Write(c2), Write(c6), Write([c6 EXCEPT !.clks = OrClks1(@), !.irefs = 1]),
            PollIrc(irc_select), Poll("clkst", 1, \h19), Poll("irefst", 1, \h12)>>,
          IrcHz(f, irc_select))

fbi_blpi(f, irc_select) ==
  Call("fbi_blpi", WrongMode("FBI"), <<Write([mcg EXCEPT !.lp = 1])>>, IrcHz(f, irc_select))

blpi_fbi(f, irc_select) ==
  Call("blpi_fbi", WrongMode("BLPI"), <<Write([mcg EXCEPT !.lp = 0])>>, IrcHz(f, irc_select))

fbi_fei ==
  Call("fbi_fei",
       Then(WrongMode("FBI"), Then(SlowIrcCheck(board.slow), FllCheck(board.slow))),
       <<Write([mcg EXCEPT !.clks = 0, !.irefs = 1]),
         Poll("irefst", 1, \h12), Poll("clkst", 0, \h18)>>, fll_freq(board.slow))

fei_fbi(f, irc_select) ==
  LET c2 == [mcg EXCEPT !.ircs = irc_select]
  IN Call("fei_fbi", Then(WrongMode("FEI"), IrcCheck(f, irc_select)),
          <<Write(c2), Write([c2 EXCEPT !.clks = 1]),
            PollIrc(irc_select), Poll("clkst", 1, \h19)>>, IrcHz(f, irc_select))

\* fei_fee and fbi_fee: the FLL frequency is checked after C2 is written, so
\* that error leaves RANGE and EREFS changed.  fei_fee does not poll CLKST.
ToFee(f, m, clkstPoll) ==
  LET ref  == board.xtal \div (IF RangeFor(board.xtal) > 0 THEN 32 * Pow2(FrdivFor(board.xtal))
                               ELSE Pow2(FrdivFor(board.xtal)))
      rest == IF FllCheck(ref) # 0 THEN <<>>
              ELSE <<Write(ExtC1(0))>> \o PollExt \o clkstPoll \o
                   <<Write([ExtC1(0) EXCEPT !.cme0 = 1])>>
  IN Call(f, Then(WrongMode(m), ExtCheck), <<Write(ExtC2)>> \o rest, fll_freq(ref))

fei_fee == ToFee("fei_fee", "FEI", <<>>)
fbi_fee == ToFee("fbi_fee", "FBI", <<Poll("clkst", 0, \h18)>>)

\* Seeded fault: the return to the internal reference is not waited for.
fee_fei_NoPoll ==
  LET c6 == [mcg EXCEPT !.cme0 = 0]
  IN Call("fee_fei",
          Then(WrongMode("FEE"), Then(SlowIrcCheck(board.slow), FllCheck(board.slow))),
          <<Write(c6), Write([c6 EXCEPT !.irefs = 1])>>, fll_freq(board.slow))

fee_fei ==
  LET c6 == [mcg EXCEPT !.cme0 = 0]
  IN Call("fee_fei",
          Then(WrongMode("FEE"), Then(SlowIrcCheck(board.slow), FllCheck(board.slow))),
          <<Write(c6), Write([c6 EXCEPT !.irefs = 1]), Poll("irefst", 1, \h12)>>,
          fll_freq(board.slow))

\* rtcCounts: whether the prescaler of the RTC is seen to count, which tells
\* the driver that the RTC oscillator runs.  The FLL frequency is only checked once the
\* switch is made.
fei_fee_rtc ==
  \E rtcCounts \in BOOLEAN :
    LET c7 == [mcg EXCEPT !.oscsel = 1]
        c1 == [c7 EXCEPT !.clks = 0, !.frdiv = 0, !.irefs = 0]
    IN Call("fei_fee_rtc",
            Then(WrongMode("FEI"),
                 Then(IF board.rtc > 40000 \/ board.rtc < 30000 THEN \h24 ELSE 0,
                      IF rtcCounts THEN 0 ELSE \h25)),
            <<Write(c7), Write(c1), Poll("irefst", 0, \h11)>> \o
            (IF FllCheck(board.rtc) # 0 THEN <<>> ELSE <<Write([c1 EXCEPT !.cme1 = 1])>>),
            fll_freq(board.rtc))

fee_fei_rtc ==
  LET c8 == [mcg EXCEPT !.cme1 = 0]
      c1 == [c8 EXCEPT !.irefs = 1]
  IN Call("fee_fei_rtc",
          Then(WrongMode("FEE"), Then(SlowIrcCheck(board.slow), FllCheck(board.slow))),
          <<Write(c8), Write(c1), Poll("irefst", 1, \h12), Write([c1 EXCEPT !.oscsel = 0])>>,
          fll_freq(board.slow))

\* Returns nothing; ret keeps its value.
clk_monitor_0(en_dis) ==
  Call("clk_monitor_0", 0, <<Write([mcg EXCEPT !.cme0 = en_dis])>>, ret)

-----------------------------------------------------------------------------
(* The specification: any caller that keeps to the driver's documentation. *)

\* The registers and the status after reset: FEI mode.
Init ==
  /\ board \in Boards
  /\ mcg = [clks |-> 0, frdiv |-> 0, irefs |-> 1, range |-> 0, erefs0 |-> 0, lp |-> 0,
            ircs |-> 0, prdiv0 |-> 0, plls |-> 0, cme0 |-> 0, vdiv0 |-> 0,
            oscsel |-> 0, cme1 |-> 0]
  /\ st = [clkst |-> 0, irefst |-> 1, pllst |-> 0, lock0 |-> 0, oscinit0 |-> 0, ircst |-> 0]
  /\ fn = "reset" /\ todo = <<>> /\ ret = 0 /\ from = "FEI"

\* The transitions that need no argument beyond those of the board.
PlainCall ==
  \/ pll_init \/ pee_pbe \/ pbe_pee \/ pbe_fbe \/ pbe_blpe
  \/ blpe_fbe \/ fbe_blpe \/ fbe_fei \/ fei_fbe \/ fbi_fbe \/ fbe_fee
  \/ fbi_fei \/ fei_fee \/ fbi_fee \/ fei_fee_rtc

PllCall == \E d \in board.dividers : fbe_pbe(d[1], d[2]) \/ blpe_pbe(d[1], d[2])

\* Callers may confuse the two internal references; the driver refuses.
IrcCall ==
  \E f \in {board.slow, board.fast}, irc_select \in Bit :
    fbe_fbi(f, irc_select) \/ fei_fbi(f, irc_select)

\* fbi_blpi and blpi_fbi check neither argument: they are told which
\* reference is in use.
BlpiCall ==
  LET f == IF mcg.ircs = 1 THEN board.fast ELSE board.slow
  IN fbi_blpi(f, mcg.ircs) \/ blpi_fbi(f, mcg.ircs)

\* FEE with the RTC as reference is left with fee_fei_rtc, FEE with OSC0 as
\* reference with one of the others.
FeeCall ==
  \/ /\ mcg.oscsel = 0
     /\ \/ fee_fbe
        \/ fee_fei
        \/ \E f \in {board.slow, board.fast}, irc_select \in Bit : fee_fbi(f, irc_select)
  \/ /\ mcg.oscsel = 1
     /\ fee_fei_rtc

\* The OSC0 clock monitor is enabled in modes that use OSC0 only.
MonitorCall ==
  \/ clk_monitor_0(0)
  \/ (what_mcg_mode \in External /\ mcg.oscsel = 0 /\ clk_monitor_0(1))

Step == DoWrite \/ PollSucceeds \/ PollTimesOut \/ Return

Next == PlainCall \/ PllCall \/ IrcCall \/ BlpiCall \/ FeeCall \/ MonitorCall
        \/ Step \/ Settle

\* The thread that called keeps running, and the hardware does its part.
Fairness == WF_vars(Step) /\ WF_vars(Settle)

Spec == Init /\ [][Next]_vars

FairSpec == Spec /\ Fairness

-----------------------------------------------------------------------------
(* Properties.                                                             *)

Steps == [op : {"write"}, regs : Regs]
         \cup [op : {"poll"}, bit : StatusBits, want : 0..3, err : 1..(FirstFrequency - 1)]
         \cup [op : {"return"}]

\* What the driver's prototypes promise.  They promise nothing of a board whose
\* bits are late, where the mapping stands still.
Abstract == INSTANCE ClockModes WITH
  mode   <- IF ~board.timely THEN "FEI" ELSE IF Idle THEN what_mcg_mode ELSE from,
  fun    <- IF ~board.timely THEN "reset" ELSE fn,
  result <- IF ~board.timely THEN "error" ELSE IF ~Idle THEN "busy"
            ELSE IF ret >= FirstFrequency THEN "frequency" ELSE "error"

\* Type correctness of the registers, the status and the call in progress.
TypeOK ==
  /\ board \in Boards
  /\ mcg \in Regs
  /\ st \in Status
  /\ fn \in DOMAIN Abstract!Edge \cup {"reset", "clk_monitor_0"}
  /\ todo \in Seq(Steps)
  /\ ret \in Int
  /\ from \in Modes \cup {"none"}

Succeeded == Idle /\ ret >= FirstFrequency /\ fn # "clk_monitor_0"

\* Between calls the status register shows one of the eight modes and no
\* status bit is still to change: no function returns before everything it
\* set in motion has been waited for (an error code may mean just that it
\* has not, on a board whose bits are late).
SettledBetweenCalls ==
  Idle /\ board.timely =>
          /\ what_mcg_mode \in Modes
          /\ \A b \in StatusBits : st[b] = Target(b, mcg, st)

\* The number a successful call returns is the frequency MCGOUTCLK has, if
\* the hardware is in time and the references have their nominal frequency.
FrequencyTruthful == Succeeded /\ board.timely => ret = MCGOUTCLK(board, mcg, st)

\* A clock monitor that watches a clock which is not running resets the
\* chip: the OSC0 monitor is only ever armed while OSC0 is the source or the
\* reference, the RTC monitor while the RTC is the FLL reference, at every
\* point inside a transition.
MonitorSafe ==
  /\ mcg.cme0 = 1 => what_mcg_mode \in External /\ mcg.oscsel = 0
  /\ mcg.cme1 = 1 => st.irefst = 0 /\ mcg.oscsel = 1

\* That is so whatever sequence of calls a caller makes, if the hardware is
\* in time.
MonitorNeedsExternalClock == board.timely => MonitorSafe

\* MCG_C7[OSCSEL] is only switched in a mode that does not use the external
\* clock (the comments of fei_fee_rtc and fee_fei_rtc demand it).
OscselSwitchedInternally ==
  [][board.timely /\ mcg'.oscsel # mcg.oscsel => what_mcg_mode \in Modes \ External]_vars

\* MCGOUTCLK is taken from the PLL only once the PLL has locked, and the
\* PLL's dividers are left alone for as long as it is.
PllLockedBeforeUse ==
  [][/\ st.clkst # 3 /\ st'.clkst = 3 => st.lock0 = 1
     /\ st.clkst = 3 => mcg'.prdiv0 = mcg.prdiv0 /\ mcg'.vdiv0 = mcg.vdiv0]_vars

\* The reserved value of CLKS is never written: CLKS is changed by OR into the
\* value the last call left, which is only known when its polls did not run out.
ClksNeverReserved == board.timely => mcg.clks # 3

\* The registers hold values of their fields, and CLKS no reserved one.
RegistersSound == TypeOK /\ ClksNeverReserved

\* No register write endangers the clock in use: OSCSEL changes only while no
\* external clock is used, the PLL is used only locked and then left alone.
SwitchesAreSafe == OscselSwitchedInternally /\ PllLockedBeforeUse

\* Every call returns: no poll loop waits for ever.
CallReturns == ~Idle ~> Idle

\* The driver implements what its prototypes promise.
ImplementsClockModes == Abstract!Spec

-----------------------------------------------------------------------------
(* What the comments of MCG.c say and the code does not do.                *)

\* MCG.c:455 "If PRDIV, VDIV and the PLL ref clock are in spec. then the PLL
\* frequency is within spec."
PllWithinSpec ==
  Succeeded /\ fn = "blpe_pbe"
    => PllInRange((board.xtal \div (mcg.prdiv0 + 1)) * (mcg.vdiv0 + 24))

=============================================================================
