------------------------------- MODULE PppFsm -------------------------------
(***************************************************************************)
(* The option negotiation automaton of PPP, netif/ppp/fsm.c, at both ends  *)
(* of a serial link that loses packets but keeps their order.  A function  *)
(* of fsm.c maps the record of an end to its next one; "mem" says whether  *)
(* pbuf_alloc has memory for the packet.  The callbacks of the protocol    *)
(* above are one option: what an end asks for (ci) and what it grants.     *)
(***************************************************************************)
EXTENDS Integers, Sequences

CONSTANTS
  Ends, FsmFlags,            \* the two ends; OPT_SILENT, OPT_PASSIVE, OPT_RESTART of each
  Grantable,                 \* values of the option the reqci of each end grants
  MaxConfReqs, MaxTermReqs, MaxNakLoops, \* settings.fsm_max_*
  IdWrap,                    \* identifiers are one byte
  LinkLen, MaxCalls          \* bounds: packets on the link; calls from above and below

ASSUME PppFsmAssumption ==
  /\ \E a, b \in Ends : a # b /\ Ends = {a, b}
  /\ FsmFlags \in [Ends -> SUBSET {"SILENT", "PASSIVE", "RESTART"}]
  /\ MaxConfReqs \in Nat \ {0} /\ MaxTermReqs \in Nat /\ MaxNakLoops \in Nat /\ IdWrap \in Nat \ {0}

VARIABLES
  fsm,                       \* the automaton of each end
  link,                      \* packets on their way to each end
  calls                      \* calls made so far

pppVars == <<fsm, link, calls>>

NoOption == 0
Wanted == 1                  \* what resetci asks for
Suggested == 2               \* what a Nak suggests
OtherEnd(e) == CHOOSE x \in Ends : x # e
Trying == {"REQSENT", "ACKRCVD", "ACKSENT"}
Ending == {"CLOSING", "STOPPING"}

\* "timers" counts pending fsm_timeout calls, "up" is the layer above, "granted" the option it was
\* acknowledged; "starved" that memory lacked for a Configure-Request.
FsmInit ==
  [state |-> "INITIAL", id |-> 0, reqid |-> 0, seen_ack |-> FALSE, retransmits |-> 0, nakloops |-> 0,
   rnakloops |-> 0, timers |-> 0, up |-> FALSE, ci |-> Wanted, granted |-> NoOption, starved |-> FALSE,
   out |-> <<>>]

PppInit ==
  /\ fsm = [e \in Ends |-> FsmInit]
  /\ link = [e \in Ends |-> <<>>]
  /\ calls = 0

----------------------------------------------------------------------------
(* Sending *)

To(f, s) == [f EXCEPT !.state = s]
TIMEOUT(f) == [f EXCEPT !.timers = @ + 1]
UNTIMEOUT(f) == [f EXCEPT !.timers = 0]
Down(f) == [f EXCEPT !.up = FALSE]
Up(f) == [f EXCEPT !.up = TRUE]
NextId(f) == (f.id + 1) % IdWrap

fsm_sdata(f, code, id, ci, mem) ==
  IF mem THEN [f EXCEPT !.out = Append(@, [code |-> code, id |-> id, ci |-> ci])] ELSE f

\* Without memory nothing is sent, and no timer is started either.
fsm_sconfreq(f, retransmit, mem) ==
  LET r == IF f.state \in Trying THEN f ELSE [f EXCEPT !.ci = Wanted, !.nakloops = 0, !.rnakloops = 0]
      n == IF retransmit THEN r ELSE [r EXCEPT !.retransmits = MaxConfReqs, !.id = NextId(f), !.reqid = NextId(f)]
      s == [n EXCEPT !.seen_ack = FALSE, !.starved = ~mem]
  IN IF ~mem THEN s
     ELSE TIMEOUT([fsm_sdata(s, "CONFREQ", s.reqid, s.ci, TRUE) EXCEPT !.retransmits = @ - 1])

Restart(f, mem) == To(fsm_sconfreq(f, FALSE, mem), "REQSENT")

SendTermReq(f, mem) ==
  [fsm_sdata(f, "TERMREQ", NextId(f), NoOption, mem) EXCEPT !.id = NextId(f), !.reqid = NextId(f)]

Ended(s) == IF s = "CLOSING" THEN "CLOSED" ELSE "STOPPED"

\* Before the layer is terminated: no timer runs, and the layer above is told.
Quiet(f) == IF f.state # "OPENED" THEN UNTIMEOUT(f) ELSE Down(f)

terminate_layer(f, nextstate, mem) ==
  LET s == SendTermReq(Quiet(f), mem)
  IN IF MaxTermReqs = 0 THEN To([s EXCEPT !.retransmits = 0], Ended(nextstate))
     ELSE To(TIMEOUT([s EXCEPT !.retransmits = MaxTermReqs - 1]), nextstate)

----------------------------------------------------------------------------
(* Calls from above and below *)

Silent(e) == "SILENT" \in FsmFlags[e]

fsm_lowerup(f, e, mem) ==
  CASE f.state = "INITIAL" -> To(f, "CLOSED")
    [] f.state = "STARTING" -> IF Silent(e) THEN To(f, "STOPPED") ELSE Restart(f, mem)
    [] OTHER -> f

fsm_lowerdown(f) ==
  CASE f.state = "CLOSED" -> To(f, "INITIAL")
    [] f.state = "STOPPED" -> To(f, "STARTING")
    [] f.state = "CLOSING" -> To(UNTIMEOUT(f), "INITIAL")
    [] f.state \in Trying \cup {"STOPPING"} -> To(UNTIMEOUT(f), "STARTING")
    [] f.state = "OPENED" -> To(Down(f), "STARTING")
    [] OTHER -> f

fsm_open(f, e, mem) ==
  LET again(g) == IF "RESTART" \in FsmFlags[e] THEN fsm_lowerup(fsm_lowerdown(g), e, mem) ELSE g
  IN CASE f.state = "INITIAL" -> To(f, "STARTING")
       [] f.state = "CLOSED" -> IF Silent(e) THEN To(f, "STOPPED") ELSE Restart(f, mem)
       [] f.state = "CLOSING" -> again(To(f, "STOPPING"))
       [] f.state \in {"STOPPED", "OPENED"} -> again(f)
       [] OTHER -> f

fsm_close(f, mem) ==
  CASE f.state = "STARTING" -> To(f, "INITIAL")
    [] f.state = "STOPPED" -> To(f, "CLOSED")
    [] f.state = "STOPPING" -> To(f, "CLOSING")
    [] f.state \in Trying \cup {"OPENED"} -> terminate_layer(f, "CLOSING", mem)
    [] OTHER -> f

fsm_protreject(f, mem) ==
  CASE f.state \in {"CLOSING", "CLOSED"} -> To(UNTIMEOUT(f), "CLOSED")
    [] f.state \in Trying \cup {"STOPPING", "STOPPED"} -> To(UNTIMEOUT(f), "STOPPED")
    [] f.state = "OPENED" -> terminate_layer(f, "STOPPING", mem)
    [] OTHER -> f

fsm_timeout(f, mem) ==
  CASE f.state \in Ending /\ f.retransmits <= 0 -> To(f, Ended(f.state))
    [] f.state \in Ending /\ f.retransmits > 0 ->
         TIMEOUT([SendTermReq(f, mem) EXCEPT !.retransmits = @ - 1])
    [] f.state \in Trying /\ f.retransmits <= 0 -> To(f, "STOPPED")
    [] f.state \in Trying /\ f.retransmits > 0 ->
         LET s == fsm_sconfreq(f, TRUE, mem) IN IF s.state = "ACKRCVD" THEN To(s, "REQSENT") ELSE s
    [] OTHER -> f

----------------------------------------------------------------------------
(* Packets *)

\* reqci: granted, or a Nak with another value, or a reject when that has gone on for too long.
reqci(f, e, ci) ==
  IF ci \in Grantable[e] THEN "CONFACK" ELSE IF f.nakloops >= MaxNakLoops THEN "CONFREJ" ELSE "CONFNAK"

fsm_rconfreq(f, e, m, mem) ==
  LET g == IF f.state = "OPENED" THEN Restart(Down(f), mem)
           ELSE IF f.state = "STOPPED" THEN Restart(f, mem) ELSE f
      code == reqci(g, e, m.ci)
      s == fsm_sdata(g, code, m.id, IF code = "CONFNAK" THEN Suggested ELSE m.ci, mem)
  IN CASE f.state = "CLOSED" -> fsm_sdata(f, "TERMACK", m.id, NoOption, mem)
       [] f.state \in Ending -> f
       [] f.state \notin Ending \cup {"CLOSED"} /\ code = "CONFACK" ->
            LET a == [s EXCEPT !.nakloops = 0, !.granted = m.ci]
            IN IF g.state = "ACKRCVD" THEN Up(To(UNTIMEOUT(a), "OPENED")) ELSE To(a, "ACKSENT")
       [] OTHER ->
            LET n == IF code = "CONFNAK" THEN [s EXCEPT !.nakloops = @ + 1] ELSE s
            IN IF g.state # "ACKRCVD" THEN To(n, "REQSENT") ELSE n

\* An answer to the request that is open.
Answers(f, m) == m.id = f.reqid /\ ~f.seen_ack

\* Seeded fault: an acknowledgement is taken for one of the last request.
Acknowledges_Any(f, m) == ~f.seen_ack

\* ... that repeats its options (ackci).
Acknowledges(f, m) == Answers(f, m) /\ m.ci = f.ci

fsm_rconfack(f, m, mem) ==
  LET s == [f EXCEPT !.seen_ack = TRUE, !.rnakloops = 0]
  IN CASE ~Acknowledges(f, m) -> f
       [] Acknowledges(f, m) /\ f.state \in {"CLOSED", "STOPPED"} ->
            fsm_sdata(s, "TERMACK", m.id, NoOption, mem)
       [] Acknowledges(f, m) /\ f.state = "REQSENT" ->
            To([s EXCEPT !.retransmits = MaxConfReqs], "ACKRCVD")
       [] Acknowledges(f, m) /\ f.state = "ACKRCVD" -> Restart(UNTIMEOUT(s), mem)
       [] Acknowledges(f, m) /\ f.state = "ACKSENT" ->
            Up(To(UNTIMEOUT([s EXCEPT !.retransmits = MaxConfReqs]), "OPENED"))
       [] Acknowledges(f, m) /\ f.state = "OPENED" -> Restart(Down(s), mem)
       [] OTHER -> s

\* nakci takes the value suggested, or, as rejci does, asks for nothing.
AfterNakRej(f, m) ==
  LET n == IF m.code = "CONFNAK" THEN f.rnakloops + 1 ELSE 0
  IN [f EXCEPT !.seen_ack = TRUE, !.rnakloops = n,
               !.ci = IF m.code = "CONFNAK" /\ n < MaxNakLoops THEN m.ci ELSE NoOption]

fsm_rconfnakrej(f, m, mem) ==
  LET s == AfterNakRej(f, m)
  IN CASE ~Answers(f, m) -> f
       [] Answers(f, m) /\ f.state \in {"CLOSED", "STOPPED"} -> fsm_sdata(s, "TERMACK", m.id, NoOption, mem)
       [] Answers(f, m) /\ f.state \in {"REQSENT", "ACKSENT"} -> fsm_sconfreq(UNTIMEOUT(s), FALSE, mem)
       [] Answers(f, m) /\ f.state = "ACKRCVD" -> Restart(UNTIMEOUT(s), mem)
       [] Answers(f, m) /\ f.state = "OPENED" -> Restart(Down(s), mem)
       [] OTHER -> s

fsm_rtermreq(f, m, mem) ==
  LET g == CASE f.state \in {"ACKRCVD", "ACKSENT"} -> To(f, "REQSENT")
             [] f.state = "OPENED" -> TIMEOUT(To(Down([f EXCEPT !.retransmits = 0]), "STOPPING"))
             [] OTHER -> f
  IN fsm_sdata(g, "TERMACK", m.id, NoOption, mem)

fsm_rtermack(f, mem) ==
  CASE f.state \in Ending -> To(UNTIMEOUT(f), Ended(f.state))
    [] f.state = "ACKRCVD" -> To(f, "REQSENT")
    [] f.state = "OPENED" -> Restart(Down(f), mem)
    [] OTHER -> f

fsm_input(f, e, m, mem) ==
  CASE f.state \in {"INITIAL", "STARTING"} -> f
    [] f.state \notin {"INITIAL", "STARTING"} /\ m.code = "CONFREQ" -> fsm_rconfreq(f, e, m, mem)
    [] f.state \notin {"INITIAL", "STARTING"} /\ m.code = "CONFACK" -> fsm_rconfack(f, m, mem)
    [] f.state \notin {"INITIAL", "STARTING"} /\ m.code \in {"CONFNAK", "CONFREJ"} -> fsm_rconfnakrej(f, m, mem)
    [] f.state \notin {"INITIAL", "STARTING"} /\ m.code = "TERMREQ" -> fsm_rtermreq(f, m, mem)
    [] f.state \notin {"INITIAL", "STARTING"} /\ m.code = "TERMACK" -> fsm_rtermack(f, mem)

----------------------------------------------------------------------------
(* Steps *)

\* The end becomes f; what it sends joins what the link still carries, "rest" to the end itself.
EndStep(e, f, rest) ==
  /\ fsm' = [fsm EXCEPT ![e] = [f EXCEPT !.out = <<>>]]
  /\ link' = [link EXCEPT ![e] = rest, ![OtherEnd(e)] = @ \o f.out]
  /\ Len(link[OtherEnd(e)]) + Len(f.out) <= LinkLen

Call(e, f) == calls < MaxCalls /\ calls' = calls + 1 /\ f # fsm[e] /\ EndStep(e, f, link[e])

LowerUp(e, mem) == Call(e, fsm_lowerup(fsm[e], e, mem))
LowerDown(e) == Call(e, fsm_lowerdown(fsm[e]))
PppOpen(e, mem) == Call(e, fsm_open(fsm[e], e, mem))
PppClose(e, mem) == Call(e, fsm_close(fsm[e], mem))
ProtReject(e, mem) == Call(e, fsm_protreject(fsm[e], mem))

Timeout(e, mem) ==
  /\ fsm[e].timers > 0
  /\ EndStep(e, fsm_timeout([fsm[e] EXCEPT !.timers = @ - 1], mem), link[e])
  /\ UNCHANGED calls

Packet(e, mem) ==
  /\ link[e] # <<>>
  /\ EndStep(e, fsm_input(fsm[e], e, Head(link[e]), mem), Tail(link[e]))
  /\ UNCHANGED calls

Lost(e) == link[e] # <<>> /\ link' = [link EXCEPT ![e] = Tail(@)] /\ UNCHANGED <<fsm, calls>>

PppNext ==
  \E e \in Ends :
    \/ LowerDown(e) \/ Lost(e)
    \/ \E mem \in BOOLEAN :
         LowerUp(e, mem) \/ PppOpen(e, mem) \/ PppClose(e, mem) \/ ProtReject(e, mem) \/ Timeout(e, mem) \/ Packet(e, mem)

PppSpec == PppInit /\ [][PppNext]_pppVars

----------------------------------------------------------------------------
(* Properties *)

\* Type invariant: the counters keep within the settings.
PppTypeOK ==
  \A e \in Ends :
    /\ fsm[e].retransmits \in 0..(IF MaxConfReqs > MaxTermReqs THEN MaxConfReqs ELSE MaxTermReqs)
    /\ fsm[e].nakloops \in 0..MaxNakLoops /\ fsm[e].ci \in {NoOption, Wanted, Suggested}
    /\ fsm[e].timers \in Nat

\* One timer runs while an answer is waited for and none otherwise: a second one would count the
\* retransmissions down twice as fast, none leaves the end waiting for ever.  Only memory that lacks
\* for a Configure-Request does the latter (fsm_sconfreq returns before it starts the timer).
TimerMatchesState ==
  \A e \in Ends :
    IF fsm[e].state \in Trying \cup Ending
      THEN fsm[e].timers = 1 \/ (fsm[e].timers = 0 /\ fsm[e].starved)
      ELSE fsm[e].timers = 0

\* The layer above is up exactly while the automaton is opened: every way out of OPENED tells it.
UpIffOpened == \A e \in Ends : fsm[e].up <=> fsm[e].state = "OPENED"

\* When both ends are opened and the link carries nothing, each uses what the other has granted.
EndsAgree ==
  (\A e \in Ends : fsm[e].state = "OPENED" /\ link[e] = <<>>) =>
    \A e \in Ends : fsm[e].ci = fsm[OtherEnd(e)].granted

\* The automaton of fsm.c as a whole: timer and upper layer go with the state, and two opened ends
\* agree on the options.
PppSound == PppTypeOK /\ TimerMatchesState /\ UpIffOpened /\ EndsAgree
============================================================================
