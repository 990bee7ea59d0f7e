------------------------------ MODULE Timeouts ------------------------------
(***************************************************************************)
(* The timers of lwIP, core/timeouts.c, and the thread that runs them      *)
(* (tcpip_thread of api/tcpip.c, sys_arch_mbox_fetch of port/sys_arch.c).  *)
(* The list next_timeout holds the time of each entry relative to the one  *)
(* before; the first is relative to timeouts_last_time.                    *)
(***************************************************************************)
EXTENDS Integers, Sequences, SequencesExt

CONSTANTS
  TimeWrap,        \* sys_now() counts 0 .. TimeWrap - 1
  CyclicTimers,    \* lwip_cyclic_timers[1 ..], named
  Interval,        \* [CyclicTimers \cup {"tcp"} -> Nat]
  NumTimeouts,     \* MEMP_NUM_SYS_TIMEOUT
  MaxLag           \* by how much the tcpip thread may be late

Handlers == CyclicTimers \cup {"tcp"}

ASSUME TimeoutsAssumption ==
  /\ Interval \in [Handlers -> Nat \ {0}] /\ NumTimeouts \in Nat /\ MaxLag \in Nat
  /\ \A h \in Handlers : 4 * Interval[h] < TimeWrap

VARIABLES
  sysNow,          \* sys_now()
  lastTime,        \* timeouts_last_time
  timeouts,        \* the list next_timeout: sequence of [h, time]
  checkDiff,       \* the local diff of sys_check_timeouts, or NotChecking
  sleeptime,       \* ms until sys_arch_mbox_fetch gives up
  tcpTimerActive,  \* tcpip_tcp_timer_active
  tcpPcbs,         \* whether tcp_active_pcbs or tcp_tw_pcbs is not empty
  remaining        \* what is left of the time each pending timer was asked for

toVars == <<sysNow, lastTime, timeouts, checkDiff, sleeptime, tcpTimerActive, tcpPcbs, remaining>>

NotChecking == -1
Diff == (sysNow - lastTime) % TimeWrap

\* Fields of type u32_t.
Sub32(a, b) == (a - b) % TimeWrap

----------------------------------------------------------------------------
(* The list *)

Pending(h) == \E k \in 1..Len(timeouts) : timeouts[k].h = h

\* Time from timeouts_last_time to entry k.
Offset(q, k) == FoldLeft(LAMBDA n, t : n + t.time, 0, SubSeq(q, 1, k))

\* Where the loop of sys_timeout stops: at the first entry t whose successor, if any, is later
\* than what is left of the new time.
Left(q, time, k) == Sub32(time, Offset(q, k))
Stop(q, time) == CHOOSE k \in 1..Len(q) :
                   /\ k = Len(q) \/ q[k + 1].time > Left(q, time, k)
                   /\ \A j \in 1..(k - 1) : q[j + 1].time <= Left(q, time, j)

\* The entry behind a new first one that waits for msecs.
Shortened(next, msecs, time) == [next EXCEPT !.time = @ - msecs]

\* Seeded fault: the successor keeps its time although the new entry is put before it.
sys_timeout_KeepsNext(q, last, msecs, h) ==
  LET diff == (sysNow - last) % TimeWrap
      time == msecs + diff
      k == Stop(q, time)
      left == Left(q, time, k)
      mine == IF k = Len(q) /\ left > msecs THEN msecs ELSE left
  IN CASE Len(q) >= NumTimeouts -> q
       [] Len(q) < NumTimeouts /\ q = <<>> -> <<[h |-> h, time |-> msecs]>>
       [] Len(q) < NumTimeouts /\ q # <<>> /\ q[1].time > msecs ->
            <<[h |-> h, time |-> msecs], Shortened(q[1], msecs, time)>> \o Tail(q)
       [] OTHER -> SubSeq(q, 1, k) \o <<[h |-> h, time |-> mine]>> \o SubSeq(q, k + 1, Len(q))

\* The list after sys_timeout; last is timeouts_last_time.  Without a free element nothing
\* happens.
sys_timeout(q, last, msecs, h) ==
  LET diff == (sysNow - last) % TimeWrap
      time == msecs + diff
      k == Stop(q, time)
      left == Left(q, time, k)
      mine == IF k = Len(q) /\ left > msecs THEN msecs + q[1].time ELSE left
      after == SubSeq(q, k + 1, Len(q))
  IN CASE Len(q) >= NumTimeouts -> q
       [] Len(q) < NumTimeouts /\ q = <<>> -> <<[h |-> h, time |-> msecs]>>
       [] Len(q) < NumTimeouts /\ q # <<>> /\ q[1].time > msecs ->
            <<[h |-> h, time |-> time], Shortened(q[1], msecs, time)>> \o Tail(q)
       [] OTHER ->
            SubSeq(q, 1, k) \o <<[h |-> h, time |-> mine]>>
              \o (IF after = <<>> THEN after ELSE [after EXCEPT ![1].time = @ - left])

\* sys_timeout sets timeouts_last_time when the list is empty.
LastAfter(q, last) == IF q = <<>> THEN sysNow ELSE last

Arm(q, last, h) ==
  /\ timeouts' = sys_timeout(q, last, Interval[h], h)
  /\ lastTime' = LastAfter(q, last)
  /\ remaining' = [remaining EXCEPT ![h] = Interval[h]]

sys_timeouts_sleeptime(q, last) ==
  LET diff == (sysNow - last) % TimeWrap
  IN IF diff > q[1].time THEN 0 ELSE q[1].time - diff

----------------------------------------------------------------------------
(* Actions *)

TimeoutsInit ==
  /\ sysNow = TimeWrap - 3 /\ lastTime = TimeWrap - 3      \* soon to wrap
  /\ timeouts = <<>> /\ checkDiff = NotChecking /\ sleeptime = 0
  /\ tcpTimerActive = FALSE /\ tcpPcbs = FALSE
  /\ remaining = [h \in Handlers |-> 0]

\* One turn of the loop of sys_timeouts_init.
sys_timeouts_init ==
  /\ ~tcpTimerActive /\ checkDiff = NotChecking
  /\ \E h \in CyclicTimers : ~Pending(h) /\ Arm(timeouts, lastTime, h)
  /\ sleeptime' = 0
  /\ UNCHANGED <<sysNow, checkDiff, tcpTimerActive, tcpPcbs>>

TimersStarted == \A h \in CyclicTimers : Pending(h) \/ checkDiff # NotChecking

\* TCP_REG by the tcpip thread, which computes how long to sleep afterwards, or by another
\* thread that holds the core lock while the tcpip thread sleeps on.
tcp_timer_needed(byTcpip) ==
  /\ TimersStarted /\ ~tcpPcbs /\ checkDiff = NotChecking
  /\ tcpPcbs' = TRUE /\ tcpTimerActive' = TRUE
  /\ IF tcpTimerActive THEN UNCHANGED <<timeouts, lastTime, remaining>>
     ELSE Arm(timeouts, lastTime, "tcp")
  /\ sleeptime' = IF byTcpip THEN sys_timeouts_sleeptime(timeouts', lastTime') ELSE sleeptime
  /\ UNCHANGED <<sysNow, checkDiff>>

\* The last connection is gone.
TcpIdle ==
  /\ tcpPcbs /\ tcpPcbs' = FALSE
  /\ UNCHANGED <<sysNow, lastTime, timeouts, checkDiff, sleeptime, tcpTimerActive, remaining>>

\* How long ago the first entry was due, once the thread is to run.
Late == IF timeouts # <<>> /\ (checkDiff # NotChecking \/ sleeptime = 0)
          THEN Diff - timeouts[1].time ELSE 0

TimeoutsTick ==
  /\ TimersStarted /\ Late < MaxLag
  /\ sysNow' = (sysNow + 1) % TimeWrap
  /\ sleeptime' = IF sleeptime > 0 THEN sleeptime - 1 ELSE 0
  /\ remaining' = [h \in Handlers |-> IF Pending(h) /\ remaining[h] > -MaxLag
                                        THEN remaining[h] - 1 ELSE remaining[h]]
  /\ UNCHANGED <<lastTime, timeouts, checkDiff, tcpTimerActive, tcpPcbs>>

\* sys_timeouts_mbox_fetch: the fetch has timed out, sys_check_timeouts starts.
StartCheck ==
  /\ TimersStarted /\ checkDiff = NotChecking /\ sleeptime = 0
  /\ checkDiff' = Diff
  /\ UNCHANGED <<sysNow, lastTime, timeouts, sleeptime, tcpTimerActive, tcpPcbs, remaining>>

\* Seeded fault: a cyclic timer is armed again only while there are connections.
FireTimeout_LosesCyclic ==
  /\ checkDiff # NotChecking /\ timeouts # <<>> /\ timeouts[1].time <= checkDiff
  /\ LET t == timeouts[1]
         last == (lastTime + t.time) % TimeWrap
     IN /\ checkDiff' = checkDiff - t.time
        /\ IF tcpPcbs \/ Len(timeouts) = 1 THEN Arm(Tail(timeouts), last, t.h)
           ELSE /\ timeouts' = Tail(timeouts) /\ lastTime' = last
                /\ remaining' = [remaining EXCEPT ![t.h] = 0]
        /\ tcpTimerActive' = IF t.h = "tcp" THEN tcpPcbs ELSE tcpTimerActive
  /\ UNCHANGED <<sysNow, sleeptime, tcpPcbs>>

\* One turn of its loop: cyclic_timer arms itself again, tcpip_tcp_timer while there are pcbs.
FireTimeout ==
  /\ checkDiff # NotChecking /\ timeouts # <<>> /\ timeouts[1].time <= checkDiff
  /\ LET t == timeouts[1]
         last == (lastTime + t.time) % TimeWrap
         again == t.h \in CyclicTimers \/ tcpPcbs
     IN /\ checkDiff' = checkDiff - t.time
        /\ IF again THEN Arm(Tail(timeouts), last, t.h)
           ELSE /\ timeouts' = Tail(timeouts) /\ lastTime' = last
                /\ remaining' = [remaining EXCEPT ![t.h] = 0]
        /\ tcpTimerActive' = IF t.h = "tcp" THEN again ELSE tcpTimerActive
  /\ UNCHANGED <<sysNow, sleeptime, tcpPcbs>>

EndCheck ==
  /\ checkDiff # NotChecking /\ (timeouts = <<>> \/ timeouts[1].time > checkDiff)
  /\ checkDiff' = NotChecking
  /\ sleeptime' = sys_timeouts_sleeptime(timeouts, lastTime)
  /\ UNCHANGED <<sysNow, lastTime, timeouts, tcpTimerActive, tcpPcbs, remaining>>

TimeoutsNext ==
  \/ sys_timeouts_init
  \/ \E b \in BOOLEAN : tcp_timer_needed(b)
  \/ TcpIdle \/ TimeoutsTick \/ StartCheck \/ FireTimeout \/ EndCheck

TimeoutsSpec == TimeoutsInit /\ [][TimeoutsNext]_toVars

\* The clock ticks, and FreeRTOS runs the tcpip thread, whose priority is the highest.
TimeoutsFair == sys_timeouts_init \/ TimeoutsTick \/ StartCheck \/ FireTimeout \/ EndCheck

----------------------------------------------------------------------------
(* Type invariant. *)
TimeoutsTypeOK ==
  /\ sysNow \in 0..(TimeWrap - 1) /\ lastTime \in 0..(TimeWrap - 1)
  /\ timeouts \in Seq([h : Handlers, time : 0..(TimeWrap - 1)])
  /\ Len(timeouts) <= NumTimeouts
  /\ checkDiff \in -1..(TimeWrap - 1) /\ sleeptime \in 0..(TimeWrap - 1)
  /\ tcpTimerActive \in BOOLEAN /\ tcpPcbs \in BOOLEAN

(* A handler never runs before its time is over, except by as much as the tcpip thread was     *)
(* late when the timer was armed: the relative times of the list add up to at least what was   *)
(* asked for, whatever is put before, between or behind them (sys_timeout) and across the wrap *)
(* of sys_now().                                                                              *)
NeverEarly ==
  \A k \in 1..Len(timeouts) : Offset(timeouts, k) - Diff + MaxLag >= remaining[timeouts[k].h]

(* A timer is pending at most once, and the TCP timer exactly while it is marked active:       *)
(* otherwise tcp_timer_needed would start it twice, or never again.                           *)
OneEntryEach ==
  /\ \A j, k \in 1..Len(timeouts) : timeouts[j].h = timeouts[k].h => j = k
  /\ tcpTimerActive <=> Pending("tcp")

(* While any timer runs, every cyclic timer runs again: although sys_timeout delays the first  *)
(* entry by the time gone since timeouts_last_time whenever a shorter one is put before it.    *)
CyclicTimersRun ==
  \A h \in CyclicTimers : timeouts # <<>> ~> (Pending(h) /\ remaining[h] = Interval[h])

(* The list of timeouts.c as a whole: no handler early, none pending twice.                    *)
TimersSound == TimeoutsTypeOK /\ NeverEarly /\ OneEntryEach
=============================================================================
