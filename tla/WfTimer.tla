------------------------------ MODULE WfTimer ------------------------------
(***************************************************************************)
(* The timers of wfantund (src/src/util/Timer.cpp, Timer.h): one list,     *)
(* sorted by the time at which a timer fires, that the main loop looks at  *)
(* to find out how long it may sleep and which callbacks are due.          *)
(*                                                                         *)
(* The clock, cms_t, is a signed 32-bit count of milliseconds that wraps:  *)
(* here it counts modulo TimerWrap, and two times are compared by the sign *)
(* of their wrapped difference.  A callback may schedule and cancel any    *)
(* timer, its own too: Schedule and Cancel may come between two            *)
(* iterations of the loop of process().                                    *)
(***************************************************************************)
EXTENDS Integers, Sequences

CONSTANTS
    Timers,       \* the Timer objects
    TimerWrap,    \* the range of cms_t
    MaxInterval,  \* the longest interval that the daemon asks for
    MaxLate       \* how late the main loop may come back to its timers

(***************************************************************************)
(* The longest interval of the daemon is the two weeks of the log of       *)
(* statistics (StatCollector.cpp:63): 1 209 600 000 ms of the 2^31 that a   *)
(* difference may have.  The main loop is late by less than the rest.      *)
(***************************************************************************)
ASSUME TimerAssumption ==
    /\ TimerWrap \in Nat /\ MaxInterval \in Nat \ {0} /\ MaxLate \in Nat
    /\ 2 * (MaxInterval + MaxLate) < TimerWrap

TimerTypes == {"OneShot", "PeriodicFixedRate", "PeriodicFixedDelay"}

VARIABLES
    tNow,       \* time_ms()
    tFire,      \* mFireTime of each timer
    tInterval,  \* mInterval
    tType,      \* mType
    tList,      \* the list from mListHead on; a timer that is not in it has no mNext
    tDue        \* history: the time, without a wrap, until a timer is due

tvars == <<tNow, tFire, tInterval, tType, tList, tDue>>

\* The difference of two times as cms_t holds it.
Signed(d) == LET r == d % TimerWrap
             IN  IF 2 * r < TimerWrap THEN r ELSE r - TimerWrap

Earlier_NoWrap(a, b) == a < b

Earlier(a, b) == Signed(a - b) < 0

is_now_or_in_past(t) == Signed(tFire[t] - tNow) <= 0

OnList(list, t) == \E i \in DOMAIN list : list[i] = t

\* Timer::remove; a timer that is not on the list is left alone.
TimerRemove(list, t) ==
    IF ~OnList(list, t) THEN list
    ELSE LET k == CHOOSE i \in DOMAIN list : list[i] = t
         IN  [j \in 1 .. Len(list) - 1 |-> IF j < k THEN list[j] ELSE list[j + 1]]

\* The place of the first timer that fires later, or the end of the list.
PlaceOf(list, t, fire) ==
    CHOOSE k \in 1 .. Len(list) + 1 :
        /\ \A j \in 1 .. k - 1 : ~Earlier(fire[t], fire[list[j]])
        /\ k <= Len(list) => Earlier(fire[t], fire[list[k]])

\* Timer::add: before the first timer that fires later, so after its equals.
TimerAdd(list, t, fire) ==
    LET k == PlaceOf(list, t, fire)
    IN  [j \in 1 .. Len(list) + 1 |->
            IF j < k THEN list[j] ELSE IF j = k THEN t ELSE list[j - 1]]

\* Timer::schedule; no caller passes an interval of zero.
TimerSchedule(t, interval, type) ==
    /\ tInterval' = [tInterval EXCEPT ![t] = interval]
    /\ tType' = [tType EXCEPT ![t] = type]
    /\ tFire' = [tFire EXCEPT ![t] = (interval + tNow) % TimerWrap]
    /\ tDue' = [tDue EXCEPT ![t] = interval]
    /\ tList' = TimerAdd(TimerRemove(tList, t), t, tFire')
    /\ UNCHANGED tNow

\* Nothing reads the times of a timer that is off the list: they are forgotten.
Forget(t) ==
    /\ tFire' = [tFire EXCEPT ![t] = 0]
    /\ tInterval' = [tInterval EXCEPT ![t] = 0]
    /\ tType' = [tType EXCEPT ![t] = "OneShot"]
    /\ tDue' = [tDue EXCEPT ![t] = 0]

\* Timer::cancel
TimerCancel(t) ==
    /\ tList' = TimerRemove(tList, t)
    /\ Forget(t)
    /\ UNCHANGED tNow

(***************************************************************************)
(* One iteration of Timer::process: the timer at the head, when it is due, *)
(* leaves the list, enters it again if it is periodic, and its callback    *)
(* runs.                                                                   *)
(***************************************************************************)
TimerProcess ==
    /\ tList # <<>>
    /\ LET t == Head(tList)
           from == IF tType[t] = "PeriodicFixedRate" THEN tFire[t] ELSE tNow
           wasDue == IF tType[t] = "PeriodicFixedRate" THEN tDue[t] ELSE 0
       IN  /\ is_now_or_in_past(t)
           /\ IF tType[t] = "OneShot"
              THEN /\ tList' = Tail(tList)
                   /\ Forget(t)
              ELSE /\ tFire' = [tFire EXCEPT ![t] = (tInterval[t] + from) % TimerWrap]
                   /\ tDue' = [tDue EXCEPT ![t] = wasDue + tInterval[t]]
                   /\ tList' = TimerAdd(Tail(tList), t, tFire')
                   /\ UNCHANGED <<tInterval, tType>>
    /\ UNCHANGED tNow

\* Timer::get_ms_to_next_event, what update_timeout lowers the sleep to.
TimerMsToNextEvent ==
    IF tList = <<>> THEN MaxInterval
    ELSE LET ms == Signed(tFire[Head(tList)] - tNow)
         IN  IF ms < 0 THEN 0 ELSE ms

(***************************************************************************)
(* Time passes: the main loop sleeps, or a callback takes its time.  No    *)
(* timer gets later than MaxLate.                                          *)
(***************************************************************************)
TimerTick ==
    /\ \A i \in DOMAIN tList : tDue[tList[i]] > -MaxLate
    /\ tNow' = (tNow + 1) % TimerWrap
    /\ tDue' = [t \in Timers |-> IF OnList(tList, t) THEN tDue[t] - 1 ELSE 0]
    /\ UNCHANGED <<tFire, tInterval, tType, tList>>

TimerInit(starts) ==
    /\ tNow \in starts
    /\ tFire = [t \in Timers |-> 0]
    /\ tInterval = [t \in Timers |-> 0]
    /\ tType = [t \in Timers |-> "OneShot"]
    /\ tList = <<>>
    /\ tDue = [t \in Timers |-> 0]

\* types gives the types that a timer is scheduled with: each of the daemon's
\* is always scheduled with the same.
TimerNext(types) ==
    \/ \E t \in Timers, i \in 1 .. MaxInterval :
         \E y \in types[t] \cap TimerTypes : TimerSchedule(t, i, y)
    \/ \E t \in Timers : TimerCancel(t)
    \/ TimerProcess
    \/ TimerTick

\* The time until a timer is due; one that is late is due now.
UntilDue(t) == IF tDue[t] < 0 THEN 0 ELSE tDue[t]

TimerSpec(types) == TimerInit(0 .. TimerWrap - 1) /\ [][TimerNext(types)]_tvars

(***************************************************************************)
(* The main loop never sleeps past a timer, and never spins: what it is    *)
(* told to sleep is, across a wrap of the clock and whatever callbacks did *)
(* to the list, the time until the earliest of the timers is due.  So the  *)
(* timer at the head hides no timer that is due before it.                 *)
(***************************************************************************)
SleepsUntilNextTimer ==
    tList # <<>> =>
        /\ \A i \in DOMAIN tList : TimerMsToNextEvent <= UntilDue(tList[i])
        /\ \E i \in DOMAIN tList : TimerMsToNextEvent = UntilDue(tList[i])

=============================================================================
