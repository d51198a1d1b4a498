--------------------------- MODULE RecurrentTimer ---------------------------
(***************************************************************************)
(* The recurrent timer of the vehicle HAL                                  *)
(* (vehicle/common/include/vhal_v2_0/RecurrentTimer.h): a table of         *)
(* recurrent events, one per cookie, and one thread that fires the events  *)
(* that are due and sleeps until the next one.                             *)
(*                                                                         *)
(* The thread's loop reads the clock without the lock and has two lock     *)
(* regions: it scans the table in the first and starts to wait in the      *)
(* second; between them it runs the action without the lock.               *)
(* mCond.notify_one only wakes a thread that waits, so a change of the     *)
(* table in that gap is not noticed by the wait.                           *)
(*                                                                         *)
(* Time is a natural number that Tick moves on, up to MaxTime.             *)
(***************************************************************************)
EXTENDS Integers, FiniteSets

CONSTANTS Cookies,   \* what events are registered under
          UnitInterval,  \* the longest interval, that of the least positive rate
          MaxTime    \* bound of the clock

ASSUME TimerAssumption == /\ UnitInterval \in Nat \ {0}
                          /\ MaxTime \in Nat

VARIABLES now,                 \* Clock::now()
          mCookieToEventsMap,  \* cookie -> [interval, absoluteTime] or NoEvent
          mStopRequested,
          loopPc,              \* where loop() is
          loopNow,             \* its local: the time it works with
          cookies,             \* its local: events still to be fired
          nextEventTime,       \* its local: when the wait ends
          unseen,              \* history: registered since the last scan
          fires                \* history: firings at the time loopNow

timerVars == <<now, mCookieToEventsMap, mStopRequested, loopPc, loopNow,
               cookies, nextEventTime, unseen, fires>>

Intervals == 1 .. UnitInterval

\* The absent entry of the table.
NoEvent == [interval |-> 0, absoluteTime |-> 0]

RecurrentEvent == [interval : Intervals, absoluteTime : 0 .. MaxTime + UnitInterval]

\* TimePoint(Nanos::max()): later than every event.
kInvalidTime == MaxTime + UnitInterval + 1

Registered == {c \in Cookies : mCookieToEventsMap[c] # NoEvent}

TimerTypeOK ==
    /\ now \in 0 .. MaxTime
    /\ mCookieToEventsMap \in [Cookies -> RecurrentEvent \cup {NoEvent}]
    /\ mStopRequested \in BOOLEAN
    /\ loopPc \in {"loop", "scan", "act", "asleep", "done"}
    /\ loopNow \in 0 .. MaxTime
    /\ cookies \in SUBSET Cookies
    /\ nextEventTime \in 0 .. kInvalidTime
    /\ unseen \in SUBSET Cookies
    /\ fires \in [Cookies -> Nat]

TimerInit ==
    /\ now = 0
    /\ mCookieToEventsMap = [c \in Cookies |-> NoEvent]
    /\ mStopRequested = FALSE
    /\ loopPc = "loop"
    /\ loopNow = 0
    /\ cookies = {}
    /\ nextEventTime = kInvalidTime
    /\ unseen = {}
    /\ fires = [c \in Cookies |-> 0]

-----------------------------------------------------------------------------
(* Callers.                                                                *)

\* mCond.notify_one(): a thread that is not in wait_until misses it.
NotifyOne == loopPc' = IF loopPc = "asleep" THEN "loop" ELSE loopPc

\* Mutant: a new event begins where the call begins.
RegisterUnaligned(interval, c, start) ==
    /\ mCookieToEventsMap' =
           [mCookieToEventsMap EXCEPT
               ![c] = [interval |-> interval, absoluteTime |-> start]]
    /\ unseen' = unseen \cup {c}
    /\ fires' = [fires EXCEPT ![c] = 0]
    /\ NotifyOne
    /\ UNCHANGED <<now, mStopRequested, loopNow, cookies, nextEventTime>>

\* A new event lies on the last multiple of its interval, so it is due.  The
\* call read the clock at the time start and has the lock now.
registerRecurrentEvent(interval, c, start) ==
    /\ start <= now
    /\ mCookieToEventsMap' =
           [mCookieToEventsMap EXCEPT
               ![c] = [interval |-> interval,
                       absoluteTime |-> start - (start % interval)]]
    /\ unseen' = unseen \cup {c}
    /\ fires' = [fires EXCEPT ![c] = 0]
    /\ NotifyOne
    /\ UNCHANGED <<now, mStopRequested, loopNow, cookies, nextEventTime>>

unregisterRecurrentEvent(c) ==
    /\ mCookieToEventsMap' = [mCookieToEventsMap EXCEPT ![c] = NoEvent]
    /\ unseen' = unseen \ {c}
    /\ NotifyOne
    /\ UNCHANGED <<now, mStopRequested, loopNow, cookies, nextEventTime, fires>>

\* stop() up to the join.
stop ==
    /\ mStopRequested' = TRUE
    /\ mCookieToEventsMap' = [c \in Cookies |-> NoEvent]
    /\ unseen' = {}
    /\ NotifyOne
    /\ UNCHANGED <<now, loopNow, cookies, nextEventTime, fires>>

-----------------------------------------------------------------------------
(* The timer thread.                                                       *)

\* Mutant: one interval, however late the thread is.
OneInterval(event) == [event EXCEPT !.absoluteTime = @ + event.interval]

\* Mutant: rounded up and then moved past the next slot.
OneTooFar(event) ==
    LET elapsed == (loopNow - event.absoluteTime) \div event.interval
    IN  [event EXCEPT !.absoluteTime = @ + (elapsed + 2) * event.interval]

\* RecurrentEvent::updateNextEventTime: the integer division drops the part
\* of an interval, and an event that is late by less than one moves by one.
updateNextEventTime(event) ==
    LET elapsed    == (loopNow - event.absoluteTime) \div event.interval
        multiplier == IF elapsed <= 0 THEN 1 ELSE elapsed
    IN  [event EXCEPT !.absoluteTime = @ + multiplier * event.interval]

Due(event, time) == event # NoEvent /\ event.absoluteTime <= time

\* The table as the first lock region of loop() leaves it.
Scanned == [c \in Cookies |-> IF Due(mCookieToEventsMap[c], loopNow)
                              THEN updateNextEventTime(mCookieToEventsMap[c])
                              ELSE mCookieToEventsMap[c]]

\* Mutant: some event's time, not the least one.
AnyEvent(t, events) ==
    \/ t = kInvalidTime
    \/ \E c \in Cookies : events[c] # NoEvent /\ t = events[c].absoluteTime

\* The least time of the table's events, or kInvalidTime.
Earliest(t, events) ==
    /\ t \in 0 .. kInvalidTime
    /\ \A c \in Cookies : events[c] # NoEvent => t <= events[c].absoluteTime
    /\ \/ t = kInvalidTime
       \/ \E c \in Cookies : events[c] # NoEvent /\ t = events[c].absoluteTime

\* while (!mStopRequested), and the reading of the clock
LoopBegin ==
    /\ loopPc = "loop"
    /\ ~mStopRequested
    /\ loopNow' = now
    /\ fires' = IF loopNow' = loopNow THEN fires ELSE [c \in Cookies |-> 0]
    /\ loopPc' = "scan"
    /\ UNCHANGED <<now, mCookieToEventsMap, mStopRequested, cookies,
                   nextEventTime, unseen>>

\* The first lock region.
LoopScan ==
    /\ loopPc = "scan"
    /\ mCookieToEventsMap' = Scanned
    /\ cookies' = {c \in Cookies : Due(mCookieToEventsMap[c], loopNow)}
    /\ nextEventTime' \in {t \in 0 .. kInvalidTime : Earliest(t, Scanned)}
    /\ unseen' = {}
    /\ fires' = [c \in Cookies |-> IF c \in cookies' THEN fires[c] + 1
                                                     ELSE fires[c]]
    /\ loopPc' = "act"
    /\ UNCHANGED <<now, mStopRequested, loopNow>>

LoopExit ==
    /\ loopPc = "loop"
    /\ mStopRequested
    /\ loopPc' = "done"
    /\ UNCHANGED <<now, mCookieToEventsMap, mStopRequested, loopNow, cookies,
                   nextEventTime, unseen, fires>>

\* One cookie of action(cookies), which runs without the lock.
LoopFire(c) ==
    /\ loopPc = "act"
    /\ c \in cookies
    /\ cookies' = cookies \ {c}
    /\ UNCHANGED <<now, mCookieToEventsMap, mStopRequested, loopPc, loopNow,
                   nextEventTime, unseen, fires>>

\* wait_until returns at once when its time is past.
LoopWait ==
    /\ loopPc = "act"
    /\ cookies = {}
    /\ loopPc' = IF nextEventTime <= now THEN "loop" ELSE "asleep"
    /\ UNCHANGED <<now, mCookieToEventsMap, mStopRequested, loopNow, cookies,
                   nextEventTime, unseen, fires>>

\* Mutant: the wait ends after its time only.
TimeoutLate ==
    /\ loopPc = "asleep"
    /\ nextEventTime < now
    /\ loopPc' = "loop"
    /\ UNCHANGED <<now, mCookieToEventsMap, mStopRequested, loopNow, cookies,
                   nextEventTime, unseen, fires>>

\* wait_until has no predicate: it ends at its time.
LoopTimeout ==
    /\ loopPc = "asleep"
    /\ nextEventTime <= now
    /\ loopPc' = "loop"
    /\ UNCHANGED <<now, mCookieToEventsMap, mStopRequested, loopNow, cookies,
                   nextEventTime, unseen, fires>>

\* It may also return for no reason, which the loop takes as a time out.
LoopSpurious ==
    /\ loopPc = "asleep"
    /\ nextEventTime > now
    /\ loopPc' = "loop"
    /\ UNCHANGED <<now, mCookieToEventsMap, mStopRequested, loopNow, cookies,
                   nextEventTime, unseen, fires>>

Tick ==
    /\ now < MaxTime
    /\ now' = now + 1
    /\ UNCHANGED <<mCookieToEventsMap, mStopRequested, loopPc, loopNow, cookies,
                   nextEventTime, unseen, fires>>

-----------------------------------------------------------------------------
(* Properties.                                                             *)

\* While the timer thread sleeps, every event it has seen (loop() scanned it
\* after it was registered) is covered by the wait: none comes due before
\* the thread wakes by itself.  An event registered while the thread was
\* between its two lock regions is the one exception.
SleepCoversEvents ==
    loopPc = "asleep" =>
        \A c \in Registered \ unseen :
            nextEventTime <= mCookieToEventsMap[c].absoluteTime

\* registerRecurrentEvent aligns an event with its interval ("during every
\* second wake-up both intervals will be triggered") and no later update of
\* the event, however late the thread runs, loses the alignment.
EventsAligned ==
    \A c \in Registered : mCookieToEventsMap[c].absoluteTime
                              % mCookieToEventsMap[c].interval = 0

\* A thread that runs late does not replay the events it missed: however
\* many intervals went by, an event fires at most twice (once for the past,
\* once for the slot that is due now) at one time that the thread reads.
BurstBounded == \A c \in Registered : fires[c] <= 2
=============================================================================
