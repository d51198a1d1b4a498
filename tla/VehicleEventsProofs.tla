------------------------ MODULE VehicleEventsProofs ------------------------
(***************************************************************************)
(* The safety properties of VehicleEvents, for every set of properties,    *)
(* every set of rates and every length of the clock.  The liveness of the  *)
(* consumer and of the timer stays with TLC.                               *)
(***************************************************************************)
EXTENDS VehicleEvents, TLAPS

-----------------------------------------------------------------------------
(* Arithmetic.                                                             *)

\* The integer division of hertzToNanoseconds gives an interval.
LEMMA IntervalType ==
    ASSUME NEW r \in 1 .. UnitInterval
    PROVE  UnitInterval \div r \in Intervals
  BY TimerAssumption DEF Intervals

\* Division with remainder.
LEMMA DivMod ==
    ASSUME NEW n \in Nat, NEW i \in Nat \ {0}
    PROVE  /\ n \div i \in Nat
           /\ n % i \in 0 .. i - 1
           /\ n = (n \div i) * i + (n % i)
           /\ (n \div i) * i \in Nat
           /\ (n \div i) * i <= n
           /\ n < (n \div i) * i + i
           /\ n < i => n \div i = 0
  <1>1. n \div i \in Nat /\ n % i \in 0 .. i - 1
    OBVIOUS
  <1>2. n = (n \div i) * i + (n % i)
    OBVIOUS
  <1>3. (n \div i) * i \in Nat
    BY <1>1
  <1>4. n < i => n \div i = 0
    OBVIOUS
  <1> QED BY <1>1, <1>2, <1>3, <1>4

\* A multiple leaves no remainder.
LEMMA MultipleMod ==
    ASSUME NEW q \in Nat, NEW i \in Nat \ {0}
    PROVE  (q * i) % i = 0
  <1> DEFINE a == q * i
             k == q - (a \div i)
  <1>1. a \in Nat
    OBVIOUS
  <1> HIDE DEF a
  <1>2. /\ a \div i \in Nat
        /\ a % i \in 0 .. i - 1
        /\ a = (a \div i) * i + (a % i)
    BY <1>1, DivMod
  <1>3. k \in Int /\ k * i = a % i
    BY <1>2 DEF a
  <1> HIDE DEF k
  <1>r. i \in Int /\ a % i \in Int /\ 0 <= a % i /\ a % i < i
    BY <1>2
  <1>4. k <= 0
    <2>1. ASSUME k >= 1 PROVE FALSE
      <3>1. k * i >= i
        BY <1>3, <2>1
      <3>2. a % i >= i
        BY <1>3, <3>1
      <3> QED BY <1>r, <3>2
    <2> QED BY <1>3, <2>1
  <1>5. k >= 0
    <2>1. ASSUME k <= -1 PROVE FALSE
      <3>1. k * i <= -i
        BY <1>3, <2>1
      <3>2. a % i <= -i
        BY <1>3, <3>1
      <3> QED BY <1>r, <3>2
    <2> QED BY <1>3, <2>1
  <1>6. k = 0
    BY <1>3, <1>4, <1>5
  <1>7. a % i = 0
    BY <1>3, <1>6
  <1> QED BY <1>7 DEF a

\* Moving a multiple on by whole intervals gives a multiple.
LEMMA AlignedSum ==
    ASSUME NEW a \in Nat, NEW m \in Nat, NEW i \in Nat \ {0}, a % i = 0
    PROVE  (a + m * i) % i = 0
  <1>1. a = (a \div i) * i /\ a \div i \in Nat
    BY DivMod
  <1> DEFINE q == (a \div i) + m
  <1>2. q \in Nat /\ a + m * i = q * i
    BY <1>1
  <1> HIDE DEF q
  <1> QED BY <1>2, MultipleMod

\* Where registerRecurrentEvent puts a new event.
LEMMA AlignedStart ==
    ASSUME NEW n \in Nat, NEW i \in Nat \ {0}
    PROVE  /\ n - (n % i) \in 0 .. n
           /\ (n - (n % i)) % i = 0
  <1>1. /\ n \div i \in Nat
        /\ n % i \in 0 .. i - 1
        /\ n - (n % i) = (n \div i) * i
        /\ (n \div i) * i \in Nat
    BY DivMod
  <1>2. ((n \div i) * i) % i = 0
    BY <1>1, MultipleMod
  <1> QED BY <1>1, <1>2

\* updateNextEventTime of an event that is due: the event stays within the
\* bound, its new time is less than one interval in the past, and it is in
\* the future if the event was late by less than one interval.
LEMMA UpdateFacts ==
    ASSUME loopNow \in 0 .. MaxTime, NEW e \in RecurrentEvent,
           e.absoluteTime <= loopNow
    PROVE  LET u == updateNextEventTime(e) IN
           /\ u \in RecurrentEvent
           /\ u.interval = e.interval
           /\ loopNow < u.absoluteTime + u.interval
           /\ loopNow < e.absoluteTime + e.interval => loopNow < u.absoluteTime
           /\ e.absoluteTime % e.interval = 0 =>
                  u.absoluteTime % u.interval = 0
  <1> DEFINE i == e.interval
             a == e.absoluteTime
             d == loopNow - a
             m == IF d \div i <= 0 THEN 1 ELSE d \div i
             u == updateNextEventTime(e)
  <1>1. /\ i \in Nat \ {0} /\ i <= UnitInterval
        /\ a \in Nat
        /\ d \in Nat
        /\ MaxTime \in Nat /\ UnitInterval \in Nat
        /\ loopNow \in Nat /\ loopNow <= MaxTime
        /\ e = [interval |-> i, absoluteTime |-> a]
    BY TimerAssumption DEF RecurrentEvent, Intervals
  <1>2. u = [interval |-> i, absoluteTime |-> a + m * i]
    BY <1>1 DEF updateNextEventTime
  <1>3. a + d = loopNow
    BY <1>1
  <1> HIDE DEF u, i, a, d
  <1>4. /\ d \div i \in Nat
        /\ (d \div i) * i \in Nat
        /\ (d \div i) * i <= d
        /\ d < (d \div i) * i + i
        /\ d < i => d \div i = 0
    BY <1>1, DivMod
  <1>5. m \in Nat /\ m * i \in Nat /\ m * i <= d + i /\ d < m * i + i
    <2>1. CASE d \div i <= 0
      <3>1. m = 1 /\ d \div i = 0
        BY <2>1, <1>4
      <3>2. (d \div i) * i = 0 /\ m * i = i
        BY <3>1, <1>1
      <3> HIDE DEF m
      <3> QED BY <3>1, <3>2, <1>1, <1>4
    <2>2. CASE d \div i > 0
      <3>1. m = d \div i
        BY <2>2, <1>4
      <3> HIDE DEF m
      <3> QED BY <3>1, <1>1, <1>4
    <2> QED BY <2>1, <2>2, <1>4
  <1>6. d < i => m * i = i
    <2>1. d < i => m = 1
      BY <1>4
    <2> HIDE DEF m
    <2> QED BY <2>1, <1>1
  <1> HIDE DEF m
  <1>7. u.interval = i /\ u.absoluteTime = a + m * i
    BY <1>2
  <1>8. u \in RecurrentEvent
    BY <1>1, <1>2, <1>3, <1>5 DEF RecurrentEvent, Intervals
  <1>9. loopNow < u.absoluteTime + u.interval
    BY <1>1, <1>3, <1>5, <1>7
  <1>10. loopNow < a + i => loopNow < u.absoluteTime
    <2>1. loopNow < a + i => d < i
      BY <1>1, <1>3
    <2>2. loopNow < a + i => u.absoluteTime = a + i
      BY <2>1, <1>6, <1>7
    <2> QED BY <2>2
  <1>11. a % i = 0 => u.absoluteTime % u.interval = 0
    <2>1. ASSUME a % i = 0 PROVE (a + m * i) % i = 0
      <3>1. m \in Nat
        BY <1>5
      <3> QED BY <2>1, <3>1, <1>1, AlignedSum
    <2> QED BY <2>1, <1>7
  <1> QED BY <1>7, <1>8, <1>9, <1>10, <1>11 DEF u, i, a

-----------------------------------------------------------------------------
(* The inductive invariant.                                                *)

\* From the scan to the end of the wait the local nextEventTime covers every
\* event the scan saw.
CoverInv ==
    loopPc \in {"act", "asleep"} =>
        \A c \in Registered \ unseen :
            nextEventTime <= mCookieToEventsMap[c].absoluteTime

\* An event that has fired at this time is less than an interval behind, and
\* one that has fired twice lies in the future.
BurstInv ==
    \A c \in Registered :
        /\ fires[c] <= 2
        /\ fires[c] >= 1 => loopNow < mCookieToEventsMap[c].absoluteTime
                                      + mCookieToEventsMap[c].interval
        /\ fires[c] >= 2 => loopNow < mCookieToEventsMap[c].absoluteTime


\* A step of the timer's loop that touches neither the table nor the clock.
TableUnchanged ==
    UNCHANGED <<now, loopNow, mCookieToEventsMap, nextEventTime, unseen, fires>>

\* Everything but the timer.
LEMMA QueueStep ==
    ASSUME TypeOK, [Next]_vars
    PROVE  /\ QueueTypeOK'
           /\ service' \in Services
           /\ calls' \in 0 .. MaxCalls
  <1> USE DEF TypeOK, QueueTypeOK, Services
  <1>1. CASE \E p \in Cookies, r \in Rates, start \in 0 .. MaxTime :
                 HalSubscribe(p, r, start)
    BY <1>1, EventsAssumption DEF HalSubscribe, queueVars
  <1>2. CASE \E p \in Cookies : HalUnsubscribe(p)
    BY <1>2, EventsAssumption DEF HalUnsubscribe, queueVars
  <1>3. CASE \E w \in Car : CarEvent(w)
    BY <1>3 DEF CarEvent, push, Producers
  <1>4. CASE \E p \in Cookies : TimerFires(p)
    BY <1>4 DEF TimerFires, push, queueVars, Producers
  <1>5. CASE \/ TimerBegins \/ TimerScans \/ TimerExits \/ TimerWaits
             \/ TimerTimesOut
             \/ TimerWakesEarly \/ TimePasses \/ WaitStopped
    BY <1>5 DEF TimerBegins, TimerScans, TimerExits, TimerWaits, TimerTimesOut,
                TimerWakesEarly, TimePasses, WaitStopped, queueVars
  <1>6. CASE \/ Start \/ StartStopped \/ Loop \/ Block \/ WakeEarly \/ Wake
             \/ Break \/ onBatchHalEvent
    BY <1>6 DEF Start, StartStopped, Loop, Block, WakeEarly, Wake, Break,
                ConsumerStarts, ConsumerStartsStopped, ConsumerLoops,
                ConsumerBlocks, ConsumerSpurious, ConsumerWakes,
                ConsumerBreaks, Finish, onBatchHalEvent
  <1>7. CASE Flush
    BY <1>7 DEF Flush, ConsumerFlushes
  <1>8. CASE RequestStop \/ StopTimer
    BY <1>8 DEF RequestStop, requestStop, StopTimer, queueVars
  <1>9. CASE Deactivate
    BY <1>9 DEF Deactivate, deactivate
  <1>11. CASE NotifyAll \/ \E w \in Producers : Notify(w)
    BY <1>11 DEF NotifyAll, notify_all, Notify, notify_one, Woken
  <1>10. CASE UNCHANGED vars
    BY <1>10 DEF vars, queueVars
  <1> QED BY <1>1, <1>2, <1>3, <1>4, <1>5, <1>6, <1>7, <1>8, <1>9, <1>10, <1>11
          DEF Next

\* The flag of the queue and the progress of ~VehicleHalManager agree.
ActiveInv == mIsActive <=> service \in {"up", "stopRequested"}

\* A consumer that waits on mCond will be notified: a push that found it
\* waiting, or pushed before, has its notification still to send whenever
\* the queue holds items, and so has a deactivate.
NoLostWakeUp ==
    consumerPc = "blocked" =>
        \/ mQueue = "empty" /\ mIsActive
        \/ notifying # {}
        \/ service = "deactivating"

LEMMA WakeUpStep ==
    ASSUME TypeOK, ActiveInv, NoLostWakeUp, [Next]_vars
    PROVE  ActiveInv' /\ NoLostWakeUp'
  <1> USE DEF TypeOK, QueueTypeOK, ActiveInv, NoLostWakeUp
  <1>1. CASE \/ \E p \in Cookies, r \in Rates, start \in 0 .. MaxTime :
                    HalSubscribe(p, r, start)
             \/ \E p \in Cookies : HalUnsubscribe(p)
    BY <1>1 DEF HalSubscribe, HalUnsubscribe, queueVars
  <1>2. ASSUME NEW w \in Producers, push(w), service' = service
        PROVE  ActiveInv' /\ NoLostWakeUp'
    BY <1>2 DEF push
  <1>3. CASE \E w \in Car : CarEvent(w)
    BY <1>2, <1>3 DEF CarEvent, Producers
  <1>4. CASE \E p \in Cookies : TimerFires(p)
    <2>1. service' = service /\ (push(Timer) \/ UNCHANGED queueVars)
      BY <1>4 DEF TimerFires
    <2>2. CASE push(Timer)
      BY <1>2, <2>1, <2>2 DEF Producers
    <2>3. CASE UNCHANGED queueVars
      BY <2>1, <2>3 DEF queueVars
    <2> QED BY <2>1, <2>2, <2>3
  <1>5. CASE \/ TimerBegins \/ TimerScans \/ TimerExits \/ TimerWaits
             \/ TimerTimesOut \/ TimerWakesEarly \/ TimePasses
    BY <1>5 DEF TimerBegins, TimerScans, TimerExits, TimerWaits, TimerTimesOut,
                TimerWakesEarly, TimePasses, queueVars
  <1>6. CASE \/ Start \/ StartStopped \/ Loop \/ WakeEarly \/ Wake \/ Flush
             \/ Break \/ onBatchHalEvent
    <2>1. /\ consumerPc' # "blocked"
          /\ mIsActive' = mIsActive /\ service' = service
      BY <1>6 DEF Start, StartStopped, Loop, WakeEarly, Wake, Flush, Break,
                  ConsumerStarts, ConsumerStartsStopped, ConsumerLoops,
                  ConsumerSpurious, ConsumerWakes, ConsumerFlushes,
                  ConsumerBreaks, Finish, onBatchHalEvent
    <2> QED BY <2>1
  <1>7. CASE Block
    BY <1>7 DEF Block, ConsumerBlocks
  <1>8. CASE \E w \in Producers : Notify(w)
    BY <1>8 DEF Notify, notify_one, Woken
  <1>9. CASE RequestStop \/ WaitStopped \/ StopTimer
    BY <1>9 DEF RequestStop, requestStop, WaitStopped, StopTimer, queueVars
  <1>10. CASE Deactivate
    BY <1>10 DEF Deactivate, deactivate
  <1>11. CASE NotifyAll
    BY <1>11 DEF NotifyAll, notify_all, Woken
  <1>12. CASE UNCHANGED vars
    BY <1>12 DEF vars, queueVars
  <1> QED BY <1>1, <1>3, <1>4, <1>5, <1>6, <1>7, <1>8, <1>9, <1>10, <1>11, <1>12
          DEF Next

TimerInv == TimerTypeOK /\ CoverInv /\ EventsAligned /\ BurstInv

\* A step that leaves the table, the clock and the thread's wait alone.
LEMMA TableStep ==
    ASSUME TimerInv, TableUnchanged,
           mStopRequested' \in BOOLEAN,
           loopPc' \in {"loop", "scan", "act", "asleep", "done"},
           loopPc' \in {"act", "asleep"} => loopPc \in {"act", "asleep"},
           cookies' \in SUBSET Cookies
    PROVE  TimerInv'
  <1>1. TimerTypeOK'
    BY DEF TimerInv, TimerTypeOK, TableUnchanged
  <1>2. CoverInv'
    BY DEF TimerInv, CoverInv, Registered, TableUnchanged
  <1>3. EventsAligned'
    BY DEF TimerInv, EventsAligned, Registered, TableUnchanged
  <1>4. BurstInv'
    BY DEF TimerInv, BurstInv, Registered, TableUnchanged
  <1> QED BY <1>1, <1>2, <1>3, <1>4 DEF TimerInv

LEMMA NoEventFacts ==
    /\ NoEvent \notin RecurrentEvent
    /\ \A e \in RecurrentEvent : e # NoEvent
  BY DEF NoEvent, RecurrentEvent, Intervals

\* registerRecurrentEvent
LEMMA RegisterStep ==
    ASSUME TimerInv, NEW c \in Cookies, NEW i \in Intervals,
           NEW start \in 0 .. MaxTime,
           registerRecurrentEvent(i, c, start)
    PROVE  TimerInv'
  <1> DEFINE e == [interval |-> i, absoluteTime |-> start - (start % i)]
  <1>1. start \in Nat /\ start <= MaxTime /\ i \in Nat \ {0} /\ i <= UnitInterval
        /\ MaxTime \in Nat /\ UnitInterval \in Nat
    BY TimerAssumption DEF TimerInv, TimerTypeOK, Intervals
  <1>2. e.absoluteTime \in 0 .. start /\ e.absoluteTime % i = 0
    BY <1>1, AlignedStart
  <1>3. e \in RecurrentEvent
    BY <1>1, <1>2 DEF RecurrentEvent, Intervals
  <1>4. e.interval = i
    OBVIOUS
  <1>5. mCookieToEventsMap' = [mCookieToEventsMap EXCEPT ![c] = e]
    BY DEF registerRecurrentEvent
  <1> HIDE DEF e
  <1>6. /\ mCookieToEventsMap'[c] = e
        /\ \A d \in Cookies : d # c =>
               mCookieToEventsMap'[d] = mCookieToEventsMap[d]
    BY <1>5 DEF TimerInv, TimerTypeOK
  <1>7. /\ now' = now /\ loopNow' = loopNow /\ mStopRequested' = mStopRequested
        /\ cookies' = cookies /\ nextEventTime' = nextEventTime
        /\ unseen' = unseen \cup {c}
        /\ fires' = [fires EXCEPT ![c] = 0]
        /\ loopPc' = IF loopPc = "asleep" THEN "loop" ELSE loopPc
    BY DEF registerRecurrentEvent, NotifyOne
  <1>8. TimerTypeOK'
    BY <1>3, <1>5, <1>7 DEF TimerInv, TimerTypeOK
  <1>9. \A d \in Cookies : d # c => (d \in Registered' <=> d \in Registered)
    BY <1>6 DEF Registered
  <1>10. CoverInv'
    BY <1>6, <1>7, <1>9 DEF TimerInv, CoverInv, Registered
  <1>11. EventsAligned'
    BY <1>2, <1>4, <1>6, <1>9 DEF TimerInv, EventsAligned, Registered
  <1>12. BurstInv'
    BY <1>6, <1>7, <1>9 DEF TimerInv, TimerTypeOK, BurstInv, Registered
  <1> QED BY <1>8, <1>10, <1>11, <1>12 DEF TimerInv

\* unregisterRecurrentEvent and stop: the table loses events.
LEMMA ShrinkStep ==
    ASSUME TimerInv, NEW gone \in SUBSET Cookies,
           mCookieToEventsMap' = [c \in Cookies |->
               IF c \in gone THEN NoEvent ELSE mCookieToEventsMap[c]],
           unseen' = unseen \ gone,
           mStopRequested' \in BOOLEAN,
           NotifyOne,
           UNCHANGED <<now, loopNow, cookies, nextEventTime, fires>>
    PROVE  TimerInv'
  <1>1. Registered' = Registered \ gone
    BY DEF Registered
  <1>2. \A c \in Registered' : mCookieToEventsMap'[c] = mCookieToEventsMap[c]
    BY <1>1 DEF Registered
  <1>3. TimerTypeOK'
    BY DEF TimerInv, TimerTypeOK, NotifyOne
  <1>4. CoverInv'
    BY <1>1, <1>2 DEF TimerInv, CoverInv, NotifyOne
  <1>5. EventsAligned'
    BY <1>1, <1>2 DEF TimerInv, EventsAligned
  <1>6. BurstInv'
    BY <1>1, <1>2 DEF TimerInv, BurstInv
  <1> QED BY <1>3, <1>4, <1>5, <1>6 DEF TimerInv

\* The scan of loop().
LEMMA ScanStep ==
    ASSUME TimerInv, LoopScan
    PROVE  TimerInv'
  <1> DEFINE Old(c) == mCookieToEventsMap[c]
             New(c) == mCookieToEventsMap'[c]
  <1>1. /\ loopNow \in 0 .. MaxTime
        /\ loopNow' = loopNow
        /\ fires \in [Cookies -> Nat]
        /\ \A c \in Cookies : Old(c) \in RecurrentEvent \cup {NoEvent}
    BY DEF TimerInv, TimerTypeOK, LoopScan
  <1>2. \A c \in Cookies : New(c) = IF Due(Old(c), loopNow)
                                    THEN updateNextEventTime(Old(c))
                                    ELSE Old(c)
    BY DEF LoopScan, Scanned
  <1>3. \A c \in Cookies : fires'[c] = IF Due(Old(c), loopNow) THEN fires[c] + 1
                                                      ELSE fires[c]
    BY DEF LoopScan
  <1>4. ASSUME NEW c \in Cookies
        PROVE  /\ New(c) \in RecurrentEvent \cup {NoEvent}
               /\ New(c) # NoEvent => Old(c) # NoEvent
               /\ c \in Registered' =>
                      /\ New(c).absoluteTime % New(c).interval = 0
                      /\ fires'[c] <= 2
                      /\ fires'[c] >= 1 =>
                             loopNow < New(c).absoluteTime + New(c).interval
                      /\ fires'[c] >= 2 => loopNow < New(c).absoluteTime
    <2>1. CASE Due(Old(c), loopNow)
      <3> DEFINE e == Old(c)
      <3>1. /\ e \in RecurrentEvent
            /\ e.absoluteTime <= loopNow
            /\ c \in Registered
        BY <1>1, <2>1 DEF Due, Registered
      <3>2. New(c) = updateNextEventTime(e)
        BY <1>2, <2>1
      <3>3. /\ New(c) \in RecurrentEvent
            /\ New(c).interval = e.interval
            /\ loopNow < New(c).absoluteTime + New(c).interval
            /\ loopNow < e.absoluteTime + e.interval =>
                   loopNow < New(c).absoluteTime
            /\ e.absoluteTime % e.interval = 0 =>
                   New(c).absoluteTime % New(c).interval = 0
        BY <1>1, <3>1, <3>2, UpdateFacts
      <3>4. /\ e.absoluteTime % e.interval = 0
            /\ fires[c] >= 1 => loopNow < e.absoluteTime + e.interval
            /\ fires[c] >= 2 => loopNow < e.absoluteTime
        BY <3>1 DEF TimerInv, EventsAligned, BurstInv
      <3>5. /\ e.absoluteTime \in Int /\ loopNow \in Int /\ fires[c] \in Nat
            /\ fires'[c] = fires[c] + 1
        BY <1>1, <1>3, <2>1, <3>1 DEF RecurrentEvent
      <3>6. fires[c] < 2
        BY <3>1, <3>4, <3>5
      <3>7. fires'[c] >= 2 => fires[c] >= 1
        BY <3>5
      <3>8. fires'[c] <= 2
        BY <3>5, <3>6
      <3>9. fires'[c] >= 2 => loopNow < New(c).absoluteTime
        BY <3>3, <3>4, <3>7
      <3> QED BY <3>1, <3>3, <3>4, <3>8, <3>9 DEF Registered
    <2>2. CASE ~Due(Old(c), loopNow)
      <3>1. New(c) = Old(c) /\ fires'[c] = fires[c]
        BY <1>2, <1>3, <2>2
      <3>2. c \in Registered' => c \in Registered
        BY <3>1 DEF Registered
      <3> QED BY <1>1, <3>1, <3>2
              DEF TimerInv, EventsAligned, BurstInv, Registered
    <2> QED BY <2>1, <2>2
  <1>5. fires' \in [Cookies -> Nat]
    BY <1>1 DEF LoopScan
  <1>6. mCookieToEventsMap' \in [Cookies -> RecurrentEvent \cup {NoEvent}]
    BY <1>4 DEF LoopScan, Scanned
  <1>7. TimerTypeOK'
    <2>1. cookies' \in SUBSET Cookies
      BY DEF LoopScan
    <2>2. nextEventTime' \in 0 .. kInvalidTime
      BY DEF LoopScan
    <2> QED BY <1>5, <1>6, <2>1, <2>2
            DEF TimerInv, TimerTypeOK, LoopScan, kInvalidTime
  <1>8. CoverInv'
    <2>1. Earliest(nextEventTime', Scanned)
      BY DEF LoopScan
    <2>2. mCookieToEventsMap' = Scanned
      BY DEF LoopScan
    <2>3. \A c \in Cookies : New(c) # NoEvent =>
              nextEventTime' <= New(c).absoluteTime
      BY <2>1, <2>2 DEF Earliest
    <2> QED BY <2>3 DEF CoverInv, Registered
  <1>9. EventsAligned'
    BY <1>4 DEF EventsAligned, Registered
  <1>10. BurstInv'
    BY <1>1, <1>4 DEF BurstInv, Registered
  <1> QED BY <1>7, <1>8, <1>9, <1>10 DEF TimerInv

\* The reading of the clock: the counts start again at a new time.
LEMMA BeginStep ==
    ASSUME TimerInv, LoopBegin
    PROVE  TimerInv'
  <1>1. /\ UNCHANGED <<now, mCookieToEventsMap, mStopRequested, cookies,
                       nextEventTime, unseen>>
        /\ loopNow' = now
        /\ loopPc' = "scan"
        /\ fires' = IF loopNow' = loopNow THEN fires
                                          ELSE [c \in Cookies |-> 0]
    BY DEF LoopBegin
  <1>2. TimerTypeOK'
    BY <1>1 DEF TimerInv, TimerTypeOK
  <1>3. CoverInv'
    BY <1>1 DEF CoverInv
  <1>4. EventsAligned'
    BY <1>1 DEF TimerInv, EventsAligned, Registered
  <1>5. BurstInv'
    <2>1. CASE loopNow' = loopNow
      BY <1>1, <2>1 DEF TimerInv, BurstInv, Registered
    <2>2. CASE loopNow' # loopNow
      BY <1>1, <2>2 DEF BurstInv, Registered
    <2> QED BY <2>1, <2>2
  <1> QED BY <1>2, <1>3, <1>4, <1>5 DEF TimerInv

\* The clock.
LEMMA TickStep ==
    ASSUME TimerInv, Tick
    PROVE  TimerInv'
  <1>1. /\ now \in Nat /\ now' = now + 1 /\ now' <= MaxTime
        /\ UNCHANGED <<mCookieToEventsMap, mStopRequested, loopPc, loopNow,
                       cookies, nextEventTime, unseen, fires>>
    BY TimerAssumption DEF Tick, TimerInv, TimerTypeOK
  <1>2. TimerTypeOK'
    BY <1>1, TimerAssumption DEF TimerInv, TimerTypeOK
  <1>3. CoverInv'
    BY <1>1 DEF TimerInv, CoverInv, Registered
  <1>4. EventsAligned'
    BY <1>1 DEF TimerInv, EventsAligned, Registered
  <1>5. BurstInv'
    BY <1>1 DEF TimerInv, BurstInv, Registered
  <1> QED BY <1>2, <1>3, <1>4, <1>5 DEF TimerInv

LEMMA TimerStep ==
    ASSUME TimerInv, [Next]_vars
    PROVE  TimerInv'
  <1>0. /\ cookies \in SUBSET Cookies
        /\ mStopRequested \in BOOLEAN
        /\ loopPc \in {"loop", "scan", "act", "asleep", "done"}
        /\ mCookieToEventsMap \in [Cookies -> RecurrentEvent \cup {NoEvent}]
        /\ unseen \in SUBSET Cookies
    BY DEF TimerInv, TimerTypeOK
  <1>1. ASSUME NEW p \in Cookies, NEW r \in Rates,
               NEW start \in 0 .. MaxTime, HalSubscribe(p, r, start)
        PROVE  TimerInv'
    <2>1. UnitInterval \div r \in Intervals
      BY IntervalType, EventsAssumption
    <2> QED BY <1>1, <2>1, RegisterStep DEF HalSubscribe
  <1>2. ASSUME NEW p \in Cookies, HalUnsubscribe(p)
        PROVE  TimerInv'
    <2>1. mCookieToEventsMap' =
              [c \in Cookies |-> IF c \in {p} THEN NoEvent
                                              ELSE mCookieToEventsMap[c]]
      BY <1>0, <1>2 DEF HalUnsubscribe, unregisterRecurrentEvent
    <2>2. unseen' = unseen \ {p} /\ NotifyOne /\ mStopRequested' \in BOOLEAN
          /\ UNCHANGED <<now, loopNow, cookies, nextEventTime, fires>>
      BY <1>0, <1>2 DEF HalUnsubscribe, unregisterRecurrentEvent
    <2> QED BY <2>1, <2>2, ShrinkStep
  <1>3. CASE StopTimer
    <2>1. mCookieToEventsMap' =
              [c \in Cookies |-> IF c \in Cookies THEN NoEvent
                                                  ELSE mCookieToEventsMap[c]]
      BY <1>3 DEF StopTimer, stop
    <2>2. unseen' = unseen \ Cookies /\ NotifyOne /\ mStopRequested' \in BOOLEAN
          /\ UNCHANGED <<now, loopNow, cookies, nextEventTime, fires>>
      BY <1>0, <1>3 DEF StopTimer, stop
    <2> QED BY <2>1, <2>2, ShrinkStep
  <1>4. CASE TimerScans
    BY <1>4, ScanStep DEF TimerScans
  <1>9. CASE TimerBegins
    BY <1>9, BeginStep DEF TimerBegins
  <1>5. CASE TimePasses
    BY <1>5, TickStep DEF TimePasses
  <1>6. CASE \/ TimerExits \/ TimerWaits \/ TimerTimesOut \/ TimerWakesEarly
             \/ \E p \in Cookies : TimerFires(p)
    <2>1. /\ TableUnchanged
          /\ mStopRequested' = mStopRequested
          /\ loopPc' \in {"loop", "scan", "act", "asleep", "done"}
          /\ loopPc' \in {"act", "asleep"} => loopPc \in {"act", "asleep"}
          /\ cookies' \in SUBSET Cookies
      BY <1>0, <1>6
         DEF TimerExits, TimerWaits, TimerTimesOut, TimerWakesEarly, TimerFires,
             LoopExit, LoopWait, LoopTimeout, LoopSpurious, LoopFire,
             TableUnchanged
    <2> QED BY <1>0, <2>1, TableStep
  <1>7. CASE UNCHANGED timerVars
    <2>1. /\ TableUnchanged
          /\ mStopRequested' = mStopRequested
          /\ loopPc' = loopPc
          /\ cookies' = cookies
      BY <1>7 DEF timerVars, TableUnchanged
    <2> QED BY <1>0, <2>1, TableStep
  <1>8. CASE \/ \E w \in Car : CarEvent(w)
             \/ \E w \in Producers : Notify(w)
             \/ Start \/ StartStopped \/ Loop \/ Block \/ WakeEarly \/ Wake
             \/ Flush \/ Break \/ onBatchHalEvent \/ RequestStop
             \/ Deactivate \/ NotifyAll \/ WaitStopped \/ UNCHANGED vars
    BY <1>7, <1>8
       DEF CarEvent, Notify, Start, StartStopped, Loop, Block, WakeEarly, Wake,
           Flush, Break, onBatchHalEvent, RequestStop, Deactivate, NotifyAll,
           WaitStopped, vars
  <1> QED BY <1>1, <1>2, <1>3, <1>4, <1>5, <1>6, <1>8, <1>9 DEF Next

-----------------------------------------------------------------------------
(* Theorems.                                                               *)

IInv ==
    /\ TypeOK
    /\ CoverInv /\ EventsAligned /\ BurstInv
    /\ ActiveInv /\ NoLostWakeUp

\* The inductive invariant holds at the start and every step keeps it.
THEOREM Inductive == Spec => []IInv
  <1>1. Init => IInv
    <2>1. Init => TypeOK
      <3>1. Init => TimerTypeOK
        <4> SUFFICES ASSUME Init PROVE TimerTypeOK
          OBVIOUS
        <4>1. /\ now \in 0 .. MaxTime
              /\ loopNow \in 0 .. MaxTime
              /\ nextEventTime \in 0 .. kInvalidTime
          BY TimerAssumption DEF Init, TimerInit, kInvalidTime
        <4>2. mStopRequested \in BOOLEAN
          BY DEF Init, TimerInit
        <4>3. mCookieToEventsMap \in [Cookies -> RecurrentEvent \cup {NoEvent}]
          BY DEF Init, TimerInit
        <4>4. /\ loopPc \in {"loop", "scan", "act", "asleep", "done"}
              /\ cookies \in SUBSET Cookies
              /\ unseen \in SUBSET Cookies
              /\ fires \in [Cookies -> Nat]
          BY DEF Init, TimerInit
        <4> QED BY <4>1, <4>2, <4>3, <4>4 DEF TimerTypeOK
      <3>2. Init => QueueTypeOK
        BY DEF Init, QueueInit, QueueTypeOK
      <3>3. Init => service = "up" /\ calls \in 0 .. MaxCalls
        BY EventsAssumption DEF Init
      <3> QED BY <3>1, <3>2, <3>3 DEF TypeOK, Services
    <2>2. Init => CoverInv /\ EventsAligned /\ BurstInv
      BY DEF Init, TimerInit, CoverInv, EventsAligned, BurstInv, Registered
    <2>3. Init => ActiveInv /\ NoLostWakeUp
      BY DEF Init, QueueInit, ActiveInv, NoLostWakeUp
    <2> QED BY <2>1, <2>2, <2>3 DEF IInv
  <1>2. IInv /\ [Next]_vars => IInv'
    <2> SUFFICES ASSUME IInv, [Next]_vars PROVE IInv'
      OBVIOUS
    <2>1. TypeOK /\ TimerInv
      BY DEF IInv, TypeOK, TimerInv
    <2>2. TimerInv'
      BY <2>1, TimerStep
    <2>3. /\ QueueTypeOK'
          /\ service' \in Services
          /\ calls' \in 0 .. MaxCalls
      BY <2>1, QueueStep
    <2>4. ActiveInv' /\ NoLostWakeUp'
      BY <2>1, WakeUpStep DEF IInv
    <2> QED BY <2>2, <2>3, <2>4 DEF IInv, TypeOK, TimerInv
  <1> QED BY <1>1, <1>2, PTL DEF Spec

\* Every variable keeps its type: in particular no event time leaves the
\* span of the clock by more than the longest interval.
THEOREM TypeCorrect == Spec => []TypeOK
  <1>1. IInv => TypeOK
    BY DEF IInv
  <1> QED BY <1>1, Inductive, PTL

\* The timer thread sleeps through no event that its scan has seen.
THEOREM SleepCovers == Spec => []SleepCoversEvents
  <1>1. IInv => SleepCoversEvents
    BY DEF IInv, CoverInv, SleepCoversEvents
  <1> QED BY <1>1, Inductive, PTL

\* Events stay on the multiples of their intervals.
THEOREM Aligned == Spec => []EventsAligned
  <1>1. IInv => EventsAligned
    BY DEF IInv
  <1> QED BY <1>1, Inductive, PTL

\* A late thread fires an event at most twice at one time that it reads.
THEOREM Burst == Spec => []BurstBounded
  <1>1. IInv => BurstBounded
    BY DEF IInv, BurstInv, BurstBounded
  <1> QED BY <1>1, Inductive, PTL

\* The consumer never waits in waitForItems on a queue that holds items, or
\* that was deactivated, without a notification that is still to come: the
\* notifications sent after the lock was released are not lost.
THEOREM WakeUps == Spec => []NoLostWakeUp
  <1>1. IInv => NoLostWakeUp
    BY DEF IInv
  <1> QED BY <1>1, Inductive, PTL
=============================================================================
