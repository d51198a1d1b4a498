---------------------------- MODULE VehicleEvents ----------------------------
(***************************************************************************)
(* The vehicle HAL's events, from where they arise to the clients'         *)
(* callbacks: the recurrent timer of EmulatedVehicleHal                    *)
(* (vehicle/impl/vhal_v2_0/EmulatedVehicleHal.cpp) and the car put events  *)
(* into the queue of VehicleHalManager                                     *)
(* (vehicle/common/src/VehicleHalManager.cpp), whose consumer thread hands *)
(* them out in batches; and the end of the service.                        *)
(*                                                                         *)
(* A property's id is the timer's cookie for it.  Which clients an event   *)
(* of a batch goes to is the matter of SubscriptionManager.                *)
(***************************************************************************)
EXTENDS RecurrentTimer, EventQueue

CONSTANTS Rates,     \* sample rates the HAL is asked for
          Car,       \* threads that report changes of the car
          MaxCalls   \* bound on the subscriptions and unsubscriptions

Timer == "timer"    \* the thread of the recurrent timer

Producers == Car \cup {Timer}

ASSUME EventsAssumption ==
    /\ Rates \subseteq 1 .. UnitInterval
    /\ Timer \notin Car
    /\ MaxCalls \in Nat

VARIABLES service,  \* how far the end of the service is
          calls     \* how many calls were made

vars == <<timerVars, queueVars, service, calls>>

QueueTypeOK ==
    /\ mQueue \in {"empty", "items"}
    /\ mIsActive \in BOOLEAN
    /\ notifying \in SUBSET Producers
    /\ mState \in {"INIT", "RUNNING", "STOP_REQUESTED", "STOPPED"}
    /\ consumerPc \in {"start", "loop", "wait", "blocked", "sleep", "batch",
                       "done"}

Services == {"up", "stopRequested", "deactivating", "deactivated",
             "destroyed", "down"}

\* Every variable has its type: an event's time stays within its interval
\* of the clock.
TypeOK ==
    /\ TimerTypeOK
    /\ QueueTypeOK
    /\ service \in Services
    /\ calls \in 0 .. MaxCalls

Init ==
    /\ TimerInit
    /\ QueueInit
    /\ service = "up"
    /\ calls = 0

-----------------------------------------------------------------------------
(* EmulatedVehicleHal: subscriptions to continuous properties.             *)

\* subscribe, with hertzToNanoseconds of a positive rate
HalSubscribe(p, rate, start) ==
    /\ service = "up"
    /\ calls < MaxCalls
    /\ registerRecurrentEvent(UnitInterval \div rate, p, start)
    /\ calls' = calls + 1
    /\ UNCHANGED <<queueVars, service>>

\* unsubscribe
HalUnsubscribe(p) ==
    /\ service = "up"
    /\ calls < MaxCalls
    /\ unregisterRecurrentEvent(p)
    /\ calls' = calls + 1
    /\ UNCHANGED <<queueVars, service>>

\* onPropertyValue: the car changes a property.
CarEvent(w) ==
    /\ service \in {"up", "stopRequested", "deactivating", "deactivated"}
    /\ push(w)
    /\ UNCHANGED <<timerVars, service, calls>>

\* onContinuousPropertyTimer, for one of the timer's cookies: its property
\* has a value or has none in the property store.
TimerFires(p) ==
    /\ LoopFire(p)
    /\ Timer \notin notifying
    /\ push(Timer) \/ UNCHANGED queueVars
    /\ UNCHANGED <<service, calls>>

Notify(w) == notify_one(w) /\ UNCHANGED <<timerVars, service, calls>>

TimerBegins     == LoopBegin /\ UNCHANGED <<queueVars, service, calls>>
TimerScans      == LoopScan /\ UNCHANGED <<queueVars, service, calls>>
TimerExits      == LoopExit /\ UNCHANGED <<queueVars, service, calls>>
TimerWaits      == LoopWait /\ Timer \notin notifying
                   /\ UNCHANGED <<queueVars, service, calls>>
TimerTimesOut   == LoopTimeout /\ UNCHANGED <<queueVars, service, calls>>
TimerWakesEarly == LoopSpurious /\ UNCHANGED <<queueVars, service, calls>>
TimePasses      == Tick /\ UNCHANGED <<queueVars, service, calls>>

-----------------------------------------------------------------------------
(* VehicleHalManager: the consumer and the destructor.                     *)

Start        == ConsumerStarts /\ UNCHANGED <<timerVars, service, calls>>
StartStopped == ConsumerStartsStopped /\ UNCHANGED <<timerVars, service, calls>>
Loop         == ConsumerLoops /\ UNCHANGED <<timerVars, service, calls>>
Block        == ConsumerBlocks /\ UNCHANGED <<timerVars, service, calls>>
WakeEarly    == ConsumerSpurious /\ UNCHANGED <<timerVars, service, calls>>
Wake         == ConsumerWakes /\ UNCHANGED <<timerVars, service, calls>>
Flush        == ConsumerFlushes /\ UNCHANGED <<timerVars, service, calls>>
Break        == ConsumerBreaks /\ UNCHANGED <<timerVars, service, calls>>

\* onBatchHalEvent: the batch is distributed and the clients called back.
onBatchHalEvent ==
    /\ consumerPc = "batch"
    /\ consumerPc' = "loop"
    /\ UNCHANGED <<mQueue, mIsActive, notifying, mState, timerVars, service,
                   calls>>

\* ~VehicleHalManager
RequestStop ==
    /\ service = "up"
    /\ requestStop
    /\ service' = "stopRequested"
    /\ UNCHANGED <<timerVars, calls>>

Deactivate ==
    /\ service = "stopRequested"
    /\ deactivate
    /\ service' = "deactivating"
    /\ UNCHANGED <<timerVars, calls>>

NotifyAll ==
    /\ service = "deactivating"
    /\ notify_all
    /\ service' = "deactivated"
    /\ UNCHANGED <<timerVars, calls>>

\* waitStopped joins the consumer's thread.
WaitStopped ==
    /\ service = "deactivated"
    /\ consumerPc = "done"
    /\ service' = "destroyed"
    /\ UNCHANGED <<timerVars, queueVars, calls>>

\* ~RecurrentTimer, with the HAL it belongs to.
StopTimer ==
    /\ service = "destroyed"
    /\ stop
    /\ service' = "down"
    /\ UNCHANGED <<queueVars, calls>>

-----------------------------------------------------------------------------
Next ==
    \/ \E p \in Cookies, r \in Rates, start \in 0 .. MaxTime :
           HalSubscribe(p, r, start)
    \/ \E p \in Cookies : HalUnsubscribe(p)
    \/ \E w \in Car : CarEvent(w)
    \/ \E w \in Producers : Notify(w)
    \/ \E p \in Cookies : TimerFires(p)
    \/ TimerBegins
    \/ TimerScans
    \/ TimerExits
    \/ TimerWaits
    \/ TimerTimesOut
    \/ TimerWakesEarly
    \/ TimePasses
    \/ Start
    \/ StartStopped
    \/ Loop
    \/ Block
    \/ WakeEarly
    \/ Wake
    \/ Flush
    \/ Break
    \/ onBatchHalEvent
    \/ RequestStop
    \/ Deactivate
    \/ NotifyAll
    \/ WaitStopped
    \/ StopTimer

Consumer == Start \/ StartStopped \/ Loop \/ Block \/ Wake \/ Flush
            \/ Break \/ onBatchHalEvent

\* The consumer's thread is scheduled, its sleep ends and the clients'
\* callbacks, which are one-way calls, return; a push or a destructor that
\* has begun goes on.  The timer's thread is scheduled and the clock moves.
\* A wait on mCond need not end by itself.
Fairness ==
    /\ WF_vars(Consumer)
    /\ WF_vars(Deactivate) /\ WF_vars(NotifyAll)
    /\ \A w \in Producers : WF_vars(Notify(w))
    /\ WF_vars(TimerBegins \/ TimerScans \/ TimerExits \/ TimerWaits
               \/ TimerTimesOut)
    /\ \A p \in Cookies : WF_vars(TimerFires(p))
    /\ WF_vars(TimePasses)

Spec == Init /\ [][Next]_vars /\ Fairness

-----------------------------------------------------------------------------
(* Properties.                                                             *)

\* A stop of the service reaches the consumer wherever it is (before it
\* starts, in waitForItems before or after its test, in its sleep or in a
\* callback): the join in ~VehicleHalManager returns, and nothing the timer
\* pushes meanwhile can hold it up.
ConsumerStops == (service = "stopRequested") ~> (consumerPc = "done")

\* What is queued is taken out unless the service stops, although push
\* notifies after it released the lock, and so maybe before the consumer
\* waits or after it took the item: no wake-up is lost.
EventsTaken == (mQueue # "empty") ~> (mQueue = "empty" \/ service # "up")

\* An event that the thread has seen keeps firing: it comes due again and
\* again until the clock's bound, and the thread does not sleep through it.
SeenEventsFire ==
    \A c \in Cookies :
        (c \in Registered \ unseen /\ Due(mCookieToEventsMap[c], now))
            ~> (c \in cookies \/ c \notin Registered \/ c \in unseen)
=============================================================================
