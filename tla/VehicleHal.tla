----------------------------- MODULE VehicleHal -----------------------------
(***************************************************************************)
(* Subscriptions to vehicle properties, from the clients to the HAL:       *)
(* VehicleHalManager (vehicle/common/src/VehicleHalManager.cpp) over the   *)
(* subscription manager and the subscriptions of EmulatedVehicleHal        *)
(* (vehicle/impl/vhal_v2_0/EmulatedVehicleHal.cpp).                        *)
(*                                                                         *)
(* Clients' calls are served by a pool of binder threads.  subscribe       *)
(* changes the subscription manager under its lock and tells the HAL       *)
(* afterwards, without the lock; unsubscribe tells the HAL under the lock. *)
(* Of the HAL's recurrent timer only the interval it runs a property with  *)
(* matters here; VehicleEvents models the timer itself.                    *)
(***************************************************************************)
EXTENDS SubscriptionManager

CONSTANTS Threads,         \* binder threads that serve subscribe
          Continuous,      \* properties whose changeMode is CONTINUOUS
          MinSampleRate, MaxSampleRate,  \* their configs' limits
          UnitInterval,    \* interval of rate 1, in the timer's time units
          ZeroRateIntervals,  \* what a rate of 0 may be converted to
          Requests,        \* option lists that clients send
          MaxCalls         \* bound on the number of calls

ASSUME VehicleAssumption ==
    /\ Continuous \subseteq Props
    /\ UnitInterval \in Nat
    /\ 0 \in Rates /\ Rates \subseteq 0 .. UnitInterval
    /\ MinSampleRate \in [Continuous -> Nat]
    /\ MaxSampleRate \in [Continuous -> Nat]
    /\ \A p \in Continuous :
           /\ MinSampleRate[p] <= MaxSampleRate[p]
           /\ MinSampleRate[p] .. MaxSampleRate[p] \subseteq Rates
    /\ ZeroRateIntervals \subseteq Int \ {0}
    /\ ZeroRateIntervals # {}
    /\ Requests \subseteq
           [Props -> [sampleRate : Nat, flags : SUBSET SubscribeFlags]]
    /\ MaxCalls \in Nat

VARIABLES halPending,   \* thread -> options it has still to tell the HAL
          halInterval,  \* property -> interval of its timer, 0 for none
          overtaken,    \* history: properties whose HAL calls have raced
          calls         \* how many calls were served

halVars == <<halPending, halInterval, overtaken, calls>>
vars == <<subscriptionVars, halVars>>

\* EmulatedVehicleHal::hertzToNanoseconds, as the set of what it may return.
\* A rate is a whole number of rate units (tenths of a Hz give a unit interval
\* of ten seconds).  For 0, which also stands for a rate so low that the
\* quotient fits no int64_t, the cast is undefined.
hertzToNanoseconds(rate) ==
    IF rate = 0 THEN ZeroRateIntervals ELSE {UnitInterval \div rate}

\* The intervals of a set of rates.
IntervalsOf(rates) == UNION {hertzToNanoseconds(rate) : rate \in rates}

\* Every variable has its type: rates are legal for some property, and a
\* timer's interval is that of such a rate.
TypeOK ==
    /\ SubscriptionTypeOK
    /\ halPending \in [Threads -> [Props -> SubscribeOptions \cup {NoOpts}]]
    /\ halInterval \in [Props -> {0} \cup IntervalsOf(Rates)]
    /\ overtaken \in SUBSET Props
    /\ calls \in 0 .. MaxCalls

Init ==
    /\ SubscriptionInit
    /\ halPending = [t \in Threads |-> Unsubscribed]
    /\ halInterval = [p \in Props |-> 0]
    /\ overtaken = {}
    /\ calls = 0

-----------------------------------------------------------------------------
(* Calls of clients.                                                       *)

\* Mutant: a rate above the limit is passed on.
checkLeastRate(p, rate) ==
    IF p \notin Continuous THEN 0
    ELSE IF rate < MinSampleRate[p] THEN MinSampleRate[p]
    ELSE rate

\* checkSampleRate: an on-change property has no rate, another property's
\* rate is brought into its limits.
checkSampleRate(p, rate) ==
    IF p \notin Continuous THEN 0
    ELSE IF rate > MaxSampleRate[p] THEN MaxSampleRate[p]
    ELSE IF rate < MinSampleRate[p] THEN MinSampleRate[p]
    ELSE rate

\* The list that subscribe passes on.  A list that subscribe refuses (an
\* unknown or static property, no flags) changes nothing.
Verified(request) ==
    [p \in Props |->
        IF request[p].flags = {} THEN NoOpts
        ELSE [sampleRate |-> checkSampleRate(p, request[p].sampleRate),
              flags |-> request[p].flags]]

Idle(t) == halPending[t] = Unsubscribed
PendingFor(p) == {t \in Threads : halPending[t][p] # NoOpts}

\* VehicleHalManager::subscribe up to the return of addOrUpdateSubscription.
\* A property that another thread has still to tell the HAL about is raced.
Subscribe(t, c, request) ==
    LET options == Verified(request)
        updated == Updated(options)
    IN
    /\ Idle(t)
    /\ calls < MaxCalls
    /\ addOrUpdateSubscription(c, options)
    /\ halPending' = [halPending EXCEPT
                         ![t] = [p \in Props |->
                                    IF p \in updated
                                    THEN mHalEventSubscribeOptions'[p]
                                    ELSE NoOpts]]
    /\ overtaken' = overtaken \cup {p \in updated : PendingFor(p) # {}}
    /\ calls' = calls + 1
    /\ UNCHANGED halInterval

\* mHal->subscribe for one entry of updatedOptions: the timer runs with the
\* interval of the last call.
HalSubscribe(t, p) ==
    /\ halPending[t][p] # NoOpts
    /\ halPending' = [halPending EXCEPT ![t][p] = NoOpts]
    /\ \/ /\ p \in Continuous
          /\ \E i \in hertzToNanoseconds(halPending[t][p].sampleRate) :
                 halInterval' = [halInterval EXCEPT ![p] = i]
       \/ p \notin Continuous /\ UNCHANGED halInterval
    /\ UNCHANGED <<subscriptionVars, overtaken, calls>>

\* Mutant: the HAL is not told.
HalKeepsTimer(c, p) ==
    /\ UNCHANGED halInterval
    /\ overtaken' = IF ~LastOut(c, p) THEN overtaken
                    ELSE IF PendingFor(p) # {} THEN overtaken \cup {p}
                    ELSE overtaken \ {p}

\* onAllClientsUnsubscribed, in the lock region of an unsubscribe.
HalUnsubscribe(c, p) ==
    /\ halInterval' = IF LastOut(c, p) THEN [halInterval EXCEPT ![p] = 0]
                                       ELSE halInterval
    /\ overtaken' = IF ~LastOut(c, p) THEN overtaken
                    ELSE IF PendingFor(p) # {} THEN overtaken \cup {p}
                    ELSE overtaken \ {p}

\* VehicleHalManager::unsubscribe
Unsubscribe(c, p) ==
    /\ calls < MaxCalls
    /\ unsubscribe(c, p)
    /\ HalUnsubscribe(c, p)
    /\ calls' = calls + 1
    /\ UNCHANGED <<deathPc, deathTodo, halPending>>

-----------------------------------------------------------------------------
(* Deaths of clients.                                                      *)

Die(c) == ClientDies(c) /\ UNCHANGED halVars

DeathNotice(c) == onCallbackDead(c) /\ UNCHANGED halVars

DeathUnsubscribe(c, p) ==
    /\ UnsubscribeDead(c, p)
    /\ HalUnsubscribe(c, p)
    /\ UNCHANGED <<halPending, calls>>

-----------------------------------------------------------------------------
Next ==
    \/ \E t \in Threads, c \in Clients, r \in Requests : Subscribe(t, c, r)
    \/ \E t \in Threads, p \in Props : HalSubscribe(t, p)
    \/ \E c \in Clients, p \in Props : Unsubscribe(c, p)
    \/ \E c \in Clients : Die(c)
    \/ \E c \in Clients : DeathNotice(c)
    \/ \E c \in Clients, p \in Props : DeathUnsubscribe(c, p)

\* A binder thread that serves a call or a death notice goes on; nothing
\* makes a client call or die.
Fairness ==
    /\ \A t \in Threads, p \in Props : WF_vars(HalSubscribe(t, p))
    /\ \A c \in Clients : WF_vars(DeathNotice(c))
    /\ \A c \in Clients, p \in Props : WF_vars(DeathUnsubscribe(c, p))

Spec == Init /\ [][Next]_vars /\ Fairness

-----------------------------------------------------------------------------
(* Properties.                                                             *)

\* Unless two calls raced for a property, the HAL's timer runs for a
\* continuous property exactly while the subscription manager believes that
\* the HAL is subscribed, and with the interval of the merged rate, once the
\* subscribe that is still telling the HAL has finished.  (A race is a
\* change of the property's HAL subscription while another subscribe has
\* yet to make its call to the HAL.)
HalInSync ==
    \A p \in Continuous \ overtaken : PendingFor(p) = {} =>
        halInterval[p] \in
            IF mHalEventSubscribeOptions[p] = NoOpts THEN {0}
            ELSE hertzToNanoseconds(mHalEventSubscribeOptions[p].sampleRate)

\* Even after a race the HAL errs on one side only: a continuous property
\* that the subscription manager holds subscribed at the HAL has a timer,
\* with the interval of a rate within the property's limits.  So a client is
\* never left without events for good when the property's least rate is
\* positive; when it is 0 the interval may be the undefined one of rate 0.
NobodyStarves ==
    \A p \in Continuous :
        /\ mHalEventSubscribeOptions[p] # NoOpts
        /\ PendingFor(p) = {}
        => /\ halInterval[p] # 0
           /\ halInterval[p] \in
                  IntervalsOf(MinSampleRate[p] .. MaxSampleRate[p])

\* A dead client is given up: the death of a linked client leads to the end
\* of its subscriptions, whatever the other threads do, unless the dead
\* client's own late call was served after its properties were read.
DeadClientsReleased ==
    \A c \in Clients :
        (c \notin alive) ~> (\A p \in Props : c \notin mPropToClients[p])
                            \/ c \in late
=============================================================================
