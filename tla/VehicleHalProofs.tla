-------------------------- MODULE VehicleHalProofs --------------------------
(***************************************************************************)
(* Proofs about VehicleHal: its type invariant and its safety invariants,  *)
(* for every set of clients, properties, threads and requests.  Liveness   *)
(* (DeadClientsReleased) stays with TLC.                                   *)
(***************************************************************************)
EXTENDS VehicleHal, TLAPS

\* A dead client whose properties were read is listed by no property but
\* the ones it has still to give up, unless it subscribed late.
DeathInv ==
    \A c \in Clients \ late : deathPc[c] = "unsubscribing" =>
        \A p \in Props : c \in mPropToClients[p] => p \in deathTodo[c]

\* While nothing raced, what a thread has still to tell the HAL is what the
\* subscription manager holds.
PendingInv ==
    \A p \in Continuous \ overtaken : \A t \in Threads :
        halPending[t][p] # NoOpts =>
            halPending[t][p] = mHalEventSubscribeOptions[p]

\* The HAL is asked for a rate within the limits of a continuous property.
Legal(p) == MinSampleRate[p] .. MaxSampleRate[p]

RateInv ==
    \A p \in Continuous :
        /\ mHalEventSubscribeOptions[p] # NoOpts =>
               mHalEventSubscribeOptions[p].sampleRate \in Legal(p)
        /\ \A t \in Threads : halPending[t][p] # NoOpts =>
               halPending[t][p].sampleRate \in Legal(p)

-----------------------------------------------------------------------------
(* Operators.                                                              *)

\* A timer runs with every interval hertzToNanoseconds gives for a rate of
\* some property, 0 or not.
LEMMA IntervalType ==
    ASSUME NEW rate \in Rates, NEW i \in hertzToNanoseconds(rate)
    PROVE  i \in IntervalsOf(Rates) /\ i # 0
  <1>1. i \in IntervalsOf(Rates)
    BY DEF IntervalsOf
  <1>2. CASE rate = 0
    BY <1>1, <1>2, VehicleAssumption DEF hertzToNanoseconds
  <1>3. CASE rate # 0
    <2>1. rate \in Nat /\ 1 <= rate /\ rate <= UnitInterval /\ UnitInterval \in Nat
      BY <1>3, VehicleAssumption
    <2>2. UnitInterval \div rate >= 1
      BY <2>1
    <2>3. i = UnitInterval \div rate
      BY <1>3 DEF hertzToNanoseconds
    <2> QED BY <1>1, <2>2, <2>3
  <1> QED BY <1>2, <1>3

\* The options that subscribe passes on have legal rates.
LEMMA VerifiedType ==
    ASSUME NEW r \in Requests
    PROVE  /\ Verified(r) \in [Props -> SubscribeOptions \cup {NoOpts}]
           /\ \A p \in Props : Verified(r)[p] # NoOpts =>
                  Verified(r)[p].flags # {}
           /\ \A p \in Props : CAR \in Verified(r)[p].flags =>
                  Verified(r)[p] # NoOpts
           /\ \A p \in Continuous : Verified(r)[p] # NoOpts =>
                  Verified(r)[p].sampleRate \in Legal(p)
  <1>1. r \in [Props -> [sampleRate : Nat, flags : SUBSET SubscribeFlags]]
    BY VehicleAssumption
  <1>3. ASSUME NEW p \in Continuous
        PROVE  checkSampleRate(p, r[p].sampleRate) \in Legal(p)
    <2>1. /\ r[p].sampleRate \in Nat
          /\ MinSampleRate[p] \in Nat /\ MaxSampleRate[p] \in Nat
          /\ MinSampleRate[p] <= MaxSampleRate[p]
      BY <1>1, VehicleAssumption
    <2> QED BY <2>1 DEF checkSampleRate, Legal
  <1>2. ASSUME NEW p \in Props
        PROVE  checkSampleRate(p, r[p].sampleRate) \in Rates
    <2>1. CASE p \in Continuous
      BY <1>3, <2>1, VehicleAssumption DEF Legal
    <2>2. CASE p \notin Continuous
      BY <2>2, VehicleAssumption DEF checkSampleRate
    <2> QED BY <2>1, <2>2
  <1>4. ASSUME NEW p \in Props
        PROVE  /\ Verified(r)[p] \in SubscribeOptions \cup {NoOpts}
               /\ Verified(r)[p] # NoOpts => Verified(r)[p].flags # {}
               /\ CAR \in Verified(r)[p].flags => Verified(r)[p] # NoOpts
    BY <1>1, <1>2 DEF Verified, SubscribeOptions, NoOpts
  <1>5. ASSUME NEW p \in Continuous, Verified(r)[p] # NoOpts
        PROVE  Verified(r)[p].sampleRate \in Legal(p)
    BY <1>1, <1>3, <1>5, VehicleAssumption DEF Verified
  <1> QED BY <1>4, <1>5 DEF Verified

\* Adding options to a map entry: the type, and what the entry covers.
LEMMA AddOrUpdateFacts ==
    ASSUME NEW old \in SubscribeOptions \cup {NoOpts},
           NEW new \in SubscribeOptions
    PROVE  /\ AddOrUpdate(old, new) \in SubscribeOptions
           /\ new.flags \subseteq AddOrUpdate(old, new).flags
           /\ old.flags \subseteq AddOrUpdate(old, new).flags
           /\ AddOrUpdate(old, new).sampleRate >= new.sampleRate
           /\ old # NoOpts =>
                  AddOrUpdate(old, new).sampleRate >= old.sampleRate
           /\ AddOrUpdate(old, new).sampleRate \in
                  {new.sampleRate} \cup
                      (IF old = NoOpts THEN {} ELSE {old.sampleRate})
  <1>1. CASE old = NoOpts
    <2>1. AddOrUpdate(old, new) = new
      BY <1>1 DEF AddOrUpdate
    <2>2. old.flags = {} /\ new.sampleRate \in Nat
      BY <1>1, SubscriptionAssumption DEF NoOpts, SubscribeOptions
    <2> QED BY <1>1, <2>1, <2>2
  <1>2. CASE old # NoOpts
    <2>1. AddOrUpdate(old, new) = mergeSubscribeOptions(old, new)
      BY <1>2 DEF AddOrUpdate
    <2>2. /\ old \in SubscribeOptions
          /\ old.sampleRate \in Rates /\ new.sampleRate \in Rates
          /\ old.sampleRate \in Nat /\ new.sampleRate \in Nat
      BY <1>2, SubscriptionAssumption DEF SubscribeOptions
    <2>3. /\ mergeSubscribeOptions(old, new).flags = old.flags \cup new.flags
          /\ mergeSubscribeOptions(old, new).sampleRate =
                 IF new.sampleRate > old.sampleRate THEN new.sampleRate
                                                    ELSE old.sampleRate
          /\ mergeSubscribeOptions(old, new) \in SubscribeOptions
      BY <2>2 DEF mergeSubscribeOptions, SubscribeOptions
    <2> QED BY <1>2, <2>1, <2>2, <2>3
  <1> QED BY <1>1, <1>2

-----------------------------------------------------------------------------
(* Type correctness.                                                       *)

LEMMA TypeInit == Init => TypeOK
  BY VehicleAssumption
     DEF Init, SubscriptionInit, TypeOK, SubscriptionTypeOK, Unsubscribed

LEMMA SubscribeType ==
    ASSUME TypeOK, NEW t \in Threads, NEW c \in Clients, NEW r \in Requests,
           Subscribe(t, c, r)
    PROVE  TypeOK'
  <1> DEFINE o == Verified(r)
             Opts == SubscribeOptions \cup {NoOpts}
  <1>1. o \in [Props -> Opts]
    BY VerifiedType
  <1>2. \A p \in Props : CAR \in o[p].flags => o[p] # NoOpts
    BY VerifiedType
  <1> HIDE DEF o
  <1> USE DEF TypeOK, SubscriptionTypeOK
  <1>3. addOrUpdateSubscription(c, o)
    BY DEF Subscribe, o
  <1>4. \A p \in Props, x \in Opts :
            o[p] # NoOpts => AddOrUpdate(x, o[p]) \in Opts
    BY <1>1, AddOrUpdateFacts
  <1>5. mSubscriptions' \in [Clients -> [Props -> Opts]]
    <2>1. \A p \in Props : mSubscriptions[c][p] \in Opts
      OBVIOUS
    <2>2. [p \in Props |-> IF o[p] = NoOpts THEN mSubscriptions[c][p]
                           ELSE AddOrUpdate(mSubscriptions[c][p], o[p])]
              \in [Props -> Opts]
      BY <2>1, <1>4
    <2> QED BY <2>2, <1>3 DEF addOrUpdateSubscription
  <1>6. mHalEventSubscribeOptions' \in [Props -> Opts]
    BY <1>2, <1>3, <1>4 DEF addOrUpdateSubscription
  <1>7. /\ mClients' \in SUBSET Clients
        /\ mPropToClients' \in [Props -> SUBSET Clients]
        /\ late' \in SUBSET Clients
        /\ alive' = alive /\ deathPc' = deathPc /\ deathTodo' = deathTodo
    BY <1>3 DEF addOrUpdateSubscription
  <1>8. asked' \in [Clients -> [Props -> Rates \cup {-1}]]
    <2>1. \A p \in Props : CAR \in o[p].flags => o[p].sampleRate \in Rates
      BY <1>1, <1>2 DEF SubscribeOptions
    <2>2. [p \in Props |-> IF /\ CAR \in o[p].flags
                              /\ o[p].sampleRate > asked[c][p]
                           THEN o[p].sampleRate ELSE asked[c][p]]
              \in [Props -> Rates \cup {-1}]
      BY <2>1
    <2> QED BY <2>2, <1>3 DEF addOrUpdateSubscription
  <1>9. halPending' \in [Threads -> [Props -> Opts]]
    BY <1>6 DEF Subscribe
  <1>10. /\ overtaken' \in SUBSET Props
         /\ calls' \in 0 .. MaxCalls
         /\ halInterval' = halInterval
    BY VehicleAssumption DEF Subscribe, Updated
  <1> QED BY <1>5, <1>6, <1>7, <1>8, <1>9, <1>10

\* What the calls of the subscription manager's unsubscribe do to the types.
LEMMA UnsubscribeType ==
    ASSUME TypeOK, NEW c \in Clients, NEW p \in Props,
           unsubscribe(c, p), HalUnsubscribe(c, p),
           deathPc' \in [Clients -> {"none", "noticed", "unsubscribing",
                                     "handled"}],
           deathTodo' \in [Clients -> SUBSET Props],
           halPending' = halPending,
           calls' \in 0 .. MaxCalls
    PROVE  TypeOK'
  <1> USE DEF TypeOK, SubscriptionTypeOK
  <1>1. /\ mPropToClients' \in [Props -> SUBSET Clients]
        /\ mClients' \in SUBSET Clients
        /\ alive' = alive /\ late' = late
    BY DEF unsubscribe, Remaining
  <1>2. /\ mSubscriptions' \in
               [Clients -> [Props -> SubscribeOptions \cup {NoOpts}]]
        /\ mHalEventSubscribeOptions' \in
               [Props -> SubscribeOptions \cup {NoOpts}]
    BY DEF unsubscribe, Unsubscribed
  <1>3. asked' \in [Clients -> [Props -> Rates \cup {-1}]]
    BY DEF unsubscribe
  <1>4. /\ halInterval' \in [Props -> {0} \cup IntervalsOf(Rates)]
        /\ overtaken' \in SUBSET Props
    BY DEF HalUnsubscribe
  <1> QED BY <1>1, <1>2, <1>3, <1>4

LEMMA TypeStep == TypeOK /\ [Next]_vars => TypeOK'
  <1> SUFFICES ASSUME TypeOK, [Next]_vars PROVE TypeOK'
    OBVIOUS
  <1> USE DEF TypeOK, SubscriptionTypeOK
  <1>1. ASSUME NEW t \in Threads, NEW c \in Clients, NEW r \in Requests,
               Subscribe(t, c, r)
        PROVE  TypeOK'
    BY <1>1, SubscribeType
  <1>2. ASSUME NEW t \in Threads, NEW p \in Props, HalSubscribe(t, p)
        PROVE  TypeOK'
    <2>1. halPending[t][p].sampleRate \in Rates
      BY <1>2 DEF HalSubscribe, SubscribeOptions
    <2>2. halInterval' \in [Props -> {0} \cup IntervalsOf(Rates)]
      <3>1. CASE p \in Continuous
        <4>1. PICK i \in hertzToNanoseconds(halPending[t][p].sampleRate) :
                  halInterval' = [halInterval EXCEPT ![p] = i]
          BY <1>2, <3>1 DEF HalSubscribe
        <4>2. i \in IntervalsOf(Rates)
          BY <2>1, IntervalType
        <4> QED BY <4>1, <4>2
      <3>2. CASE p \notin Continuous
        BY <1>2, <3>2 DEF HalSubscribe
      <3> QED BY <3>1, <3>2
    <2>3. halPending' \in [Threads -> [Props -> SubscribeOptions \cup {NoOpts}]]
      BY <1>2 DEF HalSubscribe
    <2> QED BY <1>2, <2>2, <2>3 DEF HalSubscribe, subscriptionVars
  <1>3. ASSUME NEW c \in Clients, NEW p \in Props, Unsubscribe(c, p)
        PROVE  TypeOK'
    <2>1. calls' \in 0 .. MaxCalls
      BY <1>3, VehicleAssumption DEF Unsubscribe
    <2> QED BY <1>3, <2>1, UnsubscribeType DEF Unsubscribe
  <1>4. ASSUME NEW c \in Clients, Die(c)
        PROVE  TypeOK'
    BY <1>4 DEF Die, ClientDies, halVars
  <1>5. ASSUME NEW c \in Clients, DeathNotice(c)
        PROVE  TypeOK'
    BY <1>5 DEF DeathNotice, onCallbackDead, halVars
  <1>6. ASSUME NEW c \in Clients, NEW p \in Props, DeathUnsubscribe(c, p)
        PROVE  TypeOK'
    <2>1. /\ deathTodo' \in [Clients -> SUBSET Props]
          /\ deathPc' \in [Clients -> {"none", "noticed", "unsubscribing",
                                       "handled"}]
          /\ calls' \in 0 .. MaxCalls /\ halPending' = halPending
      BY <1>6 DEF DeathUnsubscribe, UnsubscribeDead
    <2> QED BY <1>6, <2>1, UnsubscribeType
            DEF DeathUnsubscribe, UnsubscribeDead
  <1>7. ASSUME UNCHANGED vars
        PROVE  TypeOK'
    BY <1>7 DEF vars, subscriptionVars, halVars
  <1> QED BY <1>1, <1>2, <1>3, <1>4, <1>5, <1>6, <1>7 DEF Next

-----------------------------------------------------------------------------
(* Clients and deaths.                                                     *)

\* What Subscribe does to the client it serves, in the terms of the
\* invariants below.
LEMMA SubscribeFacts ==
    ASSUME TypeOK, NEW t \in Threads, NEW c \in Clients, NEW r \in Requests,
           Subscribe(t, c, r)
    PROVE  /\ c \in mClients' /\ mClients \subseteq mClients'
           /\ \A d \in Clients, p \in Props : d # c =>
                  /\ mSubscriptions'[d][p] = mSubscriptions[d][p]
                  /\ asked'[d][p] = asked[d][p]
                  /\ d \in mPropToClients'[p] <=> d \in mPropToClients[p]
           /\ \A p \in Props : mPropToClients[p] \subseteq mPropToClients'[p]
           /\ \A p \in Props : c \in mPropToClients'[p] =>
                  \/ Verified(r)[p] # NoOpts
                  \/ c \in mPropToClients[p]
           /\ \A p \in Props : Verified(r)[p] # NoOpts =>
                  /\ c \in mPropToClients'[p]
                  /\ mSubscriptions'[c][p] =
                         AddOrUpdate(mSubscriptions[c][p], Verified(r)[p])
                  /\ Verified(r)[p] \in SubscribeOptions
                  /\ Verified(r)[p].flags # {}
           /\ \A p \in Props : Verified(r)[p] = NoOpts =>
                  mSubscriptions'[c][p] = mSubscriptions[c][p]
           /\ late \subseteq late'
           /\ deathPc' = deathPc /\ deathTodo' = deathTodo
           /\ deathPc[c] \in {"unsubscribing", "handled"} => c \in late'
           /\ \A d \in Clients : d # c => (d \in late' <=> d \in late)
  <1>1. addOrUpdateSubscription(c, Verified(r))
    BY DEF Subscribe
  <1>2. /\ \A p \in Props : Verified(r)[p] \in SubscribeOptions \cup {NoOpts}
        /\ \A p \in Props : Verified(r)[p] # NoOpts => Verified(r)[p].flags # {}
    BY VerifiedType
  <1> USE DEF TypeOK, SubscriptionTypeOK
  <1>3. /\ c \in mClients' /\ mClients \subseteq mClients'
        /\ late \subseteq late'
        /\ deathPc' = deathPc /\ deathTodo' = deathTodo
        /\ deathPc[c] \in {"unsubscribing", "handled"} => c \in late'
        /\ \A d \in Clients : d # c => (d \in late' <=> d \in late)
    BY <1>1 DEF addOrUpdateSubscription
  <1>4. \A d \in Clients, p \in Props : d # c =>
            /\ mSubscriptions'[d][p] = mSubscriptions[d][p]
            /\ asked'[d][p] = asked[d][p]
    BY <1>1 DEF addOrUpdateSubscription
  <1>5. \A p \in Props : mPropToClients'[p] =
            IF Verified(r)[p] = NoOpts THEN mPropToClients[p]
            ELSE mPropToClients[p] \cup {c}
    BY <1>1 DEF addOrUpdateSubscription
  <1>6. \A p \in Props : mSubscriptions'[c][p] =
            IF Verified(r)[p] = NoOpts THEN mSubscriptions[c][p]
            ELSE AddOrUpdate(mSubscriptions[c][p], Verified(r)[p])
    BY <1>1 DEF addOrUpdateSubscription
  <1>7. /\ \A d \in Clients, p \in Props : d # c =>
               (d \in mPropToClients'[p] <=> d \in mPropToClients[p])
        /\ \A p \in Props : mPropToClients[p] \subseteq mPropToClients'[p]
        /\ \A p \in Props : c \in mPropToClients'[p] =>
               Verified(r)[p] # NoOpts \/ c \in mPropToClients[p]
        /\ \A p \in Props : Verified(r)[p] # NoOpts => c \in mPropToClients'[p]
    BY <1>5
  <1>8. \A p \in Props : Verified(r)[p] # NoOpts =>
            /\ c \in mPropToClients'[p]
            /\ mSubscriptions'[c][p] =
                   AddOrUpdate(mSubscriptions[c][p], Verified(r)[p])
            /\ Verified(r)[p] \in SubscribeOptions
            /\ Verified(r)[p].flags # {}
    BY <1>2, <1>6, <1>7
  <1>9. \A p \in Props : Verified(r)[p] = NoOpts =>
            mSubscriptions'[c][p] = mSubscriptions[c][p]
    BY <1>6
  <1>10. \A d \in Clients, p \in Props : d # c =>
             /\ mSubscriptions'[d][p] = mSubscriptions[d][p]
             /\ asked'[d][p] = asked[d][p]
             /\ d \in mPropToClients'[p] <=> d \in mPropToClients[p]
    BY <1>4, <1>7
  <1> QED BY <1>3, <1>7, <1>8, <1>9, <1>10

LEMMA KnownStep ==
    TypeOK /\ ListedClientsKnown /\ [Next]_vars => ListedClientsKnown'
  <1> SUFFICES ASSUME TypeOK, ListedClientsKnown, [Next]_vars
               PROVE  ListedClientsKnown'
    OBVIOUS
  <1> USE DEF TypeOK, SubscriptionTypeOK
  <1>1. ASSUME NEW t \in Threads, NEW c \in Clients, NEW r \in Requests,
               Subscribe(t, c, r)
        PROVE  ListedClientsKnown'
    <2> SUFFICES ASSUME NEW p \in Props, NEW d \in mPropToClients'[p]
                 PROVE  d \in mClients' /\ mSubscriptions'[d][p] # NoOpts
      BY DEF ListedClientsKnown
    <2>1. d \in Clients
      BY <1>1, SubscribeType
    <2>2. CASE d # c
      BY <1>1, <2>1, <2>2, SubscribeFacts DEF ListedClientsKnown
    <2>3. CASE d = c /\ Verified(r)[p] # NoOpts
      <3> HIDE DEF TypeOK, SubscriptionTypeOK
      <3>1. /\ mSubscriptions'[c][p] =
                   AddOrUpdate(mSubscriptions[c][p], Verified(r)[p])
            /\ Verified(r)[p] \in SubscribeOptions
            /\ Verified(r)[p].flags # {}
            /\ c \in mClients'
        BY <1>1, <2>3, SubscribeFacts
      <3>2. mSubscriptions[c][p] \in SubscribeOptions \cup {NoOpts}
        BY DEF TypeOK, SubscriptionTypeOK
      <3>3. Verified(r)[p].flags \subseteq
                AddOrUpdate(mSubscriptions[c][p], Verified(r)[p]).flags
        BY <3>1, <3>2, AddOrUpdateFacts
      <3> QED BY <3>1, <3>3, <2>3 DEF NoOpts
    <2>4. CASE d = c /\ Verified(r)[p] = NoOpts
      BY <1>1, <2>4, SubscribeFacts DEF ListedClientsKnown
    <2> QED BY <2>2, <2>3, <2>4
  <1>2. ASSUME NEW t \in Threads, NEW p \in Props, HalSubscribe(t, p)
        PROVE  ListedClientsKnown'
    BY <1>2 DEF HalSubscribe, ListedClientsKnown, subscriptionVars
  <1>3. ASSUME NEW c \in Clients, NEW p \in Props, unsubscribe(c, p)
        PROVE  ListedClientsKnown'
    BY <1>3 DEF unsubscribe, Remaining, ListedClientsKnown
  <1>4. ASSUME NEW c \in Clients, Die(c) \/ DeathNotice(c)
        PROVE  ListedClientsKnown'
    BY <1>4 DEF Die, ClientDies, DeathNotice, onCallbackDead,
                ListedClientsKnown
  <1>5. ASSUME UNCHANGED vars
        PROVE  ListedClientsKnown'
    BY <1>5 DEF vars, subscriptionVars, ListedClientsKnown
  <1> QED BY <1>1, <1>2, <1>3, <1>4, <1>5
          DEF Next, Unsubscribe, DeathUnsubscribe, UnsubscribeDead

LEMMA DeathStep ==
    /\ TypeOK /\ ListedClientsKnown /\ DeadClientsGone /\ DeathInv
    /\ [Next]_vars
    => DeadClientsGone' /\ DeathInv'
  <1> SUFFICES ASSUME TypeOK, ListedClientsKnown, DeadClientsGone, DeathInv,
                      [Next]_vars
               PROVE  DeadClientsGone' /\ DeathInv'
    OBVIOUS
  <1> USE DEF TypeOK, SubscriptionTypeOK, DeadClientsGone, DeathInv
  <1>1. ASSUME NEW t \in Threads, NEW c \in Clients, NEW r \in Requests,
               Subscribe(t, c, r)
        PROVE  DeadClientsGone' /\ DeathInv'
    BY <1>1, SubscribeFacts
  <1>2. ASSUME NEW t \in Threads, NEW p \in Props, HalSubscribe(t, p)
        PROVE  DeadClientsGone' /\ DeathInv'
    BY <1>2 DEF HalSubscribe, subscriptionVars
  <1>3. ASSUME NEW c \in Clients, NEW p \in Props, Unsubscribe(c, p)
        PROVE  DeadClientsGone' /\ DeathInv'
    BY <1>3 DEF Unsubscribe, unsubscribe, Remaining
  <1>4. ASSUME NEW c \in Clients, Die(c)
        PROVE  DeadClientsGone' /\ DeathInv'
    BY <1>4 DEF Die, ClientDies, ListedClientsKnown
  <1>5. ASSUME NEW c \in Clients, DeathNotice(c)
        PROVE  DeadClientsGone' /\ DeathInv'
    <2>1. \A p \in Props : c \in mPropToClients[p] => p \in deathTodo'[c]
      BY <1>5 DEF DeathNotice, onCallbackDead, ListedClientsKnown
    <2> QED BY <1>5, <2>1 DEF DeathNotice, onCallbackDead
  <1>6. ASSUME NEW c \in Clients, NEW p \in Props, DeathUnsubscribe(c, p)
        PROVE  DeadClientsGone' /\ DeathInv'
    <2>1. c \notin mPropToClients'[p]
      BY <1>6 DEF DeathUnsubscribe, UnsubscribeDead, unsubscribe, Remaining,
                  ListedClientsKnown
    <2>2. \A q \in Props : mPropToClients'[q] \subseteq mPropToClients[q]
      BY <1>6 DEF DeathUnsubscribe, UnsubscribeDead, unsubscribe, Remaining
    <2> QED BY <1>6, <2>1, <2>2
            DEF DeathUnsubscribe, UnsubscribeDead, unsubscribe
  <1>7. ASSUME UNCHANGED vars
        PROVE  DeadClientsGone' /\ DeathInv'
    BY <1>7 DEF vars, subscriptionVars
  <1> QED BY <1>1, <1>2, <1>3, <1>4, <1>5, <1>6, <1>7 DEF Next

-----------------------------------------------------------------------------
(* What clients ask for and what the HAL is asked for.                     *)

\* What Subscribe does to the HAL's options and to the rates asked for.
LEMMA SubscribeHalFacts ==
    ASSUME TypeOK, NEW t \in Threads, NEW c \in Clients, NEW r \in Requests,
           Subscribe(t, c, r), NEW p \in Props
    PROVE  /\ CAR \in Verified(r)[p].flags =>
                  /\ Verified(r)[p] \in SubscribeOptions
                  /\ Verified(r)[p] # NoOpts
                  /\ mHalEventSubscribeOptions'[p] =
                         AddOrUpdate(mHalEventSubscribeOptions[p],
                                     Verified(r)[p])
           /\ CAR \notin Verified(r)[p].flags =>
                  /\ mHalEventSubscribeOptions'[p] =
                         mHalEventSubscribeOptions[p]
                  /\ asked'[c][p] = asked[c][p]
           /\ asked'[c][p] # asked[c][p] =>
                  asked'[c][p] = Verified(r)[p].sampleRate
  <1>1. addOrUpdateSubscription(c, Verified(r))
    BY DEF Subscribe
  <1>2. /\ Verified(r)[p] \in SubscribeOptions \cup {NoOpts}
        /\ CAR \in Verified(r)[p].flags => Verified(r)[p] # NoOpts
    BY VerifiedType
  <1> QED BY <1>1, <1>2
          DEF addOrUpdateSubscription, TypeOK, SubscriptionTypeOK

LEMMA CoveredStep ==
    TypeOK /\ SubscriptionsCovered /\ [Next]_vars => SubscriptionsCovered'
  <1> SUFFICES ASSUME TypeOK, SubscriptionsCovered, [Next]_vars
               PROVE  SubscriptionsCovered'
    OBVIOUS
  <1>0. /\ asked \in [Clients -> [Props -> Rates \cup {-1}]]
        /\ mPropToClients \in [Props -> SUBSET Clients]
        /\ mSubscriptions \in
               [Clients -> [Props -> SubscribeOptions \cup {NoOpts}]]
        /\ mHalEventSubscribeOptions \in
               [Props -> SubscribeOptions \cup {NoOpts}]
    BY DEF TypeOK, SubscriptionTypeOK
  <1>1. ASSUME NEW t \in Threads, NEW c \in Clients, NEW r \in Requests,
               Subscribe(t, c, r)
        PROVE  SubscriptionsCovered'
    <2> SUFFICES ASSUME NEW d \in Clients, NEW p \in Props, asked'[d][p] >= 0
                 PROVE  /\ d \in mPropToClients'[p]
                        /\ CAR \in mSubscriptions'[d][p].flags
                        /\ mHalEventSubscribeOptions'[p] # NoOpts
                        /\ mHalEventSubscribeOptions'[p].sampleRate
                               >= asked'[d][p]
      BY DEF SubscriptionsCovered, SubscribedClients
    <2> DEFINE o == Verified(r)[p]
               hal == mHalEventSubscribeOptions[p]
               own == mSubscriptions[d][p]
    <2>1. /\ CAR \in o.flags =>
                 /\ o \in SubscribeOptions /\ o # NoOpts
                 /\ mHalEventSubscribeOptions'[p] = AddOrUpdate(hal, o)
          /\ CAR \notin o.flags =>
                 /\ mHalEventSubscribeOptions'[p] = hal
                 /\ asked'[c][p] = asked[c][p]
          /\ asked'[c][p] # asked[c][p] => asked'[c][p] = o.sampleRate
      BY <1>1, SubscribeHalFacts
    <2>2. /\ d # c => /\ mSubscriptions'[d][p] = own
                      /\ asked'[d][p] = asked[d][p]
          /\ mPropToClients[p] \subseteq mPropToClients'[p]
          /\ o # NoOpts => /\ c \in mPropToClients'[p]
                           /\ mSubscriptions'[c][p] =
                                  AddOrUpdate(mSubscriptions[c][p], o)
                           /\ o \in SubscribeOptions
          /\ o = NoOpts => mSubscriptions'[c][p] = mSubscriptions[c][p]
      BY <1>1, SubscribeFacts
    <2>3. /\ hal \in SubscribeOptions \cup {NoOpts}
          /\ own \in SubscribeOptions \cup {NoOpts}
          /\ asked[d][p] \in Rates \cup {-1}
      BY <1>0
    <2>4. asked[d][p] >= 0 => /\ d \in mPropToClients[p]
                              /\ CAR \in own.flags
                              /\ hal # NoOpts
                              /\ hal.sampleRate >= asked[d][p]
      BY DEF SubscriptionsCovered, SubscribedClients
    <2> HIDE DEF o, hal, own
    <2>5. o \in SubscribeOptions =>
              /\ AddOrUpdate(hal, o) \in SubscribeOptions
              /\ o.flags \subseteq AddOrUpdate(hal, o).flags
              /\ AddOrUpdate(hal, o).sampleRate >= o.sampleRate
              /\ hal # NoOpts => AddOrUpdate(hal, o).sampleRate >= hal.sampleRate
              /\ o.flags \subseteq AddOrUpdate(own, o).flags
              /\ own.flags \subseteq AddOrUpdate(own, o).flags
      BY <2>3, AddOrUpdateFacts
    <2>6. hal # NoOpts => hal.sampleRate \in Nat
      BY <2>3, SubscriptionAssumption DEF SubscribeOptions
    <2>7. o \in SubscribeOptions =>
              o.sampleRate \in Nat /\ AddOrUpdate(hal, o).sampleRate \in Nat
      BY <2>5, SubscriptionAssumption DEF SubscribeOptions
    <2>8. asked[d][p] \in Int
      <3>1. Rates \cup {-1} \subseteq Int
        BY SubscriptionAssumption
      <3> QED BY <2>3, <3>1
    <2>9. CASE asked'[d][p] = asked[d][p]
      <3>1. CASE CAR \in o.flags
        BY <2>1, <2>2, <2>4, <2>5, <2>6, <2>7, <2>8, <2>9, <3>1
           DEF NoOpts, own
      <3>2. CASE CAR \notin o.flags
        BY <2>1, <2>2, <2>4, <2>5, <2>9, <3>2 DEF own
      <3> QED BY <3>1, <3>2
    <2>10. CASE asked'[d][p] # asked[d][p]
      <3>1. d = c /\ CAR \in o.flags /\ asked'[d][p] = o.sampleRate
        BY <2>1, <2>2, <2>10
      <3> QED BY <3>1, <2>1, <2>2, <2>5, <2>7 DEF NoOpts, own
    <2> QED BY <2>9, <2>10
  <1>2. ASSUME NEW t \in Threads, NEW p \in Props, HalSubscribe(t, p)
        PROVE  SubscriptionsCovered'
    BY <1>2 DEF HalSubscribe, SubscriptionsCovered, SubscribedClients,
                subscriptionVars
  <1>3. ASSUME NEW c \in Clients, NEW p \in Props, unsubscribe(c, p)
        PROVE  SubscriptionsCovered'
    <2> SUFFICES ASSUME NEW d \in Clients, NEW q \in Props, asked'[d][q] >= 0
                 PROVE  /\ d \in mPropToClients'[q]
                        /\ CAR \in mSubscriptions'[d][q].flags
                        /\ mHalEventSubscribeOptions'[q] # NoOpts
                        /\ mHalEventSubscribeOptions'[q].sampleRate
                               >= asked'[d][q]
      BY DEF SubscriptionsCovered, SubscribedClients
    <2>1. d # c \/ q # p
      BY <1>0, <1>3 DEF unsubscribe
    <2>2. asked'[d][q] = asked[d][q]
      BY <1>0, <1>3, <2>1 DEF unsubscribe
    <2>3. /\ d \in mPropToClients[q]
          /\ CAR \in mSubscriptions[d][q].flags
          /\ mHalEventSubscribeOptions[q] # NoOpts
          /\ mHalEventSubscribeOptions[q].sampleRate >= asked[d][q]
      BY <2>2 DEF SubscriptionsCovered, SubscribedClients
    <2>4. d \in mPropToClients'[q]
      BY <1>0, <1>3, <2>1, <2>3 DEF unsubscribe, Remaining
    <2>5. mSubscriptions'[d][q] = mSubscriptions[d][q]
      BY <1>0, <1>3, <2>1, <2>3 DEF unsubscribe
    <2>6. mHalEventSubscribeOptions'[q] = mHalEventSubscribeOptions[q]
      BY <1>0, <1>3, <2>1, <2>3 DEF unsubscribe, LastOut, Remaining
    <2> QED BY <2>2, <2>3, <2>4, <2>5, <2>6
  <1>4. ASSUME NEW c \in Clients, Die(c) \/ DeathNotice(c)
        PROVE  SubscriptionsCovered'
    BY <1>4 DEF Die, ClientDies, DeathNotice, onCallbackDead,
                SubscriptionsCovered, SubscribedClients
  <1>5. ASSUME UNCHANGED vars
        PROVE  SubscriptionsCovered'
    BY <1>5 DEF vars, subscriptionVars, SubscriptionsCovered,
                SubscribedClients
  <1> QED BY <1>1, <1>2, <1>3, <1>4, <1>5
          DEF Next, Unsubscribe, DeathUnsubscribe, UnsubscribeDead

-----------------------------------------------------------------------------
(* The HAL's timers.                                                       *)

HalInv == RateInv /\ PendingInv /\ HalInSync /\ NobodyStarves

\* What Subscribe leaves to be told to the HAL.
LEMMA SubscribePending ==
    ASSUME TypeOK, RateInv, NEW t \in Threads, NEW c \in Clients,
           NEW r \in Requests, Subscribe(t, c, r), NEW p \in Continuous
    PROVE  /\ p \in Props
           /\ p \in Updated(Verified(r)) =>
                  /\ halPending'[t][p] = mHalEventSubscribeOptions'[p]
                  /\ mHalEventSubscribeOptions'[p] # NoOpts
                  /\ mHalEventSubscribeOptions'[p].sampleRate \in Legal(p)
                  /\ PendingFor(p) # {} => p \in overtaken'
           /\ p \notin Updated(Verified(r)) =>
                  /\ halPending'[t][p] = NoOpts
                  /\ mHalEventSubscribeOptions'[p] =
                         mHalEventSubscribeOptions[p]
           /\ \A u \in Threads : u # t => halPending'[u] = halPending[u]
           /\ halPending[t][p] = NoOpts
           /\ overtaken \subseteq overtaken'
           /\ halInterval' = halInterval
  <1> DEFINE o == Verified(r)[p]
             hal == mHalEventSubscribeOptions[p]
  <1>1. p \in Props
    BY VehicleAssumption
  <1>2. /\ halPending \in [Threads -> [Props -> SubscribeOptions \cup {NoOpts}]]
        /\ hal \in SubscribeOptions \cup {NoOpts}
    BY <1>1 DEF TypeOK, SubscriptionTypeOK
  <1>3. /\ CAR \in o.flags =>
               /\ o \in SubscribeOptions /\ o # NoOpts
               /\ mHalEventSubscribeOptions'[p] = AddOrUpdate(hal, o)
        /\ CAR \notin o.flags => mHalEventSubscribeOptions'[p] = hal
    BY <1>1, SubscribeHalFacts
  <1>4. o # NoOpts => o.sampleRate \in Legal(p)
    BY VerifiedType
  <1>5. CAR \in o.flags => /\ AddOrUpdate(hal, o) \in SubscribeOptions
                           /\ o.flags \subseteq AddOrUpdate(hal, o).flags
                           /\ AddOrUpdate(hal, o).sampleRate \in
                                  {o.sampleRate} \cup
                                  (IF hal = NoOpts THEN {} ELSE {hal.sampleRate})
    BY <1>2, <1>3, AddOrUpdateFacts
  <1>6. halPending'[t][p] = IF p \in Updated(Verified(r))
                            THEN mHalEventSubscribeOptions'[p] ELSE NoOpts
    BY <1>1, <1>2 DEF Subscribe
  <1>7. ASSUME p \in Updated(Verified(r))
        PROVE  /\ mHalEventSubscribeOptions'[p] # NoOpts
               /\ mHalEventSubscribeOptions'[p].sampleRate \in Legal(p)
               /\ PendingFor(p) # {} => p \in overtaken'
    <2>1. CAR \in o.flags
      BY <1>7 DEF Updated
    <2>2. hal # NoOpts => hal.sampleRate \in Legal(p)
      BY DEF RateInv
    <2>5. AddOrUpdate(hal, o).sampleRate \in Legal(p)
      BY <2>1, <2>2, <1>3, <1>4, <1>5
    <2>3. AddOrUpdate(hal, o) # NoOpts
      BY <2>1, <1>5 DEF NoOpts
    <2>4. PendingFor(p) # {} => p \in overtaken'
      BY <1>1, <1>7 DEF Subscribe
    <2> QED BY <2>1, <2>3, <2>4, <2>5, <1>3
  <1>8. ASSUME p \notin Updated(Verified(r))
        PROVE  mHalEventSubscribeOptions'[p] = hal
    BY <1>1, <1>3, <1>8 DEF Updated
  <1>9. /\ \A u \in Threads : u # t => halPending'[u] = halPending[u]
        /\ overtaken \subseteq overtaken'
        /\ halInterval' = halInterval
    BY <1>2 DEF Subscribe
  <1>10. halPending[t][p] = NoOpts
    BY <1>1 DEF Subscribe, Idle, Unsubscribed
  <1> QED BY <1>1, <1>6, <1>7, <1>8, <1>9, <1>10

\* An unsubscribe and the HAL.
LEMMA UnsubscribeHal ==
    ASSUME TypeOK, HalInv, NEW c \in Clients, NEW p \in Props,
           unsubscribe(c, p), HalUnsubscribe(c, p), halPending' = halPending
    PROVE  HalInv'
  <1>1. /\ halInterval \in [Props -> {0} \cup IntervalsOf(Rates)]
        /\ mHalEventSubscribeOptions \in
               [Props -> SubscribeOptions \cup {NoOpts}]
        /\ Continuous \subseteq Props
    BY VehicleAssumption DEF TypeOK, SubscriptionTypeOK
  <1>2. \A q \in Props : PendingFor(q)' = PendingFor(q)
    BY DEF PendingFor
  <1>3. \A q \in Props : q # p \/ ~LastOut(c, p) =>
            /\ mHalEventSubscribeOptions'[q] = mHalEventSubscribeOptions[q]
            /\ halInterval'[q] = halInterval[q]
            /\ q \in overtaken' <=> q \in overtaken
    <2>1. \A q \in Props : q # p \/ ~LastOut(c, p) =>
              mHalEventSubscribeOptions'[q] = mHalEventSubscribeOptions[q]
      BY <1>1 DEF unsubscribe
    <2>2. \A q \in Props : q # p \/ ~LastOut(c, p) =>
              halInterval'[q] = halInterval[q]
      BY <1>1 DEF HalUnsubscribe
    <2>3. \/ ~LastOut(c, p) /\ overtaken' = overtaken
          \/ LastOut(c, p) /\ overtaken' = overtaken \cup {p}
          \/ LastOut(c, p) /\ overtaken' = overtaken \ {p}
      BY DEF HalUnsubscribe
    <2>4. \A q \in Props : q # p \/ ~LastOut(c, p) =>
              (q \in overtaken' <=> q \in overtaken)
      BY <2>3
    <2> QED BY <2>1, <2>2, <2>4
  <1>4. LastOut(c, p) =>
            /\ mHalEventSubscribeOptions'[p] = NoOpts
            /\ halInterval'[p] = 0
            /\ PendingFor(p) # {} => p \in overtaken'
    BY <1>1 DEF unsubscribe, HalUnsubscribe
  <1>5. RateInv'
    BY <1>1, <1>3, <1>4 DEF HalInv, RateInv
  <1>6. PendingInv'
    <2> SUFFICES ASSUME NEW q \in Continuous, q \notin overtaken',
                        NEW t \in Threads, halPending[t][q] # NoOpts
                 PROVE  halPending[t][q] = mHalEventSubscribeOptions'[q]
      BY DEF PendingInv
    <2>1. t \in PendingFor(q)
      BY DEF PendingFor
    <2> QED BY <1>1, <1>3, <1>4, <2>1 DEF HalInv, PendingInv
  <1>7. HalInSync'
    BY <1>1, <1>2, <1>3, <1>4 DEF HalInv, HalInSync
  <1>8. NobodyStarves'
    BY <1>1, <1>2, <1>3, <1>4 DEF HalInv, NobodyStarves
  <1> QED BY <1>5, <1>6, <1>7, <1>8 DEF HalInv

LEMMA HalStep == TypeOK /\ HalInv /\ [Next]_vars => HalInv'
  <1> SUFFICES ASSUME TypeOK, HalInv, [Next]_vars PROVE HalInv'
    OBVIOUS
  <1>0. /\ halPending \in [Threads -> [Props -> SubscribeOptions \cup {NoOpts}]]
        /\ halInterval \in [Props -> {0} \cup IntervalsOf(Rates)]
        /\ Continuous \subseteq Props
    BY VehicleAssumption DEF TypeOK
  <1>1. ASSUME NEW t \in Threads, NEW c \in Clients, NEW r \in Requests,
               Subscribe(t, c, r)
        PROVE  HalInv'
    <2> DEFINE up == Updated(Verified(r))
    <2>1. \A p \in Continuous :
              /\ p \in up =>
                     /\ halPending'[t][p] = mHalEventSubscribeOptions'[p]
                     /\ mHalEventSubscribeOptions'[p] # NoOpts
                     /\ mHalEventSubscribeOptions'[p].sampleRate \in Legal(p)
                     /\ PendingFor(p) # {} => p \in overtaken'
              /\ p \notin up =>
                     /\ halPending'[t][p] = NoOpts
                     /\ mHalEventSubscribeOptions'[p] =
                            mHalEventSubscribeOptions[p]
              /\ halPending[t][p] = NoOpts
      BY <1>1, SubscribePending DEF HalInv
    <2>2. /\ \A u \in Threads : u # t => halPending'[u] = halPending[u]
          /\ overtaken \subseteq overtaken'
          /\ halInterval' = halInterval
      BY <1>0, <1>1 DEF Subscribe
    <2> HIDE DEF up
    <2>3. \A p \in Continuous : p \in up => PendingFor(p)' # {}
      BY <2>1 DEF PendingFor
    <2>4. \A p \in Continuous : p \notin up => PendingFor(p)' = PendingFor(p)
      BY <2>1, <2>2 DEF PendingFor
    <2>5. RateInv'
      BY <2>1, <2>2 DEF HalInv, RateInv
    <2>6. PendingInv'
      <3> SUFFICES ASSUME NEW p \in Continuous, p \notin overtaken',
                          NEW u \in Threads, halPending'[u][p] # NoOpts
                   PROVE  halPending'[u][p] = mHalEventSubscribeOptions'[p]
        BY DEF PendingInv
      <3>1. CASE u = t
        BY <2>1, <3>1
      <3>2. CASE u # t
        <4>1. u \in PendingFor(p) /\ halPending'[u][p] = halPending[u][p]
          BY <2>2, <3>2 DEF PendingFor
        <4> QED BY <4>1, <2>1, <2>2 DEF HalInv, PendingInv
      <3> QED BY <3>1, <3>2
    <2>7. HalInSync'
      BY <2>1, <2>2, <2>3, <2>4 DEF HalInv, HalInSync
    <2>8. NobodyStarves'
      BY <2>1, <2>2, <2>3, <2>4 DEF HalInv, NobodyStarves
    <2> QED BY <2>5, <2>6, <2>7, <2>8 DEF HalInv
  <1>2. ASSUME NEW t \in Threads, NEW p \in Props, HalSubscribe(t, p)
        PROVE  HalInv'
    <2>1. /\ mHalEventSubscribeOptions' = mHalEventSubscribeOptions
          /\ overtaken' = overtaken
          /\ halPending[t][p] # NoOpts
          /\ halPending' = [halPending EXCEPT ![t][p] = NoOpts]
      BY <1>2 DEF HalSubscribe, subscriptionVars
    <2>2. \A q \in Props : q # p => /\ PendingFor(q)' = PendingFor(q)
                                    /\ halInterval'[q] = halInterval[q]
      BY <1>0, <1>2, <2>1 DEF HalSubscribe, PendingFor
    <2>3. \A u \in Threads, q \in Props :
              halPending'[u][q] # NoOpts => halPending'[u][q] = halPending[u][q]
      BY <1>0, <2>1
    <2>4. p \in Continuous =>
              /\ halInterval'[p] \in
                     hertzToNanoseconds(halPending[t][p].sampleRate)
              /\ halInterval'[p] # 0
              /\ halInterval'[p] \in IntervalsOf(Legal(p))
      <3> SUFFICES ASSUME p \in Continuous
                   PROVE  /\ halInterval'[p] \in
                                 hertzToNanoseconds(halPending[t][p].sampleRate)
                          /\ halInterval'[p] # 0
                          /\ halInterval'[p] \in IntervalsOf(Legal(p))
        OBVIOUS
      <3>1. PICK i \in hertzToNanoseconds(halPending[t][p].sampleRate) :
                halInterval' = [halInterval EXCEPT ![p] = i]
        BY <1>2 DEF HalSubscribe
      <3>2. halInterval'[p] = i
        BY <1>0, <3>1
      <3>3. halPending[t][p].sampleRate \in Rates
        BY <1>0, <2>1 DEF SubscribeOptions
      <3>4. halPending[t][p].sampleRate \in Legal(p)
        BY <2>1 DEF HalInv, RateInv
      <3>5. i # 0
        BY <3>3, IntervalType
      <3>6. i \in IntervalsOf(Legal(p))
        BY <3>4 DEF IntervalsOf
      <3> QED BY <3>2, <3>5, <3>6
    <2>5. RateInv'
      BY <1>0, <2>1, <2>3 DEF HalInv, RateInv
    <2>6. PendingInv'
      BY <1>0, <2>1, <2>3 DEF HalInv, PendingInv
    <2>7. HalInSync'
      BY <1>0, <2>1, <2>2, <2>4 DEF HalInv, HalInSync, PendingInv
    <2>8. NobodyStarves'
      BY <1>0, <2>1, <2>2, <2>4 DEF HalInv, NobodyStarves, Legal
    <2> QED BY <2>5, <2>6, <2>7, <2>8 DEF HalInv
  <1>3. ASSUME NEW c \in Clients, NEW p \in Props, Unsubscribe(c, p)
        PROVE  HalInv'
    BY <1>3, UnsubscribeHal DEF Unsubscribe
  <1>4. ASSUME NEW c \in Clients, NEW p \in Props, DeathUnsubscribe(c, p)
        PROVE  HalInv'
    BY <1>4, UnsubscribeHal DEF DeathUnsubscribe, UnsubscribeDead
  <1>5. ASSUME UNCHANGED <<mHalEventSubscribeOptions, halVars>>
        PROVE  HalInv'
    BY <1>5 DEF HalInv, RateInv, PendingInv, HalInSync, NobodyStarves,
                PendingFor, halVars
  <1> QED BY <1>1, <1>2, <1>3, <1>4, <1>5
          DEF Next, Die, ClientDies, DeathNotice, onCallbackDead, vars,
              subscriptionVars

-----------------------------------------------------------------------------
(* Theorems.                                                               *)

\* The conjunction that is inductive.
IInv ==
    /\ TypeOK
    /\ ListedClientsKnown
    /\ DeadClientsGone
    /\ DeathInv
    /\ SubscriptionsCovered
    /\ HalInv

\* Init implies the inductive invariant and every step keeps it.
THEOREM Inductive == Spec => []IInv
  <1>1. Init => IInv
    <2>1. Init => TypeOK
      BY TypeInit
    <2>2. Init => ListedClientsKnown /\ DeadClientsGone /\ DeathInv
      BY DEF Init, SubscriptionInit, ListedClientsKnown, DeadClientsGone,
             DeathInv
    <2>3. Init => SubscriptionsCovered
      BY DEF Init, SubscriptionInit, SubscriptionsCovered
    <2>4. Init => HalInv
      BY VehicleAssumption
         DEF Init, SubscriptionInit, HalInv, RateInv, PendingInv, HalInSync,
             NobodyStarves, Unsubscribed
    <2> QED BY <2>1, <2>2, <2>3, <2>4 DEF IInv
  <1>2. IInv /\ [Next]_vars => IInv'
    BY TypeStep, KnownStep, DeathStep, CoveredStep, HalStep DEF IInv, HalInv
  <1> QED BY <1>1, <1>2, PTL DEF Spec

\* Every variable of the subscription manager, the binder threads and the
\* HAL keeps its type: rates stay within the limits and the intervals are
\* theirs, also where the least rate is 0 or below one Hz.
THEOREM TypeCorrect == Spec => []TypeOK
  <1>1. IInv => TypeOK
    BY DEF IInv
  <1> QED BY <1>1, Inductive, PTL

\* distributeValuesToClients never finds a client that mClients has lost.
THEOREM ListedKnown == Spec => []ListedClientsKnown
  <1>1. IInv => ListedClientsKnown
    BY DEF IInv
  <1> QED BY <1>1, Inductive, PTL

\* onCallbackDead leaves no property with the dead client, although other
\* calls run between its lock regions.
THEOREM DeadGone == Spec => []DeadClientsGone
  <1>1. IInv => DeadClientsGone
    BY DEF IInv
  <1> QED BY <1>1, Inductive, PTL

\* The HAL is asked for at least what every subscribed client asked for.
THEOREM Covered == Spec => []SubscriptionsCovered
  <1>1. IInv => SubscriptionsCovered
    BY DEF IInv
  <1> QED BY <1>1, Inductive, PTL

\* Without a race the HAL's timers are those the subscription manager
\* holds, at the merged rates.
THEOREM InSync == Spec => []HalInSync
  <1>1. IInv => HalInSync
    BY DEF IInv, HalInv
  <1> QED BY <1>1, Inductive, PTL

\* With or without races, a property that is held subscribed has a timer, of
\* a rate within the property's limits.
THEOREM NoStarvation == Spec => []NobodyStarves
  <1>1. IInv => NobodyStarves
    BY DEF IInv, HalInv
  <1> QED BY <1>1, Inductive, PTL
=============================================================================
