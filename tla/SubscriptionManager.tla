------------------------- MODULE SubscriptionManager -------------------------
(***************************************************************************)
(* Who is subscribed to which vehicle property                             *)
(* (vehicle/common/src/SubscriptionManager.cpp).  Every operation is one   *)
(* region of mLock, so it is one step; onCallbackDead is the exception: it *)
(* reads the dead client's properties in one region and gives them up one  *)
(* by one in others.                                                       *)
(*                                                                         *)
(* A list of SubscribeOptions is a function from the properties to their   *)
(* options, NoOpts for a property the list does not name: a list names a   *)
(* property at most once.                                                  *)
(***************************************************************************)
EXTENDS Integers, FiniteSets

CONSTANTS Clients,  \* callback interfaces, by ClientId
          Props,    \* property ids
          Rates     \* sample rates, in Hz

ASSUME SubscriptionAssumption == Props \subseteq Int /\ Rates \subseteq Nat

VARIABLES alive,                      \* clients whose process lives
          mClients,                   \* clients that have a HalClient
          mSubscriptions,             \* HalClient::mSubscriptions
          mPropToClients,             \* property -> clients, {} for no entry
          mHalEventSubscribeOptions,  \* property -> what the HAL was asked
          deathPc,                    \* where a client's onCallbackDead is
          deathTodo,                  \* its local: properties to give up
          late,                       \* history: subscribed after that read
          asked                       \* history: rate asked for car events

subscriptionVars == <<alive, mClients, mSubscriptions, mPropToClients,
                      mHalEventSubscribeOptions, deathPc, deathTodo, late,
                      asked>>

CAR == "EVENTS_FROM_CAR"
ANDROID == "EVENTS_FROM_ANDROID"
SubscribeFlags == {CAR, ANDROID}

SubscribeOptions == [sampleRate : Rates, flags : SUBSET SubscribeFlags]

\* No entry in a map of options.
NoOpts == [sampleRate |-> 0, flags |-> {}]

Unsubscribed == [p \in Props |-> NoOpts]

SubscriptionTypeOK ==
    /\ alive \in SUBSET Clients
    /\ mClients \in SUBSET Clients
    /\ mSubscriptions \in [Clients -> [Props -> SubscribeOptions \cup {NoOpts}]]
    /\ mPropToClients \in [Props -> SUBSET Clients]
    /\ mHalEventSubscribeOptions \in [Props -> SubscribeOptions \cup {NoOpts}]
    /\ deathPc \in [Clients -> {"none", "noticed", "unsubscribing", "handled"}]
    /\ deathTodo \in [Clients -> SUBSET Props]
    /\ late \in SUBSET Clients
    /\ asked \in [Clients -> [Props -> Rates \cup {-1}]]

SubscriptionInit ==
    /\ alive = Clients
    /\ mClients = {}
    /\ mSubscriptions = [c \in Clients |-> Unsubscribed]
    /\ mPropToClients = [p \in Props |-> {}]
    /\ mHalEventSubscribeOptions = Unsubscribed
    /\ deathPc = [c \in Clients |-> "none"]
    /\ deathTodo = [c \in Clients |-> {}]
    /\ late = {}
    /\ asked = [c \in Clients |-> [p \in Props |-> -1]]

-----------------------------------------------------------------------------
\* Mutant: the newest rate instead of the higher one.
NewestOptions(old, new) ==
    [sampleRate |-> new.sampleRate, flags |-> old.flags \cup new.flags]

\* The options a map holds after mergeSubscribeOptions: the higher rate and
\* the union of the flags.
mergeSubscribeOptions(old, new) ==
    [sampleRate |-> IF new.sampleRate > old.sampleRate THEN new.sampleRate
                                                       ELSE old.sampleRate,
     flags |-> old.flags \cup new.flags]

\* HalClient::addOrUpdateSubscription and the entry that
\* updateHalEventSubscriptionLocked leaves.
AddOrUpdate(old, new) ==
    IF old = NoOpts THEN new ELSE mergeSubscribeOptions(old, new)

\* The properties of a list whose HAL subscription the list changes.
Updated(options) ==
    {p \in Props : /\ CAR \in options[p].flags
                   /\ AddOrUpdate(mHalEventSubscribeOptions[p], options[p])
                          # mHalEventSubscribeOptions[p]}

\* getOrCreateHalClientLocked finds the client, or can link to its death.
CanSubscribe(c) == c \in mClients \/ c \in alive

\* addOrUpdateSubscription.  outUpdatedSubscriptions is what the primed
\* mHalEventSubscribeOptions holds for the properties Updated(options).
addOrUpdateSubscription(c, options) ==
    /\ CanSubscribe(c)
    /\ mClients' = mClients \cup {c}
    /\ mSubscriptions' =
           [mSubscriptions EXCEPT
               ![c] = [p \in Props |->
                          IF options[p] = NoOpts THEN @[p]
                          ELSE AddOrUpdate(@[p], options[p])]]
    /\ mPropToClients' =
           [p \in Props |-> IF options[p] = NoOpts THEN mPropToClients[p]
                            ELSE mPropToClients[p] \cup {c}]
    /\ mHalEventSubscribeOptions' =
           [p \in Props |->
               IF CAR \in options[p].flags
               THEN AddOrUpdate(mHalEventSubscribeOptions[p], options[p])
               ELSE mHalEventSubscribeOptions[p]]
    /\ late' = IF deathPc[c] \in {"unsubscribing", "handled"}
               THEN late \cup {c} ELSE late
    /\ asked' = [asked EXCEPT
                    ![c] = [p \in Props |->
                               IF /\ CAR \in options[p].flags
                                  /\ options[p].sampleRate > @[p]
                               THEN options[p].sampleRate ELSE @[p]]]
    /\ UNCHANGED <<alive, deathPc, deathTodo>>

\* The clients a property keeps when a client gives it up.
Remaining(c, p) ==
    IF c \in mClients THEN mPropToClients[p] \ {c} ELSE mPropToClients[p]

\* unsubscribe tells the HAL (mOnPropertyUnsubscribed) that nobody is left.
LastOut(c, p) == Remaining(c, p) = {}

\* Mutant: the last client of a property is dropped, whatever else it has.
DropWithProperty(c, p) ==
    LET dropped == LastOut(c, p)
    IN
    /\ mPropToClients' = [mPropToClients EXCEPT ![p] = Remaining(c, p)]
    /\ mClients' = IF dropped THEN mClients \ {c} ELSE mClients
    /\ mSubscriptions' = IF dropped
                         THEN [mSubscriptions EXCEPT ![c] = Unsubscribed]
                         ELSE mSubscriptions
    /\ mHalEventSubscribeOptions' =
           IF LastOut(c, p)
           THEN [mHalEventSubscribeOptions EXCEPT ![p] = NoOpts]
           ELSE mHalEventSubscribeOptions
    /\ asked' = [asked EXCEPT ![c][p] = -1]
    /\ UNCHANGED <<alive, late>>

\* Mutant: the HAL's options of a property nobody is left for are kept.
KeepHalOptions(c, p) ==
    LET dropped == \A q \in Props : q # p => c \notin mPropToClients[q]
    IN
    /\ mPropToClients' = [mPropToClients EXCEPT ![p] = Remaining(c, p)]
    /\ mClients' = IF dropped THEN mClients \ {c} ELSE mClients
    /\ mSubscriptions' = IF dropped
                         THEN [mSubscriptions EXCEPT ![c] = Unsubscribed]
                         ELSE mSubscriptions
    /\ asked' = [asked EXCEPT ![c][p] = -1]
    /\ UNCHANGED <<alive, late, mHalEventSubscribeOptions>>

\* unsubscribe.  The HalClient keeps its options for the property; it is
\* dropped, and its options with it, when no property lists it any more.
unsubscribe(c, p) ==
    LET dropped == \A q \in Props : q # p => c \notin mPropToClients[q]
    IN
    /\ mPropToClients' = [mPropToClients EXCEPT ![p] = Remaining(c, p)]
    /\ mClients' = IF dropped THEN mClients \ {c} ELSE mClients
    /\ mSubscriptions' = IF dropped
                         THEN [mSubscriptions EXCEPT ![c] = Unsubscribed]
                         ELSE mSubscriptions
    /\ mHalEventSubscribeOptions' =
           IF LastOut(c, p)
           THEN [mHalEventSubscribeOptions EXCEPT ![p] = NoOpts]
           ELSE mHalEventSubscribeOptions
    /\ asked' = [asked EXCEPT ![c][p] = -1]
    /\ UNCHANGED <<alive, late>>

\* A client's process dies; a client that has a HalClient is linked to its
\* death recipient, and the recipient is called.
ClientDies(c) ==
    /\ c \in alive
    /\ alive' = alive \ {c}
    /\ deathPc' = [deathPc EXCEPT ![c] = IF c \in mClients THEN "noticed"
                                                           ELSE "handled"]
    /\ UNCHANGED <<mClients, mSubscriptions, mPropToClients,
                   mHalEventSubscribeOptions, deathTodo, late, asked>>

\* The first region of onCallbackDead: getSubscribedProperties, or nothing
\* when the client is not known any more.
onCallbackDead(c) ==
    /\ deathPc[c] = "noticed"
    /\ deathTodo' = [deathTodo EXCEPT
                        ![c] = {p \in Props : /\ c \in mClients
                                              /\ mSubscriptions[c][p] # NoOpts}]
    /\ deathPc' = [deathPc EXCEPT ![c] = IF deathTodo'[c] = {} THEN "handled"
                                         ELSE "unsubscribing"]
    /\ UNCHANGED <<alive, mClients, mSubscriptions, mPropToClients,
                   mHalEventSubscribeOptions, late, asked>>

\* Mutant: only the first of the dead client's properties is given up.
UnsubscribeFirst(c, p) ==
    /\ deathPc[c] = "unsubscribing"
    /\ p \in deathTodo[c]
    /\ \A q \in deathTodo[c] : p <= q
    /\ deathTodo' = [deathTodo EXCEPT ![c] = {}]
    /\ deathPc' = [deathPc EXCEPT ![c] = "handled"]
    /\ unsubscribe(c, p)

\* The unsubscribe of one of those properties, in the order of their ids.
UnsubscribeDead(c, p) ==
    /\ deathPc[c] = "unsubscribing"
    /\ p \in deathTodo[c]
    /\ \A q \in deathTodo[c] : p <= q
    /\ deathTodo' = [deathTodo EXCEPT ![c] = @ \ {p}]
    /\ deathPc' = [deathPc EXCEPT
                      ![c] = IF deathTodo[c] = {p} THEN "handled" ELSE @]
    /\ unsubscribe(c, p)

\* getSubscribedClientsLocked for events of the car.
SubscribedClients(p) ==
    {c \in mPropToClients[p] : CAR \in mSubscriptions[c][p].flags}

-----------------------------------------------------------------------------
(* Properties.                                                             *)

\* A property's list names no client that mClients has lost, and a listed
\* client has options for the property: distributeValuesToClients never
\* looks at a HalClient that is not linked to its client's death.
ListedClientsKnown ==
    \A p \in Props : \A c \in mPropToClients[p] :
        c \in mClients /\ mSubscriptions[c][p] # NoOpts

\* Once onCallbackDead has finished with a dead client no property lists
\* the client, although it gave the properties up one by one while other
\* calls ran.  The exception is a call of the dead client's own that is
\* served after onCallbackDead has read the client's properties.
DeadClientsGone ==
    \A c \in Clients \ late : deathPc[c] = "handled" =>
        \A p \in Props : c \notin mPropToClients[p]

\* What a client asks for is what the HAL is asked for: a client that
\* subscribed to a property's car events and has not unsubscribed is listed,
\* and the HAL's subscription is at least as fast as every rate it asked
\* for, whatever other clients do and whoever dies.
SubscriptionsCovered ==
    \A c \in Clients, p \in Props : asked[c][p] >= 0 =>
        /\ c \in SubscribedClients(p)
        /\ mHalEventSubscribeOptions[p] # NoOpts
        /\ mHalEventSubscribeOptions[p].sampleRate >= asked[c][p]
=============================================================================
