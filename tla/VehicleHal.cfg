SPECIFICATION Spec
CONSTANTS
    Clients = {c1, c2}
    Props = {1, 2, 3}
    Rates = {0, 1, 2}
    Continuous = {1, 2}
    MinSampleRate <- MCMinSampleRate
    MaxSampleRate <- MCMaxSampleRate
    UnitInterval = 4
    ZeroRateIntervals <- MCZeroRateIntervals
    Threads = {t1, t2}
    Requests <- MCRequests
    MaxCalls = 3
INVARIANTS
    TypeOK
    ListedClientsKnown
    DeadClientsGone
    SubscriptionsCovered
    HalInSync
    NobodyStarves
PROPERTY
    DeadClientsReleased
CHECK_DEADLOCK FALSE
