SPECIFICATION Spec
CONSTANTS
    Cookies = {1, 2}
    Rates = {1, 2}
    UnitInterval = 2
    Car = {car}
    MaxTime = 2
    MaxCalls = 2
INVARIANTS
    TypeOK
    SleepCoversEvents
    EventsAligned
    BurstBounded
PROPERTIES
    ConsumerStops
    EventsTaken
    SeenEventsFire
CHECK_DEADLOCK FALSE
