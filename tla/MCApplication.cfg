\* Three requests, whose notices share two threads, with and without a lifespan.
CONSTANTS
    Notices = {n1, n2, n3}
    Threads = 2
    NoRequest = NoRequest
SPECIFICATION AppFairSpec
INVARIANTS
    AppTypeOK
    QuietAfterShutdown
    AcceptedAreTried
    OneClient
    NoticesAreCommitted
    NoticesHandedOver
PROPERTIES
    ShutdownEnds
    CommittedAreMailed
\* The application has stopped, or has served all its requests.
CHECK_DEADLOCK FALSE
