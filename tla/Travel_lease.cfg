SPECIFICATION FairSpec
CONSTANTS
    Devices = {d1}
    Home = Home
    Nobody = Nobody
    Lease = 2
    Pending = 2
    Window = 1
    MaxLate = 1
INVARIANTS
    ClientLeavesFirst
PROPERTIES
    NoTripUnasked
    PetReappears
CHECK_DEADLOCK FALSE
