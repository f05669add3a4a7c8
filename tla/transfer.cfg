SPECIFICATION FairSpec
CONSTANTS
    Parts = 3
    Threads = 2
    Attempts = 3
    Restarts = 1
    Faults = {"fetch", "cancel", "remove", "rename"}
INVARIANTS
    TypeOK
    HolesAreLogged
    PartialsSwept
PROPERTY Settles
