\* A sync beside another one or a drift, a release, a Skill that appears or disappears,
\* one edit and two failing calls, failing writes or kills, three of these in all.
SPECIFICATION Spec
CONSTANTS
    a = a
    b = b
    own = own
    team = team
    extra = extra
    NoProc = NoProc
    Procs = {a, b}
    Order <- Listed
    SourceOf <- FoundBy
    Name <- Keyed
    Access <- Accesses
    Package <- Packages
    Versions = {1, 2}
    PageSize = 1
    MaxPublishes = 1
    MaxListings = 1
    MaxEdits = 1
    MaxFaults = 2
    MaxEvents = 3
    Starts <- Released
INVARIANTS
    TypeOK
    SyncIsAllOrNothing
PROPERTIES
    DriftIsTrue

SYMMETRY Symmetric
