SPECIFICATION FairSpec
CONSTANTS
    MaxEntries = 3
    Pins = {"gpio0"}
    Ports = {"uart1"}
    Unknown = {"none"}
    Blank = "gpio0"
    Defaults <- MCDefaults
    MaxSaved = 1
    None = None
INVARIANTS
    HandlesMatch
    DriversOwned
PROPERTIES
    EntriesAreTried
