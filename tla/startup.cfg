CONSTANTS
    MAX_INSTANCES = 3
    MAX_ENTRIES = 2
    MAX_WHITELIST_ENTRIES = 2
    MAX_DEVICES = 2
    UINT_RANGE = 1073741824
    Text <- MCText
    bus_location <- MCBusLocation
    stripped <- MCStripped
    AddrBits = 3
    Ports = {4000}
    Buses <- MCBuses
    Files <- MCFiles
SPECIFICATION Spec
INVARIANTS TypeOK LoadsAsWritten EveryMappingRuns VerdictAsListed BlocksInForce StrictFailsClosed DiscoveredIsOpened
