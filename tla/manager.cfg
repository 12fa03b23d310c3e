CONSTANTS
    InstanceCount = 3
    Enabled = {1, 2}
    Pids = {11, 12, 13}
    MaxForkFailures = 1
    Bus <- MCBus
    DeviceId <- MCDeviceId
    Port <- MCPort
    MaxFaults = 3
SPECIFICATION DSpec
INVARIANTS TypeOK PidTracksChild NoOrphans StopReachesAll
PROPERTIES StopsOrHangs RestartsWhileForkWorks ImplementsManager UndisputedServes
