CONSTANTS
    InstanceCount = 2
    Enabled = {1, 2}
    Pids = {11, 12}
    MaxForkFailures = 1
    Bus <- MCBus
    DeviceId <- AutoDeviceId
    Port <- AutoPort
    MaxFaults = 0
SPECIFICATION DSpec
PROPERTY EveryInstanceServes
