SPECIFICATION SettingsSpec
CONSTANTS
    Requester = {c1, c2}
    ServerEntry <- MCEntry
    Setting <- MCSetting
    Defaults <- MCDefaults
    MaxServers = 2
    MaxFaults = 1
INVARIANT SizedToPools
CHECK_DEADLOCK FALSE
