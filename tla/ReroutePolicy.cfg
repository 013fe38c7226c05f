SPECIFICATION FairSpec
CONSTANTS
    o1 = o1
    o2 = o2
    i1 = i1
    i2 = i2
    d1 = d1
    Reroutes = {o1, o2, i2}
    Devices = {d1}
    Values = {v0, v1}
    DeviceOf <- MCDeviceOf
    OriginalOf <- MCOriginalOf
    Unattended = {i2}
    NoReroute = NoReroute
    Admin = Admin
    MaxCrashes = 1
    MaxDbErrors = 1
    MaxDrifts = 0
    MaxFenceLosses = 0
    MaxPolicyChanges = 2
INVARIANTS OneOpenActionPerDevice
PROPERTIES PolicyNotBypassed OrphansRecovered TasksEnd
CHECK_DEADLOCK FALSE
