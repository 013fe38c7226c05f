SPECIFICATION FairSpec
CONSTANTS
    a1 = a1
    a2 = a2
    a3 = a3
    b1 = b1
    b2 = b2
    d1 = d1
    d2 = d2
    Bundles = {b1, b2}
    Children = {c1}
    Actions = {a1, a2, a3}
    Devices = {d1, d2}
    HomeOf <- MCHomeOf
    DeviceOf <- MCDeviceOf
    Rank <- MCRank
    Destructive = {a2}
    FailurePolicies = {"abort_and_compensate"}
    None = None
    Quarantine = Quarantine
    Faults = {"ambiguous", "refused", "dberr", "crash"}
    MaxFaults = 2
PROPERTIES StartupCompletes RunsEnd
CHECK_DEADLOCK FALSE
