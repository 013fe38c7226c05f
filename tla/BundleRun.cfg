SPECIFICATION Spec
CONSTANTS
    a1 = a1
    a2 = a2
    a3 = a3
    b1 = b1
    b2 = b2
    d1 = d1
    d2 = d2
    Bundles = {b1, b2}
    Children = {c1, c2}
    Actions = {a1, a2, a3}
    Devices = {d1, d2}
    HomeOf <- MCHomeOf
    DeviceOf <- MCDeviceOf
    Rank <- MCRank
    Destructive = {a2}
    FailurePolicies = {"abort_and_compensate", "abort", "continue"}
    None = None
    Quarantine = Quarantine
    Faults = {"ambiguous", "refused", "blocked", "cancelled", "dberr", "crash", "unproven", "drift"}
    MaxFaults = 2
INVARIANTS ChangeIsOwned QuarantineHeld ClaimExclusive VerdictIsTrue
PROPERTIES ForeignWriteExcluded AmbiguityFreezes PathKept
SYMMETRY MCSymmetry
CHECK_DEADLOCK FALSE
