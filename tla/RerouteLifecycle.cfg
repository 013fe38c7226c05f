SPECIFICATION Spec
CONSTANTS
    o1 = o1
    o2 = o2
    i1 = i1
    i2 = i2
    d1 = d1
    Reroutes = {o1, o2, i1, i2}
    Devices = {d1}
    Values = {v0, v1}
    DeviceOf <- MCDeviceOf
    OriginalOf <- MCOriginalOf
    Unattended = {i1, i2}
    NoReroute = NoReroute
    Admin = Admin
    MaxCrashes = 1
    MaxDbErrors = 1
    MaxDrifts = 1
    MaxFenceLosses = 1
    MaxPolicyChanges = 0
INVARIANTS OneWriterPerDevice UncertainIsLocked InvertedOnce
PROPERTIES SuccessIsProved WriteNeverDisowned
SYMMETRY MCSymmetry
CHECK_DEADLOCK FALSE
