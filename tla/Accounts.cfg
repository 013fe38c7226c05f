SPECIFICATION Spec
CONSTANTS
    Clients = {c1, c2}
    Steps = {1, 2}
    Threshold = 2
    MaxSessions = 2
    MaxResets = 1
    MaxFaults = 1
    Users = {u1, u2, u3}
    Requests = {r1, r2}
SYMMETRY Symmetry
INVARIANT SessionIsEarned
INVARIANT SuperadminKept
CHECK_DEADLOCK FALSE
