SPECIFICATION Spec
CONSTANTS
    a1 = a1
    a2 = a2
    a3 = a3
    p1 = p1
    q1 = q1
    b1 = b1
    b2 = b2
    k1 = k1
    k2 = k2
    r1 = r1
    u1 = u1
    d1 = d1
    Bundles = {b1, b2, k1, k2}
    Actions = {a1, a2, a3, p1, q1}
    Singles = {r1}
    Rollbacks = {}
    Scopes = {Routing, d1}
    Routing = Routing
    HomeOf <- MCHomeOf
    ScopeOf <- MCScopeOf
    Limit <- MCLimit
    Window <- MCWindow
    MaxAge = 2
    MaxTime = 2
    MaxCrashes = 1
    Free = Free
INVARIANTS RateRespected AdmittedIsCovered
CHECK_DEADLOCK FALSE
