SPECIFICATION GateSpec
CONSTANTS
    s1 = s1
    r1 = r1
    r2 = r2
    l1 = l1
    l2 = l2
    u1 = u1
    None = None
    Logins = {s1}
    Requests = {r1, r2}
    Logouts = {l1}
    TicksPerSecond = 3
    AccessLifetime = 6
    MaxTime = 9
    Users = {u1}
    UserOf <- MCUserOf
INVARIANTS
    EntitledPass
