CONSTANTS
    c1 = c1
    c2 = c2
    c3 = c3
    x = x
    loop = loop
    Conns = {c1, c2, c3}
    Ips = {x, loop}
    PrivateIps = {}
    LocalIps = {loop}
    MaxAttempts = 1
    Window = 1
    BanTime = 2
    MaxTime = 4
    HelloTimeout = 1
    ShakeTimeout = 1
SYMMETRY ConnSymmetry
SPECIFICATION Spec
INVARIANTS TypeOK OnlyClientsAreCounted
PROPERTIES BanQuenches
CHECK_DEADLOCK FALSE
