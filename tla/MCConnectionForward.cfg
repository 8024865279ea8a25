CONSTANTS
    c1 = c1
    c2 = c2
    c3 = c3
    x = x
    loop = loop
    Conns = {c1}
    Ips = {x}
    PrivateIps = {}
    LocalIps = {}
    MaxAttempts = 1
    Window = 1
    BanTime = 2
    MaxTime = 3
    HelloTimeout = 1
    ShakeTimeout = 1
SPECIFICATION Spec
PROPERTIES ForwardTransparent
CHECK_DEADLOCK FALSE
