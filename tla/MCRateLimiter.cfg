CONSTANTS
    home = home
    x = x
    y = y
    Ips = {home, x, y}
    PrivateIps = {home}
    MaxAttempts = 2
    Window = 2
    BanTime = 2
    MaxTime = 6
SYMMETRY IpSymmetry
SPECIFICATION Spec
INVARIANTS TypeOK
PROPERTIES BanStands ImplementsPolicy
