SPECIFICATION Spec

CONSTANTS
    Proxies = {px}
    Addrs = {a}
    Ifaces = {wan, lan}
    Hosts = {h1, h2}
    None = None
    RuleOf <- IfaceRules
    TgtR <- SameTarget
    ProxyIface <- MCProxyIface
    BaseRefs <- RuleRefs
    Ownable = {}
    Routable = {}
    ND_SESSION_MAX = 1
    ND_SESSION_MAX_SUBS = 1
    INVALID_TTL = 2
    VALID_TTL = 2
    STALE_TTL = 2
    RETRANS_TIME = 2
    RETRANS_LIMIT = 3
    KEEPALIVE = FALSE
    PERIOD = 0
    Steps = {1, 2}
    AGE_CAP = 3
    wan = wan
    wan2 = wan2
    lan = lan
    px = px
    py = py
    a = a
    b = b
    d = d
    z = z
    h1 = h1
    h2 = h2

PROPERTIES
    IncompleteProbesSpaced
