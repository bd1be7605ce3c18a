SPECIFICATION Spec

CONSTANTS
    Proxies = {px, py}
    Addrs = {a}
    Ifaces = {wan, wan2, lan}
    Hosts = {h1, h2}
    None = None
    RuleOf <- IfaceRules
    TgtR <- SameTarget
    ProxyIface <- MCProxyIface
    BaseRefs <- RuleRefs
    Ownable = {}
    Routable = {}
    ND_SESSION_MAX = 2
    ND_SESSION_MAX_SUBS = 1
    INVALID_TTL = 1
    VALID_TTL = 1
    STALE_TTL = 1
    RETRANS_TIME = 1
    RETRANS_LIMIT = 1
    KEEPALIVE = FALSE
    PERIOD = 0
    Steps = {1}
    AGE_CAP = 2
    wan = wan
    wan2 = wan2
    lan = lan
    px = px
    py = py
    a = a
    b = b
    d = d
    z = z
    h1 = h1
    h2 = h2

PROPERTIES
    NaMakesValid
