SPECIFICATION WiringSpec
CONSTANTS
    Proxies = {px, py}
    Addrs = {a}
    Ifaces = {wan, wan2, lan}
    Moving = {lan}
    Hosts = {}
    None = None
    RuleOf <- MCRuleOf
    TgtR <- MCTgtR
    ProxyIface <- MCProxyIface
    BaseRefs <- MCBaseRefs
    Ownable = {}
    Routable = {}
    ND_SESSION_MAX = 2
    ND_SESSION_MAX_SUBS = 1
    INVALID_TTL = 1
    VALID_TTL = 1
    STALE_TTL = 1
    RETRANS_TIME = 1
    RETRANS_LIMIT = 1
    KEEPALIVE = FALSE
    PERIOD = 0
    Steps = {1}
    AGE_CAP = 2
    MAXINDEX = 2
    LATE = TRUE
    wan = wan
    wan2 = wan2
    lan = lan
    px = px
    py = py
INVARIANT NoOrphans
INVARIANT RouteMissingOnlyIfMissed
