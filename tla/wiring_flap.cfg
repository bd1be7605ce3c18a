SPECIFICATION WiringSpec
CONSTANTS
    Proxies = {px}
    Addrs = {a}
    Ifaces = {wan, lan}
    Moving = {lan}
    Hosts = {h1}
    None = None
    RuleOf <- MCRuleOf
    TgtR <- MCTgtR
    ProxyIface <- MCProxyIface
    BaseRefs <- MCBaseRefs
    Ownable = {}
    Routable = {}
    ND_SESSION_MAX = 2
    ND_SESSION_MAX_SUBS = 1
    INVALID_TTL = 1
    VALID_TTL = 1
    STALE_TTL = 1
    RETRANS_TIME = 1
    RETRANS_LIMIT = 1
    KEEPALIVE = FALSE
    PERIOD = 0
    Steps = {1}
    AGE_CAP = 2
    MAXINDEX = 2
    LATE = FALSE
    wan = wan
    wan2 = wan2
    lan = lan
    px = px
    py = py
INVARIANT ValidIsRouted
