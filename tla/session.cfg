SPECIFICATION FairSpec

CONSTANTS
    Proxies = {px}
    Addrs = {a, b, d, z}
    Ifaces = {wan, lan}
    Hosts = {h1, h2}
    None = None
    RuleOf <- EveryRule
    TgtR <- RewriteToB
    ProxyIface <- MCProxyIface
    BaseRefs <- RuleRefs
    Ownable <- LanOwnsB
    Routable <- RouteToD
    ND_SESSION_MAX = 1
    ND_SESSION_MAX_SUBS = 1
    INVALID_TTL = 1
    VALID_TTL = 1
    STALE_TTL = 2
    RETRANS_TIME = 1
    RETRANS_LIMIT = 2
    KEEPALIVE = FALSE
    PERIOD = 0
    Steps = {1, 2}
    AGE_CAP = 3
    wan = wan
    wan2 = wan2
    lan = lan
    px = px
    py = py
    a = a
    b = b
    d = d
    z = z
    h1 = h1
    h2 = h2

INVARIANTS
    TypeOK
    NoStrandedSubs
    ProbesHaveIface
    RefsExact
    TableBounded
    FreshReply
PROPERTIES
    KeepsPromise
    WaitersServed
    SilentTargetForgotten
    StaleProbesSpaced
