SPECIFICATION Spec
CONSTANTS
    Servers = {s1, s2, s3}
    Hosts = {self, p, q}
    Self = self
    Rtts = {40}
    NoRtt = NoRtt
    MaxDirect = 1
    UnknownRtt = 500
    Outside = {}
    NoHost = NoHost
    SubnetRoute <- MCSubnetRoute
    Gateways = {g1, g2}
    Askers = {a1, a2}
    Nobody = Nobody
    MaxCalls = 2
    Nodes = {1, 2, 3}
    Links <- MCLinks
    DataTtl = 3
    MaxInFlight = 1
    MaxHalves = 1
    Profiles = {f1, f2}
    Calls = {c1, c2}
    NoProfile = NoProfile
    MaxStarts = 3
    Callers = {t1, t2, t3}
    MaxCells = 4
    Sources = {u, v}
    NoTask = NoTask
    MaxQueue = 2
    Keys = {k1, k2}
    MaxSockets = 4
    IdleTicks = 2
    Peers = {peer}
    Pinger = ping
    Loops = {l1, l2}
    NoPeer = NoPeer
    MaxPings = 4
    MaxUnits = 2
INVARIANTS
    BroadcastReachesAll
    MissedOnlyBehindMain
    AnswersOwnRequest
    MetricTellsHops
    AnswererNeverHoldsBack
    EveryChildIsKnown
    SecondTryIsNew
    OneTaskPerSource
    EntryIsServed
    NothingUncounted
    LossInBounds
    FateIsDue
    StaysOnItsRoad
    ListenerHearsAll
PROPERTIES
    RelayRouteTakesARace
CHECK_DEADLOCK FALSE
