SPECIFICATION FairSpec
CONSTANTS
    Servers = {s1, s2}
    First = s1
    Hosts = {self, p}
    Self = self
    p = p
    Rtts = {40}
    NoRtt = NoRtt
    MaxDirect = 1
    UnknownRtt = 500
    Outside = {behind, nowhere}
    behind = behind
    nowhere = nowhere
    NoHost = NoHost
    SubnetRoute <- MCSubnetRoute
    Addresses = {a, b}
    NoAddr = NoAddr
    ConfigIps = {NoAddr, a}
    Honest = {s1, s2}
    MaxSilent = 2
INVARIANTS
    ListAgrees
    SameAddress
    UnicastIsServed
PROPERTIES
    KeepsPromise
    RegistrationSettles
    DeadLinkIsLeft
    OneEndsAll
CHECK_DEADLOCK FALSE
