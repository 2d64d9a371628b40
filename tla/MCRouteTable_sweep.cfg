SPECIFICATION Spec
CONSTANTS
    u1 = u1
    u2 = u2
    c = c
    socket1 = socket1
    socket2 = socket2
    connection = connection
    NoList = NoList
    NoId = NoId
    NoTime = NoTime
    a = a
    b = b
    Ids = {a}
    Keys = {u1}
    Tunnels = {socket1, socket2, connection}
    TcpTunnels = {connection}
    TunnelOf <- MCTunnelOf
    Rtts = {1}
    DefaultRtt = 3
    PingMetrics = {1, 2}
    PongMetrics = {1}
    MaxAge = 1
PROPERTIES
    SweepRemovesExpiredOnly
