SPECIFICATION FairSpec
CONSTANTS
    p1 = p1  p2 = p2  p4 = p4  a = a  b = b  c = c
    NoPeer = NoPeer
    NoIp = NoIp
    NSlots = 2
    ListenFd = 3
    Fds <- TwoFds
    Peers = {p1, p2}
    Ips <- MCIps
    Ip <- MCIp
    Admitted <- MCAdmitted
    LockTimeout = 1
    MaxTime = 1
    UrgentPeers = {p1}
    XvcBufferSize = 1
    Ops = {"getinfo", "shift"}
    Vectors <- OneVector
PROPERTY
    SessionsApart
