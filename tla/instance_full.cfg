SPECIFICATION Spec
CONSTANTS
    p1 = p1  p2 = p2  p4 = p4  a = a  b = b  c = c
    NoPeer = NoPeer
    NoIp = NoIp
    NSlots = 1
    ListenFd = 3
    Fds <- TwoFds
    Peers = {p1, p2, p4}
    Ips <- MCIps
    Ip <- MCIp
    Admitted <- MCAdmitted
    LockTimeout = 0
    MaxTime = 0
    UrgentPeers = {p1}
    XvcBufferSize = 1
    Ops = {"settck", "shift", "invalid"}
    Vectors <- ManyVectors
INVARIANTS
    FdConservation
    HandlerServesItsSlot
PROPERTIES
    SyncPreserved
    ResetResyncs
