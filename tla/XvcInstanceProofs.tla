-------------------------- MODULE XvcInstanceProofs --------------------------
(***************************************************************************)
(* Proofs about XvcInstance, for every size of the connection table, every *)
(* set of descriptors, clients, addresses and vectors, and every timeout.  *)
(***************************************************************************)
EXTENDS XvcInstance, JtagTapProofs, FiniteSetTheorems

\* The inductive invariant.  Beyond the checked properties it needs that accept
\* is only tried while a client is queued.
IInv ==
    /\ TypeOK
    /\ FdConservation
    /\ ActiveIsOpen
    /\ LockBounded
    /\ HandlerServesItsSlot
    /\ pc = "accept" => backlog # <<>>

-----------------------------------------------------------------------------
(* The connection table. *)

\* The connection table is finite: its open slots can be counted.
LEMMA OpenFinite == IsFiniteSet(Slots) /\ Cardinality(Slots) = NSlots /\ IsFiniteSet(OpenSlots)
<1>1. IsFiniteSet(Slots) /\ Cardinality(Slots) = NSlots
  BY SlotsAssumption, FS_Interval DEF Slots
<1>2. OpenSlots \subseteq Slots
  BY DEF OpenSlots
<1>. QED
  BY <1>1, <1>2, FS_Subset

\* The part of the invariant that is about the connection table alone.
TableInv ==
    /\ fd \in [Slots -> Fds \cup {NoFd, 0}]
    /\ state \in [Slots -> {"CLOSED", "CONNECTED", "ACTIVE"}]
    /\ addr \in [Slots -> Ips \cup {NoIp}]
    /\ refused \in [Slots -> BOOLEAN]
    /\ connection_count \in 0 .. NSlots /\ max_fd \in Nat
    /\ owner \in [Fds -> Peers \cup {NoPeer}]
    /\ FdConservation
    /\ \A i \in OpenSlots : addr[i] = Ip[owner[fd[i]]] /\ addr[i] \in Admitted

\* update_max_fd yields a descriptor no smaller than any open one.
LEMMA UpdateMaxFd ==
    ASSUME NEW f \in [Slots -> Fds \cup {NoFd, 0}], NEW s, update_max_fd(f, s),
           \A i \in Slots : s[i] # "CLOSED" => f[i] \in Fds
    PROVE  max_fd' \in Nat /\ \A i \in Slots : s[i] # "CLOSED" => f[i] <= max_fd'
BY FdsAssumption DEF update_max_fd

\* Closing an open slot keeps the table consistent, whatever is active.
LEMMA CloseKeepsTable ==
    ASSUME TableInv, NEW i \in OpenSlots, NEW act, tcp_server_close_connection(i, act)
    PROVE  TableInv'
<1>. DEFINE closed == [state EXCEPT ![i] = "CLOSED"]
<1>. USE SlotsAssumption
<1>1. i \in Slots /\ fd[i] \in Fds /\ state[i] # "CLOSED"
  BY DEF TableInv, FdConservation, OpenSlots, IsOpen
<1>2. /\ fd' = [fd EXCEPT ![i] = NoFd] /\ state' = closed
      /\ owner' = [owner EXCEPT ![fd[i]] = NoPeer]
      /\ addr' = [addr EXCEPT ![i] = NoIp] /\ refused' = [refused EXCEPT ![i] = FALSE]
      /\ connection_count' = connection_count - 1
      /\ update_max_fd(fd', state')
  BY DEF tcp_server_close_connection
<1>3. OpenSlots' = OpenSlots \ {i}
  BY <1>1, <1>2 DEF TableInv, OpenSlots, IsOpen
<1>4. /\ fd' \in [Slots -> Fds \cup {NoFd, 0}]
      /\ state' \in [Slots -> {"CLOSED", "CONNECTED", "ACTIVE"}]
      /\ addr' \in [Slots -> Ips \cup {NoIp}]
      /\ refused' \in [Slots -> BOOLEAN]
      /\ owner' \in [Fds -> Peers \cup {NoPeer}]
  BY <1>1, <1>2 DEF TableInv
<1>5. \A j \in OpenSlots' : /\ j \in OpenSlots /\ j # i /\ j \in Slots
                            /\ fd'[j] = fd[j] /\ fd[j] \in Fds /\ fd[j] # fd[i]
                            /\ owner'[fd[j]] = owner[fd[j]] /\ addr'[j] = addr[j]
  BY <1>1, <1>2, <1>3 DEF TableInv, FdConservation, OpenSlots
<1>6. max_fd' \in Nat /\ \A j \in OpenSlots' : fd'[j] <= max_fd'
  <2>1. \A j \in Slots : state'[j] # "CLOSED" => j \in OpenSlots'
    BY DEF OpenSlots, IsOpen
  <2>2. \A j \in Slots : state'[j] # "CLOSED" => fd'[j] \in Fds
    BY <2>1, <1>5
  <2>3. \A j \in OpenSlots' : j \in Slots /\ state'[j] # "CLOSED"
    BY DEF OpenSlots, IsOpen
  <2>. QED
    BY <2>2, <2>3, <1>2, <1>4, UpdateMaxFd
<1>7. connection_count' = Cardinality(OpenSlots') /\ connection_count' \in 0 .. NSlots
  <2>1. Cardinality(OpenSlots \ {i}) = Cardinality(OpenSlots) - 1
    BY OpenFinite, FS_RemoveElement
  <2>2. Cardinality(OpenSlots \ {i}) \in Nat
    BY OpenFinite, FS_RemoveElement, FS_CardinalityType
  <2>. QED
    BY <1>2, <1>3, <2>1, <2>2 DEF TableInv, FdConservation
<1>8. \A f \in Fds : owner'[f] # NoPeer => \E j \in OpenSlots' : fd'[j] = f
  <2>. SUFFICES ASSUME NEW f \in Fds, owner'[f] # NoPeer
                PROVE  \E j \in OpenSlots' : fd'[j] = f
    OBVIOUS
  <2>1. f # fd[i] /\ owner[f] # NoPeer
    BY <1>1, <1>2 DEF TableInv
  <2>2. PICK j \in OpenSlots : fd[j] = f
    BY <2>1 DEF TableInv, FdConservation
  <2>. QED
    BY <2>1, <2>2, <1>3, <1>5
<1>9. \A j \in OpenSlots' : fd'[j] \in Fds /\ owner'[fd'[j]] # NoPeer
  BY <1>5 DEF TableInv, FdConservation
<1>10. \A j, k \in OpenSlots' : fd'[j] = fd'[k] => j = k
  BY <1>5 DEF TableInv, FdConservation
<1>11. \A j \in OpenSlots' : addr'[j] = Ip[owner'[fd'[j]]] /\ addr'[j] \in Admitted
  BY <1>5 DEF TableInv
<1>. QED
  BY <1>4, <1>6, <1>7, <1>8, <1>9, <1>10, <1>11 DEF TableInv, FdConservation

\* A new connection in a free slot, on a free descriptor, keeps it consistent too.
LEMMA AcceptKeepsTable ==
    ASSUME TableInv, backlog \in Seq(Peers), backlog # <<>>, Accept
    PROVE  TableInv'
<1>. USE SlotsAssumption
<1>. DEFINE p == Head(backlog)
<1>1. p \in Peers /\ p # NoPeer /\ Ip[p] \in Admitted /\ Ip[p] \in Ips
  <2>1. p \in Peers
    OBVIOUS
  <2>2. Ip[p] \in Admitted
    BY DEF Accept, Allowed
  <2>. QED
    BY <2>1, <2>2, PeersAssumption
<1>2. PICK f \in Fds, i \in Slots :
        /\ owner[f] = NoPeer /\ state[i] = "CLOSED"
        /\ owner' = [owner EXCEPT ![f] = p] /\ fd' = [fd EXCEPT ![i] = f]
        /\ state' = [state EXCEPT ![i] = "CONNECTED"] /\ addr' = [addr EXCEPT ![i] = Ip[p]]
        /\ refused' = [refused EXCEPT ![i] = on_client_connect(i, Ip[p]).ret]
        /\ connection_count' = connection_count + 1
        /\ update_max_fd(fd', state')
  BY DEF Accept, FreeFd, find_free_slot, IsOpen
<1>3. i \notin OpenSlots /\ OpenSlots' = OpenSlots \cup {i}
  BY <1>2 DEF TableInv, OpenSlots, IsOpen
<1>4. /\ fd' \in [Slots -> Fds \cup {NoFd, 0}]
      /\ state' \in [Slots -> {"CLOSED", "CONNECTED", "ACTIVE"}]
      /\ addr' \in [Slots -> Ips \cup {NoIp}]
      /\ owner' \in [Fds -> Peers \cup {NoPeer}]
  BY <1>1, <1>2 DEF TableInv
<1>5. refused' \in [Slots -> BOOLEAN]
  <2>1. on_client_connect(i, Ip[p]).ret \in BOOLEAN
    BY DEF on_client_connect
  <2>. QED
    BY <1>2, <2>1 DEF TableInv
<1>6. \A j \in OpenSlots : /\ j \in Slots /\ j # i
                           /\ fd'[j] = fd[j] /\ fd[j] \in Fds /\ fd[j] # f
                           /\ owner'[fd[j]] = owner[fd[j]] /\ addr'[j] = addr[j]
  BY <1>2, <1>3 DEF TableInv, FdConservation, OpenSlots
<1>7. fd'[i] = f /\ owner'[f] = p /\ addr'[i] = Ip[p]
  BY <1>2 DEF TableInv
<1>8. \A j \in OpenSlots' : fd'[j] \in Fds /\ owner'[fd'[j]] # NoPeer
  BY <1>1, <1>3, <1>6, <1>7 DEF TableInv, FdConservation
<1>9. max_fd' \in Nat /\ \A j \in OpenSlots' : fd'[j] <= max_fd'
  <2>1. \A j \in Slots : state'[j] # "CLOSED" => j \in OpenSlots'
    BY DEF OpenSlots, IsOpen
  <2>2. \A j \in Slots : state'[j] # "CLOSED" => fd'[j] \in Fds
    BY <2>1, <1>8
  <2>3. \A j \in OpenSlots' : j \in Slots /\ state'[j] # "CLOSED"
    BY DEF OpenSlots, IsOpen
  <2>. QED
    BY <2>2, <2>3, <1>2, <1>4, UpdateMaxFd
<1>10. connection_count' = Cardinality(OpenSlots') /\ connection_count' \in 0 .. NSlots
  <2>1. Cardinality(OpenSlots \cup {i}) = Cardinality(OpenSlots) + 1
    BY <1>3, OpenFinite, FS_AddElement
  <2>2. OpenSlots \cup {i} \subseteq Slots
    BY DEF OpenSlots
  <2>3. Cardinality(OpenSlots \cup {i}) <= NSlots
    BY <2>2, OpenFinite, FS_Subset
  <2>. QED
    BY <1>2, <1>3, <2>1, <2>3 DEF TableInv, FdConservation
<1>11. \A j, k \in OpenSlots' : fd'[j] = fd'[k] => j = k
  BY <1>3, <1>6, <1>7 DEF TableInv, FdConservation
<1>12. \A g \in Fds : owner'[g] # NoPeer => \E j \in OpenSlots' : fd'[j] = g
  <2>. SUFFICES ASSUME NEW g \in Fds, owner'[g] # NoPeer
                PROVE  \E j \in OpenSlots' : fd'[j] = g
    OBVIOUS
  <2>1. CASE g = f
    BY <2>1, <1>3, <1>7
  <2>2. CASE g # f
    <3>1. owner[g] # NoPeer
      BY <2>2, <1>2 DEF TableInv
    <3>2. PICK j \in OpenSlots : fd[j] = g
      BY <3>1 DEF TableInv, FdConservation
    <3>. QED
      BY <3>2, <1>3, <1>6
  <2>. QED
    BY <2>1, <2>2
<1>13. \A j \in OpenSlots' : addr'[j] = Ip[owner'[fd'[j]]] /\ addr'[j] \in Admitted
  BY <1>1, <1>3, <1>6, <1>7 DEF TableInv
<1>. QED
  BY <1>4, <1>5, <1>8, <1>9, <1>10, <1>11, <1>12, <1>13 DEF TableInv, FdConservation

\* A step that leaves the table and the descriptors alone.
LEMMA TableUnchanged ==
    ASSUME TableInv, UNCHANGED <<table, owner>>
    PROVE  TableInv'
BY DEF TableInv, FdConservation, OpenSlots, IsOpen, table

\* Once everything is closed the table is consistent.
LEMMA AllClosedKeepsTable ==
    ASSUME TableInv, AllClosed, UNCHANGED <<fd, addr, refused, max_fd>>
    PROVE  TableInv'
<1>1. OpenSlots' = {}
  BY DEF AllClosed, OpenSlots, IsOpen
<1>2. Cardinality({}) = 0
  BY FS_EmptySet
<1>. QED
  BY <1>1, <1>2, SlotsAssumption DEF TableInv, FdConservation, AllClosed

-----------------------------------------------------------------------------
(* The client IP lock. *)

LockOk(l) ==
    /\ l \in [is_locked : BOOLEAN, ip : Ips \cup {NoIp}, until : Nat]
    /\ l.is_locked => l.until <= now + LockTimeout /\ l.ip \in Admitted
    /\ ~l.is_locked => l = NoLock

\* Setting the lock for an admitted address keeps it within its bound.
LEMMA SetLockOk ==
    ASSUME now \in Nat, NEW l, LockOk(l), NEW ip \in Admitted
    PROVE  LockOk(set_client_lock(l, ip))
BY LockAssumption, PeersAssumption DEF LockOk, set_client_lock

\* So does on_client_connect, whatever it answers.
LEMMA ConnectLockOk ==
    ASSUME now \in Nat, LockOk(lock), NEW i, NEW ip \in Admitted
    PROVE  LockOk(on_client_connect(i, ip).lock)
<1>1. LockOk(NoLock)
  BY LockAssumption DEF LockOk, NoLock
<1>2. LockOk(set_client_lock(NoLock, ip)) /\ LockOk(set_client_lock(lock, ip))
  BY <1>1, SetLockOk
<1>. QED
  BY <1>1, <1>2 DEF on_client_connect

-----------------------------------------------------------------------------
(* The session: what the callbacks and the handler keep. *)

XvcType == [vector_buf : BOOLEAN, socket_fd : Fds \cup {NoFd, 0}, jtag_state : JtagStates, seen_tlr : BOOLEAN]

SessionInv ==
    /\ active \in Slots \cup {NoConn} /\ ActiveIsOpen
    /\ now \in Nat /\ LockOk(lock)
    /\ xvc \in XvcType /\ mpsse_state \in JtagStates
    /\ pc \in {"poll", "accept", "scan", "read", "write", "stopped", "killed"}
    /\ idx \in 1 .. NSlots + 1
    /\ read_fds \subseteq Fds /\ except_fds \subseteq Fds /\ g_running \in BOOLEAN
    /\ pc \in {"read", "write"} =>
         idx \in Slots /\ xvc.vector_buf /\ IsOpen(idx) /\ xvc.socket_fd = fd[idx]

NetInv ==
    /\ backlog \in Seq(Peers) /\ (pc = "accept" => backlog # <<>>)
    /\ wire \in [Peers -> Wire]
    /\ eof \in [Peers -> BOOLEAN] /\ oob \in [Peers -> BOOLEAN]

\* The invariant is the table's, the session's and the network's together.
LEMMA IInvParts == IInv <=> TableInv /\ SessionInv /\ NetInv
<1>1. ASSUME IInv PROVE TableInv
  BY <1>1 DEF IInv, TableInv, TypeOK, HandlerServesItsSlot
<1>2. ASSUME IInv PROVE SessionInv
  BY <1>2 DEF IInv, SessionInv, TypeOK, HandlerServesItsSlot, LockBounded, LockOk, XvcType, Handling
<1>3. ASSUME IInv PROVE NetInv
  BY <1>3 DEF IInv, NetInv, TypeOK
<1>4. ASSUME TableInv, SessionInv, NetInv PROVE TypeOK
  BY <1>4 DEF TypeOK, TableInv, SessionInv, NetInv, LockOk, XvcType, Handling
<1>5. ASSUME TableInv, SessionInv, NetInv PROVE IInv
  BY <1>4, <1>5 DEF IInv, TableInv, SessionInv, NetInv, HandlerServesItsSlot, LockBounded, LockOk, Handling
<1>. QED
  BY <1>1, <1>2, <1>3, <1>5

\* The context xvc_free leaves is of the context's type.
LEMMA NoContextType == NoContext \in XvcType
BY DEF NoContext, XvcType, JtagStates

\* The client of the running handler, and its command.
LEMMA HandlerPeerType ==
    ASSUME TableInv, SessionInv, NetInv, pc \in {"read", "write"}
    PROVE  /\ idx \in OpenSlots /\ HandlerPeer \in Peers /\ wire[HandlerPeer] \in Wire
           /\ wire[HandlerPeer].op = "shift" => Vector \in Vectors
<1>1. idx \in OpenSlots /\ xvc.socket_fd \in Fds /\ owner[xvc.socket_fd] # NoPeer
  BY DEF TableInv, SessionInv, FdConservation, OpenSlots, IsOpen
<1>2. HandlerPeer \in Peers
  BY <1>1 DEF TableInv, HandlerPeer
<1>3. wire[HandlerPeer] \in Wire
  BY <1>2 DEF NetInv
<1>4. \A w \in Wire : w.op = "shift" => w.tms \in Vectors
  BY DEF Wire, Commands, Queries
<1>. QED
  BY <1>1, <1>2, <1>3, <1>4 DEF Vector

\* A client that has sent nothing is in a legal state.
LEMMA QuietType == Quiet \in Wire
BY DEF Quiet, Wire

\* Closing a connection: the session's side.
LEMMA CloseKeepsSession ==
    ASSUME TableInv, SessionInv, NetInv, NEW i \in OpenSlots, NEW act \in {active, NoConn},
           tcp_server_close_connection(i, act), UNCHANGED now
    PROVE  /\ active' \in Slots \cup {NoConn} /\ ActiveIsOpen' /\ LockOk(lock)'
           /\ wire' \in [Peers -> Wire] /\ eof' \in [Peers -> BOOLEAN] /\ oob' \in [Peers -> BOOLEAN]
<1>1. /\ active' = (IF act = i THEN NoConn ELSE act)
      /\ lock' = (IF act = i THEN set_client_lock(lock, addr[i]) ELSE lock)
      /\ state' = [state EXCEPT ![i] = "CLOSED"]
      /\ Forget(owner[fd[i]])
  BY DEF tcp_server_close_connection, on_client_disconnect
<1>2. active' \in Slots \cup {NoConn} /\ ActiveIsOpen'
  BY <1>1 DEF SessionInv, TableInv, ActiveIsOpen, OpenSlots, NoConn, Slots
<1>3. LockOk(lock')
  <2>1. addr[i] \in Admitted
    BY DEF TableInv
  <2>2. LockOk(set_client_lock(lock, addr[i]))
    BY <2>1, SetLockOk DEF SessionInv
  <2>. QED
    BY <1>1, <2>2 DEF SessionInv
<1>4. LockOk(lock)'
  BY <1>3 DEF LockOk
<1>5. wire' \in [Peers -> Wire] /\ eof' \in [Peers -> BOOLEAN] /\ oob' \in [Peers -> BOOLEAN]
  BY <1>1, QuietType DEF Forget, NetInv
<1>. QED
  BY <1>2, <1>4, <1>5

\* on_client_data dropping the session of an open slot.
LEMMA DropKeeps ==
    ASSUME TableInv, SessionInv, NetInv, NEW i \in OpenSlots, DropSession(i),
           mpsse_state' \in JtagStates, pc # "accept",
           UNCHANGED <<read_fds, except_fds, g_running, now>>
    PROVE  TableInv' /\ SessionInv' /\ NetInv'
<1>1. /\ tcp_server_close_connection(i, NoConn) /\ UNCHANGED backlog
      /\ xvc' = NoContext /\ pc' = "scan" /\ idx' = i + 1
  BY DEF DropSession, tcp_server_close_connection
<1>2. TableInv'
  BY <1>1, CloseKeepsTable
<1>3. idx' \in 1 .. NSlots + 1
  BY <1>1, SlotsAssumption DEF OpenSlots, Slots
<1>4. SessionInv'
  BY <1>1, <1>3, CloseKeepsSession, NoContextType DEF SessionInv
<1>5. NetInv'
  BY <1>1, CloseKeepsSession DEF NetInv
<1>. QED
  BY <1>2, <1>4, <1>5

\* A command of the running handler that ends in a reply.
LEMMA ReplyKeeps ==
    ASSUME TableInv, SessionInv, NetInv, pc \in {"read", "write"},
           NEW x \in XvcType, x.vector_buf, x.socket_fd = xvc.socket_fd, NEW stay \in BOOLEAN,
           Reply(x, stay), mpsse_state' \in JtagStates,
           UNCHANGED <<read_fds, except_fds, g_running, now>>
    PROVE  TableInv' /\ SessionInv' /\ NetInv'
<1>1. CASE DropSession(idx)
  BY <1>1, DropKeeps, HandlerPeerType
<1>2. CASE xvc' = x /\ Replied(stay)
  <2>1. UNCHANGED <<table, owner, active, lock, backlog, eof, oob>>
    BY <1>2 DEF Replied
  <2>2. TableInv'
    BY <2>1, TableUnchanged
  <2>3. wire' \in [Peers -> Wire]
    BY <1>2, QuietType DEF Replied, NetInv
  <2>4. \/ pc' = "read" /\ idx' = idx
        \/ pc' = "scan" /\ idx' = idx + 1
    BY <1>2 DEF Replied, Return0
  <2>5. idx \in Slots /\ idx' \in 1 .. NSlots + 1
    BY <2>4, SlotsAssumption DEF SessionInv, Slots
  <2>6. LockOk(lock)' /\ ActiveIsOpen'
    BY <2>1 DEF SessionInv, LockOk, ActiveIsOpen, table
  <2>7. pc' \in {"read", "write"} =>
          idx' \in Slots /\ xvc'.vector_buf /\ IsOpen(idx)' /\ xvc'.socket_fd = fd'[idx']
    BY <1>2, <2>1, <2>4, <2>5 DEF SessionInv, IsOpen, table
  <2>8. SessionInv'
    BY <1>2, <2>1, <2>4, <2>5, <2>6, <2>7 DEF SessionInv
  <2>9. NetInv'
    BY <2>1, <2>3, <2>4 DEF NetInv
  <2>. QED
    BY <2>2, <2>8, <2>9
<1>. QED
  BY <1>1, <1>2 DEF Reply

\* The instance starts in the invariant.
LEMMA InitIInv == Init => IInv
<1>. SUFFICES ASSUME Init PROVE TableInv /\ SessionInv /\ NetInv
  BY IInvParts
<1>1. OpenSlots = {}
  BY DEF Init, OpenSlots, IsOpen
<1>2. TableInv
  BY <1>1, FS_EmptySet, SlotsAssumption, FdsAssumption DEF Init, TableInv, FdConservation
<1>3. LockOk(lock)
  BY LockAssumption DEF Init, LockOk, NoLock
<1>4. SessionInv
  BY <1>3, NoContextType, SlotsAssumption DEF Init, SessionInv, ActiveIsOpen, JtagStates
<1>5. NetInv
  BY QuietType DEF Init, NetInv
<1>. QED
  BY <1>2, <1>4, <1>5

\* Clients, the clock and signals.
LEMMA EnvKeeps ==
    ASSUME TableInv, SessionInv, NetInv, EnvNext
    PROVE  TableInv' /\ SessionInv' /\ NetInv'
<1>1. UNCHANGED server /\ UNCHANGED owner /\ g_running' \in BOOLEAN /\ now' \in Nat /\ now' >= now
  <2>1. CASE Tick
    BY <2>1 DEF Tick, SessionInv, net
  <2>2. CASE signal_handler
    <3>1. UNCHANGED server /\ UNCHANGED owner /\ g_running' = FALSE /\ now' = now
      BY <2>2, Zenon DEF signal_handler, net
    <3>2. now' \in Nat /\ now' >= now
      BY <3>1 DEF SessionInv
    <3>. QED
      BY <3>1, <3>2, Zenon
  <2>3. CASE \E p \in Peers : Connect(p) \/ SendStart(p) \/ SendRest(p) \/ ClientClose(p) \/ SendUrgent(p)
    BY <2>3 DEF Connect, SendStart, SendRest, ClientClose, SendUrgent, SessionInv
  <2>. QED
    BY <2>1, <2>2, <2>3 DEF EnvNext
<1>2. TableInv'
  BY <1>1, TableUnchanged DEF server
<1>3. LockOk(lock)'
  BY <1>1, LockAssumption DEF SessionInv, LockOk, server
<1>4. SessionInv'
  BY <1>1, <1>3 DEF SessionInv, ActiveIsOpen, IsOpen, server, table
<1>5. backlog' \in Seq(Peers) /\ (pc' = "accept" => backlog' # <<>>)
  <2>1. CASE UNCHANGED backlog
    BY <1>1, <2>1 DEF NetInv, server
  <2>2. ASSUME NEW p \in Peers, Connect(p) PROVE backlog' \in Seq(Peers) /\ backlog' # <<>>
    BY <2>2 DEF Connect, NetInv
  <2>. QED
    BY <2>1, <2>2 DEF EnvNext, SendStart, SendRest, ClientClose, SendUrgent, Tick, signal_handler, net
<1>6. wire' \in [Peers -> Wire] /\ eof' \in [Peers -> BOOLEAN] /\ oob' \in [Peers -> BOOLEAN]
  <2>1. [op |-> "partial", tms |-> <<>>] \in Wire
    BY DEF Wire
  <2>2. Commands \subseteq Wire
    BY DEF Wire
  <2>. QED
    BY <2>1, <2>2 DEF EnvNext, Connect, SendStart, SendRest, ClientClose, SendUrgent, Tick, signal_handler, NetInv, net
<1>. QED
  BY <1>2, <1>4, <1>5, <1>6 DEF NetInv

\* tcp_server_poll up to the loop over the clients.
LEMMA PollKeeps ==
    ASSUME TableInv, SessionInv, NetInv, Select \/ AcceptFails \/ AcceptRefuse \/ Accept
    PROVE  TableInv' /\ SessionInv' /\ NetInv'
<1>1. CASE Select
  <2>1. UNCHANGED <<table, active, lock, xvc, mpsse_state, g_running, now, net>>
    BY <1>1 DEF Select
  <2>2. TableInv'
    BY <2>1, TableUnchanged DEF net
  <2>3. LockOk(lock)' /\ ActiveIsOpen'
    BY <2>1 DEF SessionInv, LockOk, ActiveIsOpen, table
  <2>4. /\ pc' \in {"accept", "scan"} /\ (pc' = "accept" => backlog # <<>>)
        /\ idx' \in 1 .. NSlots + 1 /\ read_fds' \subseteq Fds /\ except_fds' \subseteq Fds
    BY <1>1, SlotsAssumption DEF Select, ListenReady
  <2>5. SessionInv'
    BY <2>1, <2>3, <2>4 DEF SessionInv
  <2>. QED
    BY <2>1, <2>2, <2>4, <2>5 DEF NetInv, net
<1>2. CASE AcceptFails \/ AcceptRefuse
  <2>1. /\ UNCHANGED <<table, active, lock, xvc, mpsse_state, idx, read_fds, except_fds, g_running, now>>
        /\ UNCHANGED <<owner, wire, eof, oob>>
        /\ pc = "accept" /\ pc' = "scan" /\ backlog' \in {backlog, Tail(backlog)}
    BY <1>2 DEF AcceptFails, AcceptRefuse, net
  <2>2. TableInv'
    BY <2>1, TableUnchanged
  <2>3. LockOk(lock)' /\ ActiveIsOpen'
    BY <2>1 DEF SessionInv, LockOk, ActiveIsOpen, table
  <2>4. SessionInv'
    BY <2>1, <2>3 DEF SessionInv
  <2>5. backlog' \in Seq(Peers)
    BY <2>1 DEF NetInv
  <2>. QED
    BY <2>1, <2>2, <2>4, <2>5 DEF NetInv
<1>3. CASE Accept
  <2>1. /\ UNCHANGED <<active, xvc, mpsse_state, idx, read_fds, except_fds, g_running, now, wire, eof, oob>>
        /\ pc = "accept" /\ pc' = "scan" /\ backlog' = Tail(backlog)
    BY <1>3 DEF Accept
  <2>2. backlog # <<>> /\ backlog \in Seq(Peers)
    BY <2>1 DEF NetInv
  <2>3. TableInv'
    BY <1>3, <2>2, AcceptKeepsTable
  <2>4. PICK i \in Slots : /\ lock' = on_client_connect(i, Ip[Head(backlog)]).lock
                           /\ state[i] = "CLOSED" /\ state' = [state EXCEPT ![i] = "CONNECTED"]
    BY <1>3 DEF Accept, find_free_slot, IsOpen
  <2>5. Ip[Head(backlog)] \in Admitted
    BY <1>3 DEF Accept, Allowed
  <2>6. LockOk(lock')
    BY <2>4, <2>5, ConnectLockOk DEF SessionInv
  <2>7. LockOk(lock)'
    BY <2>1, <2>6 DEF LockOk
  <2>8. ActiveIsOpen'
    BY <2>1, <2>4 DEF SessionInv, ActiveIsOpen, TableInv
  <2>9. SessionInv'
    BY <2>1, <2>7, <2>8 DEF SessionInv
  <2>10. NetInv'
    BY <2>1, <2>2 DEF NetInv
  <2>. QED
    BY <2>3, <2>9, <2>10
<1>. QED
  BY <1>1, <1>2, <1>3

\* The loop over the clients.
LEMMA ScanKeeps ==
    ASSUME TableInv, SessionInv, NetInv,
           \/ ScanDone
           \/ \E i \in Slots : ScanException(i) \/ ScanData(i) \/ ScanDataNoMemory(i)
    PROVE  TableInv' /\ SessionInv' /\ NetInv'
<1>1. CASE ScanDone
  <2>1. /\ UNCHANGED <<table, active, lock, xvc, mpsse_state, g_running, now, net>>
        /\ pc' = "poll" /\ idx' = 1 /\ read_fds' = {} /\ except_fds' = {}
    BY <1>1 DEF ScanDone
  <2>2. TableInv'
    BY <2>1, TableUnchanged DEF net
  <2>3. LockOk(lock)' /\ ActiveIsOpen'
    BY <2>1 DEF SessionInv, LockOk, ActiveIsOpen, table
  <2>4. SessionInv'
    BY <2>1, <2>3, SlotsAssumption DEF SessionInv
  <2>. QED
    BY <2>1, <2>2, <2>4 DEF NetInv, net
<1>2. ASSUME NEW i \in Slots, ScanException(i)
      PROVE  TableInv' /\ SessionInv' /\ NetInv'
  <2>1. /\ i \in OpenSlots /\ tcp_server_close_connection(i, active)
        /\ idx' = i + 1 /\ pc = "scan" /\ UNCHANGED backlog
        /\ UNCHANGED <<xvc, mpsse_state, pc, read_fds, except_fds, g_running, now>>
    BY <1>2 DEF ScanException, NextEvent, HasEvent, OpenSlots, tcp_server_close_connection
  <2>2. TableInv'
    BY <2>1, CloseKeepsTable
  <2>3. idx' \in 1 .. NSlots + 1
    BY <2>1, SlotsAssumption DEF Slots
  <2>4. SessionInv'
    BY <2>1, <2>3, CloseKeepsSession DEF SessionInv
  <2>5. NetInv'
    BY <2>1, CloseKeepsSession DEF NetInv
  <2>. QED
    BY <2>2, <2>4, <2>5
<1>3. ASSUME NEW i \in Slots, ScanDataNoMemory(i)
      PROVE  TableInv' /\ SessionInv' /\ NetInv'
  <2>1. /\ i \in OpenSlots /\ DropSession(i) /\ pc = "scan"
        /\ UNCHANGED <<mpsse_state, read_fds, except_fds, g_running, now>>
    BY <1>3 DEF ScanDataNoMemory, NextEvent, HasEvent, OpenSlots
  <2>2. mpsse_state' \in JtagStates
    BY <2>1 DEF SessionInv
  <2>. QED
    BY <2>1, <2>2, DropKeeps
<1>4. ASSUME NEW i \in Slots, ScanData(i)
      PROVE  TableInv' /\ SessionInv' /\ NetInv'
  <2>1. /\ IsOpen(i) /\ pc' = "read" /\ idx' = i
        /\ state' = [state EXCEPT ![i] = "ACTIVE"]
        /\ active' = (IF active = NoConn THEN i ELSE active)
        /\ xvc' = (IF NeedsInit(i) THEN XvcFresh(fd[i]) ELSE xvc)
        /\ UNCHANGED <<fd, addr, connection_count, max_fd, refused, lock, mpsse_state>>
        /\ UNCHANGED <<read_fds, except_fds, g_running, now, backlog, owner, wire, eof, oob>>
    BY <1>4 DEF ScanData, NextEvent, HasEvent, net
  <2>2. OpenSlots' = OpenSlots /\ state' \in [Slots -> {"CLOSED", "CONNECTED", "ACTIVE"}]
    BY <2>1 DEF OpenSlots, IsOpen, TableInv
  <2>3. TableInv'
    BY <2>1, <2>2 DEF TableInv, FdConservation
  <2>4. active' \in Slots \cup {NoConn} /\ ActiveIsOpen'
    BY <2>1 DEF SessionInv, ActiveIsOpen, TableInv
  <2>5. LockOk(lock)'
    BY <2>1 DEF SessionInv, LockOk
  <2>6. xvc' \in XvcType /\ xvc'.vector_buf /\ xvc'.socket_fd = fd'[i]
    <3>1. XvcFresh(fd[i]) \in XvcType
      BY DEF XvcFresh, XvcType, JtagStates, TableInv
    <3>. QED
      BY <2>1, <3>1 DEF NeedsInit, XvcFresh, SessionInv
  <2>7. SessionInv'
    BY <2>1, <2>2, <2>4, <2>5, <2>6, SlotsAssumption DEF SessionInv, IsOpen, TableInv, Slots
  <2>. QED
    BY <2>1, <2>3, <2>7 DEF NetInv
<1>. QED
  BY <1>1, <1>2, <1>3, <1>4

\* The handler's commands.
LEMMA HandlerKeeps ==
    ASSUME TableInv, SessionInv, NetInv,
           \/ ReadEof \/ HandleQuery \/ HandleInvalid
           \/ ShiftOversize \/ ShiftSkip \/ Shift \/ ShiftScanFails \/ WriteBlocks
    PROVE  TableInv' /\ SessionInv' /\ NetInv'
<1>1. pc \in {"read", "write"} /\ UNCHANGED <<read_fds, except_fds, g_running, now>>
  BY DEF ReadEof, HandleQuery, HandleInvalid, ShiftOversize, ShiftSkip, Shift, ShiftScanFails, WriteBlocks,
         Reading, Answering, Handling
<1>2. /\ idx \in OpenSlots /\ xvc \in XvcType /\ xvc.vector_buf /\ mpsse_state \in JtagStates
      /\ wire[HandlerPeer].op = "shift" => Vector \in Vectors
  BY <1>1, HandlerPeerType DEF SessionInv
<1>3. SeenTlr \in BOOLEAN
  BY DEF SeenTlr
<1>4. CASE ReadEof \/ HandleInvalid \/ ShiftOversize \/ ShiftScanFails
  <2>1. DropSession(idx) /\ mpsse_state' = mpsse_state
    BY <1>4 DEF ReadEof, HandleInvalid, ShiftOversize, ShiftScanFails
  <2>. QED
    BY <1>1, <1>2, <2>1, DropKeeps
<1>5. CASE HandleQuery
  <2>1. Reply(xvc, FALSE) /\ mpsse_state' = mpsse_state
    BY <1>5 DEF HandleQuery
  <2>. QED
    BY <1>1, <1>2, <2>1, ReplyKeeps
<1>6. CASE ShiftSkip
  <2>. DEFINE x == [xvc EXCEPT !.seen_tlr = SeenTlr]
  <2>1. Reply(x, Stays(x)) /\ mpsse_state' = mpsse_state
    BY <1>6 DEF ShiftSkip
  <2>2. x \in XvcType /\ x.vector_buf /\ x.socket_fd = xvc.socket_fd
    BY <1>2, <1>3 DEF XvcType
  <2>3. Stays(x) \in BOOLEAN
    BY DEF Stays
  <2>. HIDE DEF x
  <2>. QED
    BY <1>1, <1>2, <2>1, <2>2, <2>3, ReplyKeeps
<1>7. CASE Shift
  <2>1. /\ wire[HandlerPeer].op = "shift" /\ Reply(Walked, Stays(Walked))
        /\ mpsse_state' = jtag_walk(mpsse_next_state, mpsse_state, Vector)
    BY <1>7 DEF Shift, Answering, HandlerPeer
  <2>2. Vector \in Seq({0, 1})
    BY <1>2, <2>1, VectorsAssumption
  <2>3. mpsse_state' \in JtagStates
    BY <1>2, <2>1, <2>2, WalkType
  <2>4. Walked \in XvcType /\ Walked.vector_buf /\ Walked.socket_fd = xvc.socket_fd
    <3>1. jtag_walk(jtag_next_state, xvc.jtag_state, Vector) \in JtagStates
      BY <1>2, <2>2, WalkType DEF XvcType
    <3>. QED
      BY <1>2, <1>3, <3>1 DEF XvcType, Walked
  <2>5. Stays(Walked) \in BOOLEAN
    BY DEF Stays
  <2>. QED
    BY <1>1, <1>2, <2>1, <2>3, <2>4, <2>5, ReplyKeeps
<1>8. CASE WriteBlocks
  <2>1. /\ UNCHANGED <<table, owner>> /\ UNCHANGED <<active, lock, xvc, mpsse_state, idx, backlog, wire, eof, oob>>
        /\ pc = "read" /\ pc' = "write"
    BY <1>8 DEF WriteBlocks, net
  <2>2. TableInv'
    BY <2>1, TableUnchanged
  <2>3. LockOk(lock)' /\ ActiveIsOpen' /\ (IsOpen(idx) => IsOpen(idx)') /\ fd' = fd
    BY <1>1, <2>1 DEF SessionInv, LockOk, ActiveIsOpen, IsOpen, table
  <2>4. SessionInv'
    BY <1>1, <2>1, <2>3 DEF SessionInv
  <2>5. NetInv'
    BY <2>1 DEF NetInv
  <2>. QED
    BY <2>2, <2>4, <2>5
<1>. QED
  BY <1>4, <1>5, <1>6, <1>7, <1>8

\* The process ends.
LEMMA ExitKeeps ==
    ASSUME TableInv, SessionInv, NetInv, Stop \/ SelectFails \/ Sigpipe
    PROVE  TableInv' /\ SessionInv' /\ NetInv'
<1>1. /\ AllClosed /\ pc' \in {"stopped", "killed"}
      /\ UNCHANGED <<fd, addr, refused, max_fd, mpsse_state, idx, read_fds, except_fds, g_running, now>>
  BY DEF Stop, SelectFails, Sigpipe, tcp_server_stop
<1>2. TableInv'
  BY <1>1, AllClosedKeepsTable
<1>3. NetInv'
  BY <1>1, QuietType DEF NetInv, AllClosed
<1>4. active' = NoConn
  <2>1. active # NoConn => active \in OpenSlots
    BY DEF SessionInv, ActiveIsOpen, OpenSlots, IsOpen
  <2>. QED
    BY <2>1 DEF Stop, SelectFails, Sigpipe, tcp_server_stop
<1>5. LockOk(lock')
  <2>1. LockOk(NoLock)
    BY LockAssumption DEF LockOk, NoLock, SessionInv
  <2>2. active \in OpenSlots => LockOk(set_client_lock(lock, addr[active]))
    BY SetLockOk DEF SessionInv, TableInv
  <2>. QED
    BY <2>1, <2>2 DEF Stop, SelectFails, Sigpipe, tcp_server_stop, SessionInv
<1>6. LockOk(lock)'
  BY <1>1, <1>5 DEF LockOk
<1>7. xvc' \in XvcType
  BY NoContextType DEF Stop, SelectFails, Sigpipe, tcp_server_stop, SessionInv
<1>8. SessionInv'
  BY <1>1, <1>4, <1>6, <1>7 DEF SessionInv, ActiveIsOpen
<1>. QED
  BY <1>2, <1>3, <1>8

\* Every step keeps the invariant.
LEMMA NextKeeps == IInv /\ [Next]_vars => IInv'
<1>. SUFFICES ASSUME TableInv, SessionInv, NetInv, [Next]_vars
              PROVE  TableInv' /\ SessionInv' /\ NetInv'
  BY IInvParts, PTL
<1>1. CASE EnvNext
  BY <1>1, EnvKeeps
<1>2. CASE ServerNext
  BY <1>2, PollKeeps, ScanKeeps, HandlerKeeps, ExitKeeps DEF ServerNext
<1>3. CASE SelectFails \/ Sigpipe
  BY <1>3, ExitKeeps
<1>4. CASE UNCHANGED vars
  <2>1. UNCHANGED <<table, owner>> /\ UNCHANGED <<active, lock, xvc, mpsse_state, pc, idx>>
        /\ UNCHANGED <<read_fds, except_fds, g_running, now, backlog, wire, eof, oob>>
    BY <1>4 DEF vars, net
  <2>2. TableInv'
    BY <2>1, TableUnchanged
  <2>3. LockOk(lock)' /\ ActiveIsOpen' /\ (IsOpen(idx) => IsOpen(idx)') /\ fd' = fd
    BY <2>1 DEF SessionInv, LockOk, ActiveIsOpen, IsOpen, table
  <2>4. SessionInv'
    BY <2>1, <2>3 DEF SessionInv
  <2>5. NetInv'
    BY <2>1 DEF NetInv
  <2>. QED
    BY <2>2, <2>4, <2>5
<1>. QED
  BY <1>1, <1>2, <1>3, <1>4 DEF Next, Terminated

-----------------------------------------------------------------------------
(* The theorems. *)

\* Every reachable state of an instance satisfies the invariant.
LEMMA Invariance == Spec => []IInv
BY InitIInv, NextKeeps, PTL DEF Spec

\* Every variable keeps its type; connection_count stays within the table.
THEOREM TypeCorrect == Spec => []TypeOK
<1>1. IInv => TypeOK
  BY DEF IInv
<1>. QED
  BY <1>1, Invariance, PTL

\* No descriptor leaks, none is shared, connection_count is exact and select
\* covers every open connection, for any table size and any client behaviour.
THEOREM FdsConserved == Spec => []FdConservation
<1>1. IInv => FdConservation
  BY DEF IInv
<1>. QED
  BY <1>1, Invariance, PTL

\* active_xvc_conn never points to a closed slot.
THEOREM ActiveNeverDangles == Spec => []ActiveIsOpen
<1>1. IInv => ActiveIsOpen
  BY DEF IInv
<1>. QED
  BY <1>1, Invariance, PTL

\* The client IP lock never outlasts its timeout and never admits a blocked address.
THEOREM LockIsBounded == Spec => []LockBounded
<1>1. IInv => LockBounded
  BY DEF IInv
<1>. QED
  BY <1>1, Invariance, PTL

\* The handler reads from, and answers to, the client whose slot it runs for.
THEOREM HandlerServesSlot == Spec => []HandlerServesItsSlot
<1>1. IInv => HandlerServesItsSlot
  BY DEF IInv
<1>. QED
  BY <1>1, Invariance, PTL

\* Once they agree, the tracker and the adapter part only at a new session or a
\* failed scan.
THEOREM SyncIsPreserved == Spec => SyncPreserved
<1>. DEFINE Sync == /\ Handling /\ xvc.jtag_state = mpsse_state
                    /\ pc' \in {"read", "write", "scan"} /\ xvc'.vector_buf
                    => xvc'.jtag_state = mpsse_state'
<1>1. ASSUME IInv, [Next]_vars PROVE [Sync]_vars
  <2>. SUFFICES ASSUME Next, Handling, xvc.jtag_state = mpsse_state,
                       pc' \in {"read", "write", "scan"}, xvc'.vector_buf
                PROVE  xvc'.jtag_state = mpsse_state'
    BY <1>1
  <2>1. ~DropSession(idx)
    BY DEF DropSession, NoContext
  <2>2. CASE EnvNext
    BY <2>2 DEF EnvNext, Connect, SendStart, SendRest, ClientClose, SendUrgent, Tick, signal_handler, server
  <2>3. CASE HandleQuery \/ WriteBlocks
    BY <2>1, <2>3 DEF HandleQuery, WriteBlocks, Reply
  <2>4. CASE ShiftSkip
    BY <1>1, <2>1, <2>4 DEF ShiftSkip, Reply, IInv, TypeOK
  <2>5. CASE Shift
    <3>1. xvc' = Walked /\ mpsse_state' = jtag_walk(mpsse_next_state, mpsse_state, Vector)
      BY <2>1, <2>5 DEF Shift, Reply
    <3>2. Walked.jtag_state = jtag_walk(jtag_next_state, xvc.jtag_state, Vector)
      BY <1>1 DEF Walked, IInv, TypeOK
    <3>. QED
      BY <3>1, <3>2, TablesAgree
  <2>6. ~(ReadEof \/ HandleInvalid \/ ShiftOversize \/ ShiftScanFails)
    BY <2>1 DEF ReadEof, HandleInvalid, ShiftOversize, ShiftScanFails
  <2>7. ~(Select \/ AcceptFails \/ AcceptRefuse \/ Accept \/ ScanDone)
    BY DEF Select, AcceptFails, AcceptRefuse, Accept, ScanDone, Handling
  <2>8. ~\E i \in Slots : ScanException(i) \/ ScanData(i) \/ ScanDataNoMemory(i)
    BY DEF ScanException, ScanData, ScanDataNoMemory, Handling
  <2>9. ~(Stop \/ SelectFails \/ Sigpipe \/ Terminated)
    BY DEF Stop, SelectFails, Sigpipe, Terminated, Exited, tcp_server_stop, Handling
  <2>. QED
    BY <2>2, <2>3, <2>4, <2>5, <2>6, <2>7, <2>8, <2>9 DEF Next, ServerNext
<1>. QED
  BY <1>1, Invariance, PTL DEF Spec, SyncPreserved

\* A vector with five ones in a row that is scanned and answered brings tracker and
\* adapter together, however far they had drifted apart.
THEOREM ResetAlwaysResyncs == Spec => ResetResyncs
<1>. DEFINE Resync == Shift /\ HoldsReset(Vector) /\ xvc'.vector_buf => xvc'.jtag_state = mpsse_state'
<1>1. ASSUME IInv, [Next]_vars PROVE [Resync]_vars
  <2>. SUFFICES ASSUME Shift, HoldsReset(Vector), xvc'.vector_buf
                PROVE  xvc'.jtag_state = mpsse_state'
    OBVIOUS
  <2>1. ~DropSession(idx)
    BY DEF DropSession, NoContext
  <2>2. /\ pc \in {"read", "write"} /\ wire[HandlerPeer].op = "shift" /\ xvc' = Walked
        /\ mpsse_state' = jtag_walk(mpsse_next_state, mpsse_state, Vector)
    BY <2>1 DEF Shift, Answering, Handling, Reply, HandlerPeer
  <2>3. Vector \in Seq({0, 1}) /\ xvc.jtag_state \in JtagStates /\ mpsse_state \in JtagStates
    BY <1>1, <2>2, IInvParts, HandlerPeerType, VectorsAssumption DEF SessionInv, XvcType
  <2>4. Walked.jtag_state = jtag_walk(jtag_next_state, xvc.jtag_state, Vector)
    BY <1>1 DEF Walked, IInv, TypeOK
  <2>5. jtag_walk(jtag_next_state, xvc.jtag_state, Vector) = jtag_walk(jtag_next_state, mpsse_state, Vector)
    BY <2>3, ResetJoins
  <2>. QED
    BY <2>2, <2>4, <2>5, TablesAgree
<1>. QED
  BY <1>1, Invariance, PTL DEF Spec, ResetResyncs

\* A signal changes only g_running, nothing else touches it, and an ended process
\* stays ended.
LEMMA ProcessStep ==
    ASSUME Next
    PROVE  /\ Exited => Exited'
           /\ \/ UNCHANGED g_running
              \/ g_running /\ g_running' = FALSE /\ ~Exited /\ UNCHANGED <<server, net>>
<1>1. CASE EnvNext
  BY <1>1 DEF EnvNext, Connect, SendStart, SendRest, ClientClose, SendUrgent, Tick, signal_handler, server, Exited
<1>2. CASE Select \/ AcceptFails \/ AcceptRefuse \/ Accept \/ ScanDone
  BY <1>2 DEF Select, AcceptFails, AcceptRefuse, Accept, ScanDone, Exited
<1>3. CASE \E i \in Slots : ScanException(i) \/ ScanData(i) \/ ScanDataNoMemory(i)
  BY <1>3 DEF ScanException, ScanData, ScanDataNoMemory, Exited
<1>4. CASE ReadEof \/ HandleQuery \/ HandleInvalid \/ WriteBlocks
  BY <1>4 DEF ReadEof, HandleQuery, HandleInvalid, WriteBlocks, Reading, Answering, Handling, Exited
<1>5. CASE ShiftOversize \/ ShiftSkip \/ Shift \/ ShiftScanFails
  BY <1>5 DEF ShiftOversize, ShiftSkip, Shift, ShiftScanFails, Reading, Answering, Handling, Exited
<1>6. CASE Stop \/ SelectFails \/ Sigpipe \/ Terminated
  BY <1>6 DEF Stop, SelectFails, Sigpipe, Terminated, tcp_server_stop, Exited, vars, server
<1>. QED
  BY <1>1, <1>2, <1>3, <1>4, <1>5, <1>6 DEF Next, ServerNext

\* Seen from its parent, the server never does what InstanceManager does not expect
\* of a child: the safety part of ImplementsChild.
THEOREM InstanceIsChild == Spec => Child!Init /\ [][Child!Next]_(Child!vars)
<1>. DEFINE st == IF Exited THEN "zombie" ELSE IF Blocked THEN "hang" ELSE "run"
<1>1. Init => Child!Init
  BY DEF Init, Child!Init, Exited, Blocked, Handling
<1>2. ASSUME [Next]_vars PROVE [Child!Next]_(Child!vars)
  <2>1. CASE UNCHANGED vars
    <3>1. UNCHANGED <<pc, wire, eof, owner, xvc, g_running>>
      BY <2>1 DEF vars, server, net
    <3>. QED
      BY <3>1 DEF Child!vars, Exited, Blocked, Handling, HandlerPeer
  <2>2. CASE Next
    <3>1. st \in {"run", "hang", "zombie"} /\ st' \in {"run", "hang", "zombie"}
      OBVIOUS
    <3>2. Exited => Exited'
      BY <2>2, ProcessStep
    <3>3. st = "zombie" => st' = "zombie"
      BY <3>2
    <3>4. CASE UNCHANGED g_running
      BY <3>1, <3>3, <3>4 DEF Child!Next, Child!Stops, Child!Dies, Child!Hangs, Child!GoesOn, Child!vars
    <3>5. CASE g_running /\ g_running' = FALSE /\ ~Exited /\ UNCHANGED <<server, net>>
      <4>1. UNCHANGED <<pc, wire, eof, owner, xvc>>
        BY <3>5 DEF server, net
      <4>2. UNCHANGED st
        BY <4>1 DEF Exited, Blocked, Handling, HandlerPeer
      <4>. QED
        BY <3>5, <4>2 DEF Child!Next, Child!Told, Child!vars
    <3>. QED
      BY <2>2, <3>4, <3>5, ProcessStep
  <2>. QED
    BY <1>2, <2>1, <2>2
<1>. QED
  BY <1>1, <1>2, PTL DEF Spec
-----------------------------------------------------------------------------
(* The snapshots of select. *)

\* A client has one connection at a time: queued once, or behind one descriptor.
OneConnectionEach ==
    /\ \A f, g \in Fds : owner[f] # NoPeer /\ owner[f] = owner[g] => f = g
    /\ \A j, k \in 1 .. Len(backlog) : backlog[j] = backlog[k] => j = k
    /\ \A f \in Fds, k \in 1 .. Len(backlog) : owner[f] # backlog[k]

\* The slots the client loop has not visited yet in this round.
Ahead(i) == i \in OpenSlots /\ i >= idx /\ (pc \in {"read", "write"} => i # idx)

\* The inductive form of SnapshotIsFresh: the bits stay fresh while the handler runs
\* for another slot, and before accept every bit belongs to an open descriptor, so
\* that the descriptor accept returns has none.
FreshAhead ==
    /\ pc \in {"accept", "scan", "read", "write"} =>
         \A i \in Slots : Ahead(i) /\ fd[i] \in read_fds => Readable(owner[fd[i]])
    /\ pc = "accept" => \A f \in read_fds : owner[f] # NoPeer

\* What a step may do to the queue and to the descriptors' owners.
LEMMA OwnersStep ==
    ASSUME TableInv, SessionInv, NetInv, Next
    PROVE  \/ UNCHANGED owner /\ (UNCHANGED backlog \/ (backlog # <<>> /\ backlog' = Tail(backlog)))
           \/ UNCHANGED owner /\ \E p \in Peers : Connect(p)
           \/ backlog # <<>> /\ backlog' = Tail(backlog)
              /\ \E f \in Fds : owner' = [owner EXCEPT ![f] = Head(backlog)]
           \/ UNCHANGED backlog /\ \E f \in Fds : owner' = [owner EXCEPT ![f] = NoPeer]
           \/ AllClosed
<1>1. CASE EnvNext
  BY <1>1 DEF EnvNext, Connect, SendStart, SendRest, ClientClose, SendUrgent, Tick, signal_handler, net
<1>2. CASE Select \/ ScanDone \/ WriteBlocks \/ \E i \in Slots : ScanData(i)
  BY <1>2 DEF Select, ScanDone, WriteBlocks, ScanData, net
<1>3. CASE AcceptFails \/ AcceptRefuse \/ Accept
  <2>1. backlog # <<>>
    BY <1>3 DEF AcceptFails, AcceptRefuse, Accept, NetInv
  <2>. QED
    BY <1>3, <2>1 DEF AcceptFails, AcceptRefuse, Accept, net
<1>4. ASSUME NEW i \in OpenSlots, NEW act, tcp_server_close_connection(i, act)
      PROVE  UNCHANGED backlog /\ \E f \in Fds : owner' = [owner EXCEPT ![f] = NoPeer]
  BY <1>4 DEF tcp_server_close_connection, TableInv, FdConservation
<1>5. ASSUME NEW i \in OpenSlots, DropSession(i)
      PROVE  UNCHANGED backlog /\ \E f \in Fds : owner' = [owner EXCEPT ![f] = NoPeer]
  BY <1>4, <1>5 DEF DropSession
<1>6. CASE \E i \in Slots : ScanException(i) \/ ScanDataNoMemory(i)
  BY <1>4, <1>5, <1>6 DEF ScanException, ScanDataNoMemory, NextEvent, HasEvent, OpenSlots
<1>7. CASE ReadEof \/ HandleQuery \/ HandleInvalid \/ ShiftOversize \/ ShiftSkip \/ Shift \/ ShiftScanFails
  <2>1. idx \in OpenSlots
    BY <1>7, HandlerPeerType
       DEF ReadEof, HandleQuery, HandleInvalid, ShiftOversize, ShiftSkip, Shift, ShiftScanFails,
           Reading, Answering, Handling
  <2>2. DropSession(idx) \/ UNCHANGED <<owner, backlog>>
    BY <1>7 DEF ReadEof, HandleQuery, HandleInvalid, ShiftOversize, ShiftSkip, Shift, ShiftScanFails,
                Reply, Replied
  <2>. QED
    BY <1>5, <2>1, <2>2
<1>8. CASE Stop \/ SelectFails \/ Sigpipe
  BY <1>8 DEF Stop, SelectFails, Sigpipe, tcp_server_stop
<1>9. CASE Terminated
  BY <1>9 DEF Terminated, vars, net
<1>. QED
  BY <1>1, <1>2, <1>3, <1>6, <1>7, <1>8, <1>9 DEF Next, ServerNext

\* A client keeps to one connection: Connect asks for it, accept moves it on.
LEMMA OneConnectionStep ==
    ASSUME TableInv, SessionInv, NetInv, OneConnectionEach, Next
    PROVE  OneConnectionEach'
<1>. USE DEF OneConnectionEach
<1>1. backlog \in Seq(Peers) /\ NoPeer \notin Peers /\ owner \in [Fds -> Peers \cup {NoPeer}]
  BY PeersAssumption DEF NetInv, TableInv
<1>2. CASE UNCHANGED owner /\ UNCHANGED backlog
  BY <1>2
<1>3. CASE UNCHANGED owner /\ backlog # <<>> /\ backlog' = Tail(backlog)
  BY <1>1, <1>3
<1>4. ASSUME UNCHANGED owner, NEW p \in Peers, Connect(p)
      PROVE  OneConnectionEach'
  BY <1>1, <1>4 DEF Connect, Queued, Accepted
<1>5. ASSUME backlog # <<>>, backlog' = Tail(backlog), NEW f \in Fds, owner' = [owner EXCEPT ![f] = Head(backlog)]
      PROVE  OneConnectionEach'
  <2>1. Head(backlog) = backlog[1] /\ 1 \in 1 .. Len(backlog)
    BY <1>1, <1>5
  <2>2. \A k \in 1 .. Len(backlog') : backlog'[k] = backlog[k + 1] /\ k + 1 \in 1 .. Len(backlog) /\ k + 1 # 1
    BY <1>1, <1>5
  <2>3. \A g \in Fds : owner'[g] = IF g = f THEN backlog[1] ELSE owner[g]
    BY <1>1, <1>5, <2>1
  <2>. QED
    BY <2>1, <2>2, <2>3
<1>6. ASSUME UNCHANGED backlog, NEW f \in Fds, owner' = [owner EXCEPT ![f] = NoPeer]
      PROVE  OneConnectionEach'
  BY <1>1, <1>6
<1>7. CASE AllClosed
  BY <1>7 DEF AllClosed
<1>. QED
  BY <1>2, <1>3, <1>4, <1>5, <1>6, <1>7, OwnersStep

\* Closing a slot takes nothing from another slot's client.
LEMMA CloseSparesOthers ==
    ASSUME TableInv, OneConnectionEach, NetInv, NEW i \in OpenSlots, NEW act,
           tcp_server_close_connection(i, act)
    PROVE  \A j \in OpenSlots' : /\ j \in OpenSlots /\ j # i /\ fd'[j] = fd[j]
                                 /\ Readable(owner[fd[j]]) => Readable(owner[fd[j]])'
<1>1. /\ fd' = [fd EXCEPT ![i] = NoFd] /\ state' = [state EXCEPT ![i] = "CLOSED"]
      /\ owner' = [owner EXCEPT ![fd[i]] = NoPeer] /\ Forget(owner[fd[i]])
  BY DEF tcp_server_close_connection
<1>2. OpenSlots' = OpenSlots \ {i} /\ OpenSlots \subseteq Slots
  BY <1>1 DEF TableInv, OpenSlots, IsOpen
<1>. SUFFICES ASSUME NEW j \in OpenSlots, j # i
              PROVE  fd'[j] = fd[j] /\ (Readable(owner[fd[j]]) => Readable(owner[fd[j]])')
  BY <1>2
<1>3. fd[j] \in Fds /\ fd[i] \in Fds /\ fd[j] # fd[i] /\ owner[fd[j]] # NoPeer /\ fd'[j] = fd[j]
  BY <1>1, <1>2 DEF TableInv, FdConservation
<1>4. owner[fd[j]] # owner[fd[i]] /\ owner'[fd'[j]] = owner[fd[j]] /\ owner[fd[j]] \in Peers
  BY <1>1, <1>3 DEF OneConnectionEach, TableInv
<1>5. wire'[owner[fd[j]]] = wire[owner[fd[j]]] /\ eof'[owner[fd[j]]] = eof[owner[fd[j]]]
  BY <1>1, <1>4 DEF Forget, NetInv
<1>. QED
  BY <1>3, <1>4, <1>5 DEF Readable

\* What clients do never makes a readable socket unreadable.
LEMMA EnvKeepsReadable ==
    ASSUME NetInv, EnvNext, NEW p \in Peers, Readable(p)
    PROVE  Readable(p)'
<1>1. \A c \in Commands : c.op # "none"
  BY DEF Commands, Queries
<1>. QED
  BY <1>1 DEF EnvNext, Connect, SendStart, SendRest, ClientClose, SendUrgent, Tick, signal_handler,
              Readable, NetInv, net

\* A slot whose session is dropped or whose connection is closed is behind the loop,
\* and the slots ahead of it were ahead before.
LEMMA CloseKeepsFresh ==
    ASSUME TableInv, NetInv, OneConnectionEach, FreshAhead, idx \in Nat, pc \in {"scan", "read", "write"},
           NEW i \in OpenSlots, NEW act, tcp_server_close_connection(i, act),
           i >= idx, pc' = "scan", idx' = i + 1, UNCHANGED read_fds
    PROVE  FreshAhead'
<1>. SUFFICES ASSUME NEW j \in Slots, Ahead(j)', fd'[j] \in read_fds'
              PROVE  Readable(owner[fd[j]])'
  BY DEF FreshAhead
<1>1. i \in Nat /\ j \in Nat
  BY SlotsAssumption DEF OpenSlots, Slots
<1>2. /\ j \in OpenSlots' /\ j >= i + 1
  BY DEF Ahead
<1>3. j \in OpenSlots /\ fd'[j] = fd[j] /\ (Readable(owner[fd[j]]) => Readable(owner[fd[j]])')
  BY <1>2, CloseSparesOthers
<1>4. Ahead(j)
  BY <1>1, <1>2, <1>3 DEF Ahead
<1>. QED
  BY <1>3, <1>4 DEF FreshAhead

\* Every step keeps the bits ahead of the loop fresh.
LEMMA FreshStep ==
    ASSUME TableInv, SessionInv, NetInv, OneConnectionEach, FreshAhead, Next
    PROVE  FreshAhead'
<1>0. /\ idx \in Nat /\ \A i \in Slots : i \in Nat
      /\ \A i \in OpenSlots : i \in Slots /\ fd[i] \in Fds /\ owner[fd[i]] \in Peers /\ owner[fd[i]] # NoPeer
  BY SlotsAssumption DEF SessionInv, TableInv, FdConservation, OpenSlots, Slots
<1>1. CASE EnvNext
  <2>1. UNCHANGED server /\ UNCHANGED owner
    BY <1>1 DEF EnvNext, Connect, SendStart, SendRest, ClientClose, SendUrgent, Tick, signal_handler, net
  <2>2. UNCHANGED <<fd, state, pc, idx, read_fds>> /\ OpenSlots' = OpenSlots
    BY <2>1 DEF server, table, OpenSlots, IsOpen
  <2>3. \A p \in Peers : Readable(p) => Readable(p)'
    BY <1>1, EnvKeepsReadable
  <2>4. \A i \in Slots : Ahead(i)' => Ahead(i)
    BY <2>2 DEF Ahead
  <2>5. \A i \in OpenSlots : Readable(owner[fd[i]]) => Readable(owner[fd[i]])'
    BY <1>0, <2>1, <2>2, <2>3
  <2>. QED
    BY <2>1, <2>2, <2>4, <2>5 DEF FreshAhead, Ahead
<1>2. CASE Select
  <2>1. /\ read_fds' = {f \in Fds \cap Polled : Readable(owner[f])} /\ pc' \in {"accept", "scan"}
        /\ UNCHANGED <<table, net>>
    BY <1>2 DEF Select
  <2>2. \A i \in Slots : fd'[i] \in read_fds' => Readable(owner[fd[i]])'
    BY <2>1 DEF table, net, Readable
  <2>3. \A f \in read_fds' : owner'[f] # NoPeer
    BY <1>0, <2>1 DEF Polled, net
  <2>. QED
    BY <2>2, <2>3 DEF FreshAhead
<1>3. CASE AcceptFails \/ AcceptRefuse
  <2>1. /\ UNCHANGED <<table, idx, read_fds, owner, wire, eof>> /\ pc = "accept" /\ pc' = "scan"
    BY <1>3 DEF AcceptFails, AcceptRefuse, net
  <2>. QED
    BY <2>1 DEF FreshAhead, Ahead, OpenSlots, IsOpen, Readable, table
<1>4. CASE Accept
  <2>1. /\ UNCHANGED <<idx, read_fds, wire, eof>> /\ pc = "accept" /\ pc' = "scan"
    BY <1>4 DEF Accept
  <2>2. PICK f \in Fds, i \in Slots :
          /\ owner[f] = NoPeer /\ state[i] = "CLOSED"
          /\ owner' = [owner EXCEPT ![f] = Head(backlog)] /\ fd' = [fd EXCEPT ![i] = f]
          /\ state' = [state EXCEPT ![i] = "CONNECTED"]
    BY <1>4 DEF Accept, FreeFd, find_free_slot, IsOpen
  <2>3. f \notin read_fds
    BY <2>1, <2>2 DEF FreshAhead
  <2>4. ASSUME NEW j \in Slots, Ahead(j)', fd'[j] \in read_fds' PROVE Readable(owner[fd[j]])'
    <3>1. j # i
      BY <2>1, <2>2, <2>3, <2>4 DEF TableInv
    <3>2. j \in OpenSlots /\ fd'[j] = fd[j]
      BY <2>2, <2>4, <3>1 DEF Ahead, OpenSlots, IsOpen, TableInv
    <3>3. owner'[fd'[j]] = owner[fd[j]]
      BY <1>0, <2>2, <3>2 DEF TableInv
    <3>4. Ahead(j) /\ Readable(owner[fd[j]])
      BY <2>1, <2>4, <3>2 DEF Ahead, FreshAhead
    <3>. QED
      BY <2>1, <3>3, <3>4 DEF Readable
  <2>. QED
    BY <2>1, <2>4 DEF FreshAhead
<1>5. CASE ScanDone \/ Stop \/ SelectFails \/ Sigpipe
  BY <1>5 DEF ScanDone, Stop, SelectFails, Sigpipe, tcp_server_stop, FreshAhead
<1>6. ASSUME NEW i \in Slots, ScanException(i) \/ ScanDataNoMemory(i) PROVE FreshAhead'
  <2>1. /\ i \in OpenSlots /\ i >= idx /\ pc = "scan" /\ pc' = "scan" /\ idx' = i + 1 /\ UNCHANGED read_fds
        /\ \E act : tcp_server_close_connection(i, act)
    BY <1>6 DEF ScanException, ScanDataNoMemory, DropSession, NextEvent, HasEvent, OpenSlots
  <2>. QED
    BY <1>0, <2>1, CloseKeepsFresh
<1>7. ASSUME NEW i \in Slots, ScanData(i) PROVE FreshAhead'
  <2>1. /\ i >= idx /\ pc = "scan" /\ pc' = "read" /\ idx' = i
        /\ state' = [state EXCEPT ![i] = "ACTIVE"] /\ state[i] # "CLOSED"
        /\ UNCHANGED <<fd, read_fds, owner, wire, eof>>
    BY <1>7 DEF ScanData, NextEvent, HasEvent, IsOpen, net
  <2>2. OpenSlots' = OpenSlots
    BY <2>1 DEF OpenSlots, IsOpen, TableInv
  <2>3. \A j \in Slots : Ahead(j)' => Ahead(j)
    BY <1>0, <2>1, <2>2 DEF Ahead
  <2>. QED
    BY <2>1, <2>3 DEF FreshAhead, Readable
<1>8. CASE ReadEof \/ HandleQuery \/ HandleInvalid \/ ShiftOversize \/ ShiftSkip \/ Shift \/ ShiftScanFails
  <2>1. pc \in {"read", "write"} /\ UNCHANGED read_fds
    BY <1>8 DEF ReadEof, HandleQuery, HandleInvalid, ShiftOversize, ShiftSkip, Shift, ShiftScanFails,
                Reading, Answering, Handling
  <2>2. idx \in OpenSlots /\ HandlerPeer = owner[fd[idx]]
    BY <2>1, HandlerPeerType DEF SessionInv, HandlerPeer
  <2>3. DropSession(idx) \/ \E stay \in BOOLEAN : Replied(stay)
    BY <1>8 DEF ReadEof, HandleQuery, HandleInvalid, ShiftOversize, ShiftSkip, Shift, ShiftScanFails,
                Reply, Stays
  <2>4. CASE DropSession(idx)
    <3>1. tcp_server_close_connection(idx, NoConn) /\ pc' = "scan" /\ idx' = idx + 1
      BY <2>4 DEF DropSession
    <3>. QED
      BY <1>0, <2>1, <2>2, <3>1, CloseKeepsFresh
  <2>5. ASSUME NEW stay \in BOOLEAN, Replied(stay) PROVE FreshAhead'
    <3>1. /\ UNCHANGED <<fd, state, owner, eof>> /\ wire' = [wire EXCEPT ![HandlerPeer] = Quiet]
          /\ \/ pc' = "read" /\ idx' = idx
             \/ pc' = "scan" /\ idx' = idx + 1
      BY <2>1, <2>5 DEF Replied, Return0, table
    <3>2. OpenSlots' = OpenSlots
      BY <3>1 DEF OpenSlots, IsOpen
    <3>3. \A j \in Slots : Ahead(j)' => Ahead(j) /\ j # idx /\ j \in OpenSlots
      BY <1>0, <2>1, <2>2, <3>1, <3>2 DEF Ahead
    <3>4. \A j \in OpenSlots : j # idx => owner[fd[j]] # HandlerPeer
      BY <1>0, <2>2 DEF OneConnectionEach, TableInv, FdConservation
    <3>5. \A j \in OpenSlots : j # idx => wire'[owner[fd[j]]] = wire[owner[fd[j]]]
      BY <1>0, <3>1, <3>4 DEF NetInv
    <3>6. \A j \in OpenSlots : j # idx /\ Readable(owner[fd[j]]) => Readable(owner[fd[j]])'
      BY <3>1, <3>5 DEF Readable
    <3>. QED
      BY <2>1, <3>1, <3>3, <3>6 DEF FreshAhead
  <2>. QED
    BY <2>3, <2>4, <2>5
<1>9. CASE WriteBlocks
  <2>1. UNCHANGED <<fd, state, idx, read_fds, owner, wire, eof>> /\ pc = "read" /\ pc' = "write"
    BY <1>9 DEF WriteBlocks, table, net
  <2>. QED
    BY <2>1 DEF FreshAhead, Ahead, OpenSlots, IsOpen, Readable
<1>10. CASE Terminated
  BY <1>10 DEF Terminated, Exited, FreshAhead, vars
<1>. QED
  BY <1>1, <1>2, <1>3, <1>4, <1>5, <1>6, <1>7, <1>8, <1>9, <1>10 DEF Next, ServerNext

\* No descriptor set of select is used where it is stale: a slot that the client loop
\* serves has input, for any number of slots, although accept and closes come after
\* select and descriptors are reused.
THEOREM SnapshotsAreFresh == Spec => []SnapshotIsFresh
<1>. DEFINE Fresh == OneConnectionEach /\ FreshAhead
<1>1. Init => Fresh
  BY DEF Init, OneConnectionEach, FreshAhead
<1>2. IInv /\ Fresh /\ [Next]_vars => Fresh'
  <2>. SUFFICES ASSUME TableInv, SessionInv, NetInv, Fresh, [Next]_vars
                PROVE  Fresh'
    BY IInvParts
  <2>1. CASE Next
    BY <2>1, OneConnectionStep, FreshStep
  <2>2. CASE UNCHANGED vars
    BY <2>2 DEF vars, table, net, OneConnectionEach, FreshAhead, Ahead, OpenSlots, IsOpen, Readable
  <2>. QED
    BY <2>1, <2>2
<1>3. Fresh => SnapshotIsFresh
  BY DEF FreshAhead, SnapshotIsFresh, Ahead, OpenSlots
<1>. HIDE DEF Fresh
<1>. QED
  BY <1>1, <1>2, <1>3, Invariance, PTL DEF Spec
=============================================================================
