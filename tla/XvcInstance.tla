---------------------------- MODULE XvcInstance ----------------------------
(***************************************************************************)
(* One instance process of the server, from its first poll to its exit:    *)
(* the select loop and connection table of tcp_server.c, the connection    *)
(* callbacks and the client IP lock of main.c, and the XVC command handler *)
(* of xvc_protocol.c.  The process is single threaded; what it interleaves *)
(* with is its environment: clients that connect, send commands (possibly  *)
(* piecemeal), send urgent data or close at any time, the clock, signals.  *)
(*                                                                         *)
(* The handler blocks: once xvc_handle has been entered it reads from its  *)
(* socket until the command is whole, the client closes, or the loop ends, *)
(* and it writes an answer until the client has taken it or closes.        *)
(***************************************************************************)
EXTENDS Integers, FiniteSets, JtagTap

CONSTANTS
    NSlots,         \* MAX_CONNECTIONS, the size of the connection table
    Fds,            \* descriptors accept can return
    ListenFd,       \* the listening socket, opened before any of Fds
    Peers,          \* clients; one TCP connection each at a time
    Ips, Ip,        \* client addresses, and the address of each client
    Admitted,       \* the addresses whitelist_check does not block
    NoPeer, NoIp,   \* owner of a closed descriptor; an unset address
    LockTimeout,    \* client_lock_timeout, 0 = locking disabled
    XvcBufferSize,  \* xvc_buffer_size of the configuration, in bytes
    Ops, Vectors,   \* the commands clients send and the TMS vectors they shift
    UrgentPeers,    \* bound: the clients that may send urgent data
    MaxTime         \* bound: the clock stops there

Slots == 1 .. NSlots
NoConn == 0         \* active_xvc_conn == NULL
NoFd == -1

ASSUME SlotsAssumption == NSlots \in Nat \ {0}
ASSUME FdsAssumption == Fds \subseteq Nat \ {0} /\ ListenFd \in Nat /\ \A f \in Fds : ListenFd < f
ASSUME PeersAssumption == NoPeer \notin Peers /\ NoIp \notin Ips
                          /\ Ip \in [Peers -> Ips] /\ Admitted \subseteq Ips
ASSUME LockAssumption == LockTimeout \in Nat /\ MaxTime \in Nat /\ XvcBufferSize \in Int
ASSUME VectorsAssumption == Vectors \subseteq Seq({0, 1})

VARIABLES
    \* tcp_server_t: the connection table, field by field
    fd, state, addr, connection_count, max_fd,
    \* instance_ctx_t
    active,         \* active_xvc_conn
    lock,           \* is_locked, locked_client_ip, lock_until
    xvc,            \* xvc_context_t
    mpsse_state,    \* the adapter's ctx->state, kept across clients
    \* control
    pc, idx, read_fds, except_fds, g_running,
    \* the environment
    now, backlog, owner, wire, eof, oob,
    \* history: what on_client_connect answered for the connection in a slot
    refused

table == <<fd, state, addr, connection_count, max_fd, refused>>
net == <<backlog, owner, wire, eof, oob>>
vars == <<table, active, lock, xvc, mpsse_state, pc, idx, read_fds, except_fds, g_running, now, net>>

NoLock == [is_locked |-> FALSE, ip |-> NoIp, until |-> 0]
NoContext == [vector_buf |-> FALSE, socket_fd |-> 0,
              jtag_state |-> "TEST_LOGIC_RESET", seen_tlr |-> FALSE]
Quiet == [op |-> "none", tms |-> <<>>]
Queries == {"getinfo", "settck"}
Commands == {c \in [op : Queries \cup {"invalid"}, tms : {<<>>}] \cup [op : {"shift"}, tms : Vectors] :
               c.op \in Ops}
Wire == Commands \cup [op : {"none", "partial"}, tms : {<<>>}]

IsOpen(i) == state[i] # "CLOSED"
OpenSlots == {i \in Slots : IsOpen(i)}
Exited == pc \in {"stopped", "killed"}
Handling == pc \in {"read", "write"}       \* xvc_handle runs, for slot idx

\* The type of the state of one instance: the slot table, the lock, the protocol
\* context, the snapshots of select and the network.
TypeOK ==
    /\ fd \in [Slots -> Fds \cup {NoFd, 0}]
    /\ state \in [Slots -> {"CLOSED", "CONNECTED", "ACTIVE"}]
    /\ addr \in [Slots -> Ips \cup {NoIp}]
    /\ refused \in [Slots -> BOOLEAN]
    /\ connection_count \in 0 .. NSlots /\ max_fd \in Nat
    /\ active \in Slots \cup {NoConn}
    /\ lock \in [is_locked : BOOLEAN, ip : Ips \cup {NoIp}, until : Nat]
    /\ xvc \in [vector_buf : BOOLEAN, socket_fd : Fds \cup {NoFd, 0},
                jtag_state : JtagStates, seen_tlr : BOOLEAN]
    /\ mpsse_state \in JtagStates
    /\ pc \in {"poll", "accept", "scan", "read", "write", "stopped", "killed"}
    /\ idx \in 1 .. NSlots + 1
    /\ Handling => idx \in Slots
    /\ read_fds \subseteq Fds /\ except_fds \subseteq Fds
    /\ g_running \in BOOLEAN /\ now \in Nat
    /\ backlog \in Seq(Peers)
    /\ owner \in [Fds -> Peers \cup {NoPeer}]
    /\ wire \in [Peers -> Wire]
    /\ eof \in [Peers -> BOOLEAN] /\ oob \in [Peers -> BOOLEAN]

\* run_instance's zeroed context after tcp_server_start; the adapter reports
\* TEST_LOGIC_RESET once opened.
Init ==
    /\ fd = [i \in Slots |-> 0] /\ state = [i \in Slots |-> "CLOSED"]
    /\ addr = [i \in Slots |-> NoIp] /\ refused = [i \in Slots |-> FALSE]
    /\ connection_count = 0 /\ max_fd = ListenFd
    /\ active = NoConn /\ lock = NoLock /\ xvc = NoContext
    /\ mpsse_state = "TEST_LOGIC_RESET"
    /\ pc = "poll" /\ idx = 1 /\ read_fds = {} /\ except_fds = {} /\ g_running = TRUE
    /\ now = 0 /\ backlog = <<>> /\ owner = [f \in Fds |-> NoPeer]
    /\ wire = [p \in Peers |-> Quiet]
    /\ eof = [p \in Peers |-> FALSE] /\ oob = [p \in Peers |-> FALSE]

-----------------------------------------------------------------------------
(* Environment: clients, clock and signals.  What a client sends while it is   *)
(* still queued is sent, in the model, right after it has been accepted: the   *)
(* server cannot tell.                                                         *)

server == <<table, active, lock, xvc, mpsse_state, pc, idx, read_fds, except_fds>>
Queued(p) == \E k \in 1 .. Len(backlog) : backlog[k] = p
Accepted(p) == \E f \in Fds : owner[f] = p

Connect(p) ==
    /\ ~Exited /\ ~Queued(p) /\ ~Accepted(p)
    /\ backlog' = Append(backlog, p)
    /\ UNCHANGED <<server, g_running, now, owner, wire, eof, oob>>

\* The first bytes of a command reach the server, the rest does not yet.
SendStart(p) ==
    /\ Accepted(p) /\ ~eof[p] /\ wire[p].op = "none"
    /\ wire' = [wire EXCEPT ![p] = [op |-> "partial", tms |-> <<>>]]
    /\ UNCHANGED <<server, g_running, now, backlog, owner, eof, oob>>

SendRest(p) ==
    /\ ~eof[p] /\ wire[p].op = "partial"
    /\ \E c \in Commands : wire' = [wire EXCEPT ![p] = c]
    /\ UNCHANGED <<server, g_running, now, backlog, owner, eof, oob>>

ClientClose(p) ==
    /\ Accepted(p) /\ ~eof[p]
    /\ eof' = [eof EXCEPT ![p] = TRUE]
    /\ UNCHANGED <<server, g_running, now, backlog, owner, wire, oob>>

\* Urgent data: the socket becomes exceptional for select.
SendUrgent(p) ==
    /\ Accepted(p) /\ p \in UrgentPeers /\ ~eof[p] /\ ~oob[p]
    /\ oob' = [oob EXCEPT ![p] = TRUE]
    /\ UNCHANGED <<server, g_running, now, backlog, owner, wire, eof>>

Tick ==
    /\ ~Exited /\ now < MaxTime
    /\ now' = now + 1
    /\ UNCHANGED <<server, g_running, net>>

\* signal_handler on SIGTERM or SIGINT, at any point of the process.
signal_handler ==
    /\ ~Exited /\ g_running
    /\ g_running' = FALSE
    /\ UNCHANGED <<server, now, net>>

-----------------------------------------------------------------------------
(* The client IP lock (main.c). *)

is_lock_expired == lock.is_locked => now >= lock.until

client_ip_matches(l, ip) == l.is_locked => ip = l.ip

\* Mutant: a refresh adds to the running lock instead of starting from now.
set_client_lock_adds(l, ip) ==
    IF LockTimeout > 0 THEN [is_locked |-> TRUE, ip |-> ip, until |-> l.until + LockTimeout] ELSE l

set_client_lock(l, ip) ==
    IF LockTimeout > 0 THEN [is_locked |-> TRUE, ip |-> ip, until |-> now + LockTimeout] ELSE l

\* The answer of on_client_connect for a connection from ip placed in slot i,
\* 0 (accept) or 1 (reject), and the lock it leaves: an expired lock is released
\* first, whatever the answer.
on_client_connect(i, ip) ==
    LET l == IF is_lock_expired THEN NoLock ELSE lock
        reject == (active # NoConn /\ active # i) \/ ~client_ip_matches(l, ip)
    IN [ret |-> reject, lock |-> IF reject \/ l.is_locked THEN l ELSE set_client_lock(l, ip)]

\* Mutant: the lock is refreshed but active_xvc_conn left as it is.
on_client_disconnect_keeps(i, act) ==
    /\ active' = act
    /\ lock' = IF act = i THEN set_client_lock(lock, addr[i]) ELSE lock

\* on_client_disconnect for slot i, when active_xvc_conn is act at the call.
on_client_disconnect(i, act) ==
    /\ active' = IF act = i THEN NoConn ELSE act
    /\ lock' = IF act = i THEN set_client_lock(lock, addr[i]) ELSE lock

-----------------------------------------------------------------------------
(* The connection table (tcp_server.c). *)

\* Mutant: the comparison with max_fd is the wrong way round.
update_max_fd_least(f, s) ==
    LET all == {ListenFd} \cup {f[i] : i \in {j \in Slots : s[j] # "CLOSED"}}
    IN max_fd' \in {m \in all : \A x \in all : m <= x}

\* max_fd' is the largest of the listening socket and the open slots' descriptors.
update_max_fd(f, s) ==
    LET all == {ListenFd} \cup {f[i] : i \in {j \in Slots : s[j] # "CLOSED"}}
    IN max_fd' \in {m \in all : \A x \in all : x <= m}

\* The kernel's side of close(f): the client behind it, if any, is gone.
Forget(p) ==
    /\ wire' = [wire EXCEPT ![p] = Quiet]
    /\ eof' = [eof EXCEPT ![p] = FALSE]
    /\ oob' = [oob EXCEPT ![p] = FALSE]

\* Mutant: the connection is closed but stays counted.
close_connection_uncounted(i, act) ==
    /\ on_client_disconnect(i, act)
    /\ owner' = [owner EXCEPT ![fd[i]] = NoPeer] /\ Forget(owner[fd[i]])
    /\ state' = [state EXCEPT ![i] = "CLOSED"] /\ fd' = [fd EXCEPT ![i] = NoFd]
    /\ update_max_fd(fd', state')
    /\ addr' = [addr EXCEPT ![i] = NoIp] /\ refused' = [refused EXCEPT ![i] = FALSE]
    /\ UNCHANGED <<connection_count, backlog>>

\* The address and the answer of a closed slot are dead until accept overwrites
\* them; the model clears them here.
tcp_server_close_connection(i, act) ==
    /\ on_client_disconnect(i, act)
    /\ owner' = [owner EXCEPT ![fd[i]] = NoPeer] /\ Forget(owner[fd[i]])
    /\ state' = [state EXCEPT ![i] = "CLOSED"]
    /\ fd' = [fd EXCEPT ![i] = NoFd]
    /\ connection_count' = connection_count - 1
    /\ update_max_fd(fd', state')
    /\ addr' = [addr EXCEPT ![i] = NoIp] /\ refused' = [refused EXCEPT ![i] = FALSE]
    /\ UNCHANGED backlog

\* What select reports for an open descriptor within its first max_fd + 1 bits.
Readable(p) == wire[p].op # "none" \/ eof[p]
\* Mutant: select is given max_fd instead of max_fd + 1.
Polled_short == {fd[i] : i \in OpenSlots} \cap 0 .. max_fd - 1

Polled == {fd[i] : i \in OpenSlots} \cap 0 .. max_fd

\* Mutant: the listening socket is left out of the set while a client is connected.
ListenReady_idle == backlog # <<>> /\ OpenSlots = {}

ListenReady == backlog # <<>>

\* One round of tcp_server_poll up to its return from select.  A timeout and
\* EINTR go round the loop of run_instance and change nothing.
Select ==
    /\ pc = "poll" /\ g_running
    /\ read_fds' = {f \in Fds \cap Polled : Readable(owner[f])}
    /\ except_fds' = {f \in Fds \cap Polled : oob[owner[f]]}
    /\ read_fds' \cup except_fds' # {} \/ ListenReady
    /\ pc' = IF ListenReady THEN "accept" ELSE "scan"
    /\ idx' = 1
    /\ UNCHANGED <<table, active, lock, xvc, mpsse_state, g_running, now, net>>

\* accept returns the lowest free descriptor.
FreeFd(f) == owner[f] = NoPeer /\ \A g \in Fds : g < f => owner[g] # NoPeer

\* The lowest closed slot.
find_free_slot(i) == ~IsOpen(i) /\ \A j \in Slots : j < i => IsOpen(j)

\* No descriptor is free, or the client went away while it was queued.
AcceptFails ==
    /\ pc = "accept"
    /\ \/ /\ ~\E f \in Fds : FreeFd(f)
          /\ UNCHANGED net
       \/ /\ backlog' = Tail(backlog)
          /\ UNCHANGED <<owner, wire, eof, oob>>
    /\ pc' = "scan"
    /\ UNCHANGED <<table, active, lock, xvc, mpsse_state, idx, read_fds, except_fds, g_running, now>>

\* Mutant: whitelist_check's answer is ignored.
Allowed_any(p) == TRUE

\* whitelist_check does not block the client.
Allowed(p) == Ip[p] \in Admitted

\* Mutant: the refused connection's descriptor is not closed.
AcceptRefuse_leaks ==
    /\ pc = "accept"
    /\ ~Allowed(Head(backlog)) \/ OpenSlots = Slots
    /\ \E f \in Fds : FreeFd(f) /\ owner' = [owner EXCEPT ![f] = Head(backlog)]
    /\ backlog' = Tail(backlog)
    /\ pc' = "scan"
    /\ UNCHANGED <<table, active, lock, xvc, mpsse_state, idx, read_fds, except_fds, g_running, now,
                   wire, eof, oob>>

\* The client is blocked by the whitelist, or the table is full: its new
\* descriptor is closed at once.
AcceptRefuse ==
    /\ pc = "accept" /\ \E f \in Fds : FreeFd(f)
    /\ ~Allowed(Head(backlog)) \/ OpenSlots = Slots
    /\ backlog' = Tail(backlog)
    /\ pc' = "scan"
    /\ UNCHANGED <<table, active, lock, xvc, mpsse_state, idx, read_fds, except_fds, g_running, now,
                   owner, wire, eof, oob>>

\* The connection takes a slot and on_connect is called.  tcp_server_poll drops
\* its answer; refused keeps it.
Accept ==
    /\ pc = "accept" /\ Allowed(Head(backlog))
    /\ \E f \in Fds, i \in Slots :
         LET ip == Ip[Head(backlog)]
             answer == on_client_connect(i, ip)
         IN /\ FreeFd(f) /\ find_free_slot(i)
            /\ owner' = [owner EXCEPT ![f] = Head(backlog)]
            /\ fd' = [fd EXCEPT ![i] = f]
            /\ state' = [state EXCEPT ![i] = "CONNECTED"]
            /\ addr' = [addr EXCEPT ![i] = ip]
            /\ connection_count' = connection_count + 1
            /\ update_max_fd(fd', state')
            /\ lock' = answer.lock
            /\ refused' = [refused EXCEPT ![i] = answer.ret]
    /\ backlog' = Tail(backlog)
    /\ pc' = "scan"
    /\ UNCHANGED <<active, xvc, mpsse_state, idx, read_fds, except_fds, g_running, now, wire, eof, oob>>

-----------------------------------------------------------------------------
(* The check_clients loop of tcp_server_poll, and xvc_handle (xvc_protocol.c). *)

\* Slot i is the next one, from idx on, that the loop has an event for.
HasEvent(i) == IsOpen(i) /\ fd[i] \in read_fds \cup except_fds
NextEvent(i) == i >= idx /\ HasEvent(i) /\ \A j \in Slots : idx <= j /\ j < i => ~HasEvent(j)

ScanDone ==
    /\ pc = "scan" /\ \A i \in Slots : i >= idx => ~HasEvent(i)
    /\ pc' = "poll" /\ idx' = 1 /\ read_fds' = {} /\ except_fds' = {}
    /\ UNCHANGED <<table, active, lock, xvc, mpsse_state, g_running, now, net>>

ScanException(i) ==
    /\ pc = "scan" /\ NextEvent(i) /\ fd[i] \in except_fds
    /\ tcp_server_close_connection(i, active)
    /\ idx' = i + 1
    /\ UNCHANGED <<xvc, mpsse_state, pc, read_fds, except_fds, g_running, now>>

\* on_client_data after xvc_handle failed or saw the end of the stream: the
\* session is dropped first, then tcp_server_poll closes the connection.  What
\* xvc_free leaves in the context is dead until xvc_init zeroes it.
DropSession(i) ==
    /\ xvc' = NoContext
    /\ tcp_server_close_connection(i, NoConn)
    /\ pc' = "scan" /\ idx' = i + 1

XvcFresh(f) == [vector_buf |-> TRUE, socket_fd |-> f,
                jtag_state |-> "TEST_LOGIC_RESET", seen_tlr |-> FALSE]

\* Mutant: the context is initialised on the first call only.
NeedsInit_once(i) == ~xvc.vector_buf

\* xvc_handle's test on entry.
NeedsInit(i) == ~xvc.vector_buf \/ xvc.socket_fd # fd[i]

\* on_client_data up to the first read of xvc_handle.
ScanData(i) ==
    /\ pc = "scan" /\ NextEvent(i) /\ fd[i] \notin except_fds
    /\ state' = [state EXCEPT ![i] = "ACTIVE"]
    /\ active' = IF active = NoConn THEN i ELSE active
    /\ xvc' = IF NeedsInit(i) THEN XvcFresh(fd[i]) ELSE xvc
    /\ pc' = "read" /\ idx' = i
    /\ UNCHANGED <<fd, addr, connection_count, max_fd, refused, lock, mpsse_state,
                   read_fds, except_fds, g_running, now, net>>

\* As above, but xvc_init cannot allocate its buffers.
ScanDataNoMemory(i) ==
    /\ pc = "scan" /\ NextEvent(i) /\ fd[i] \notin except_fds /\ NeedsInit(i)
    /\ DropSession(i)
    /\ UNCHANGED <<mpsse_state, read_fds, except_fds, g_running, now>>

\* The handler runs for slot idx and reads from, and writes to, the socket of the
\* XVC context; a command is whole once its last byte is on the wire.
HandlerPeer == owner[xvc.socket_fd]
Reading(op) == pc = "read" /\ wire[HandlerPeer].op = op
Answering(op) == Handling /\ wire[HandlerPeer].op = op

\* The stream ends before or inside a command.
ReadEof ==
    /\ pc = "read" /\ wire[HandlerPeer].op \in {"none", "partial"} /\ eof[HandlerPeer]
    /\ DropSession(idx)
    /\ UNCHANGED <<mpsse_state, read_fds, except_fds, g_running, now>>

\* Mutant: the loop visits the same slot again.
Return0_again == pc' = "scan" /\ idx' = idx

\* Leave xvc_handle with 0: on to the next slot.
Return0 == pc' = "scan" /\ idx' = idx + 1

\* A reply was written: the command is consumed and the handler ends or, for a
\* shift that leaves the TAP elsewhere than an idle it reached through reset,
\* waits for the next command of the same client.
Replied(stay) ==
    /\ wire' = [wire EXCEPT ![HandlerPeer] = Quiet]
    /\ IF stay THEN pc' = "read" /\ UNCHANGED idx ELSE Return0
    /\ UNCHANGED <<table, active, lock, backlog, owner, eof, oob>>

\* xvc_write_exact and what follows it, with context x: the write goes through,
\* at once or after it blocked (WriteBlocks), or, when the client has closed, may
\* fail.
Reply(x, stay) ==
    \/ xvc' = x /\ Replied(stay)
    \/ eof[HandlerPeer] /\ DropSession(idx)

\* getinfo and settck answer and break out of the loop in any JTAG state.
HandleQuery ==
    /\ \E q \in Queries : Answering(q)
    /\ Reply(xvc, FALSE)
    /\ UNCHANGED <<mpsse_state, read_fds, except_fds, g_running, now>>

HandleInvalid ==
    /\ Reading("invalid")
    /\ DropSession(idx)
    /\ UNCHANGED <<mpsse_state, read_fds, except_fds, g_running, now>>

\* xvc_init's clamp of the configured buffer size, in bytes.
max_vector_size == IF XvcBufferSize <= 0 THEN 2048
                   ELSE IF XvcBufferSize > 262144 THEN 262144 ELSE XvcBufferSize
Oversize(tms) == (Len(tms) + 7) \div 8 > max_vector_size

\* seen_tlr as a shift updates it, from the state before the vector is walked.
SeenTlr == /\ xvc.seen_tlr \/ xvc.jtag_state = "TEST_LOGIC_RESET"
           /\ xvc.jtag_state \notin {"CAPTURE_DR", "CAPTURE_IR"}

\* The condition on which xvc_handle stays in its loop after a shift.
Stays(x) == ~(x.seen_tlr /\ x.jtag_state = "RUN_TEST_IDLE")

Vector == wire[HandlerPeer].tms

\* xvc_handle answers the command it has read.
Answered == \/ \E q \in Queries : Answering(q)
            \/ Answering("shift") /\ ~Oversize(Vector) /\ Vector # <<>>

\* The client does not take its answer and the socket's buffer is full: write
\* blocks.  What the command did to the trackers before is recorded when the
\* write ends, in HandleQuery, ShiftSkip, Shift or Sigpipe; nothing runs between.
WriteBlocks ==
    /\ pc = "read" /\ Answered /\ ~eof[HandlerPeer]
    /\ pc' = "write"
    /\ UNCHANGED <<table, active, lock, xvc, mpsse_state, idx, read_fds, except_fds, g_running, now, net>>

Skips == bogus(xvc.jtag_state, Vector)
Walked == [xvc EXCEPT !.seen_tlr = SeenTlr,
                      !.jtag_state = jtag_walk(jtag_next_state, xvc.jtag_state, Vector)]

ShiftOversize ==
    /\ Reading("shift") /\ Oversize(Vector)
    /\ DropSession(idx)
    /\ UNCHANGED <<mpsse_state, read_fds, except_fds, g_running, now>>

\* A bogus movement is answered with zeros and reaches neither tracker.
ShiftSkip ==
    /\ Answering("shift") /\ ~Oversize(Vector) /\ Skips
    /\ LET x == [xvc EXCEPT !.seen_tlr = SeenTlr] IN Reply(x, Stays(x))
    /\ UNCHANGED <<mpsse_state, read_fds, except_fds, g_running, now>>

\* The tracker walks the vector, the adapter scans it and walks its own table.
Shift ==
    /\ Answering("shift") /\ ~Oversize(Vector) /\ ~Skips /\ Vector # <<>>
    /\ mpsse_state' = jtag_walk(mpsse_next_state, mpsse_state, Vector)
    /\ Reply(Walked, Stays(Walked))
    /\ UNCHANGED <<read_fds, except_fds, g_running, now>>

\* The scan fails, for an empty vector always: the tracker has walked the
\* vector, the adapter keeps the state from before it.
ShiftScanFails ==
    /\ Reading("shift") /\ ~Oversize(Vector) /\ ~Skips
    /\ DropSession(idx)
    /\ UNCHANGED <<mpsse_state, read_fds, except_fds, g_running, now>>

-----------------------------------------------------------------------------
\* Every connection of the process is closed, by tcp_server_stop or by the kernel.
AllClosed ==
    /\ state' = [i \in Slots |-> "CLOSED"] /\ connection_count' = 0
    /\ owner' = [f \in Fds |-> NoPeer] /\ backlog' = <<>>
    /\ wire' = [p \in Peers |-> Quiet]
    /\ eof' = [p \in Peers |-> FALSE] /\ oob' = [p \in Peers |-> FALSE]

\* run_instance after its loop: tcp_server_stop runs on_disconnect for every
\* open slot and closes it; the adapter is closed and the process exits.
tcp_server_stop ==
    /\ active' = IF active \in OpenSlots THEN NoConn ELSE active
    /\ lock' = IF active \in OpenSlots THEN set_client_lock(lock, addr[active]) ELSE lock
    /\ AllClosed
    /\ pc' = "stopped"
    /\ UNCHANGED <<fd, addr, refused, max_fd, xvc, mpsse_state, idx, read_fds, except_fds, g_running, now>>

\* Mutant: the loop goes on while a client is connected.
Stop_waits == pc = "poll" /\ ~g_running /\ OpenSlots = {} /\ tcp_server_stop

\* The loop of run_instance ends because of a signal, or because select failed
\* for a reason other than EINTR.
Stop == pc = "poll" /\ ~g_running /\ tcp_server_stop
SelectFails == pc = "poll" /\ g_running /\ tcp_server_stop

\* A reply to a client that has closed can raise SIGPIPE, which setup_signals
\* leaves at its default action: the process ends where it stands.
Sigpipe ==
    /\ Answered /\ eof[HandlerPeer]
    /\ active' = NoConn /\ lock' = NoLock /\ xvc' = NoContext
    /\ AllClosed
    /\ pc' = "killed"
    /\ UNCHANGED <<fd, addr, refused, max_fd, mpsse_state, idx, read_fds, except_fds, g_running, now>>

Terminated == Exited /\ UNCHANGED vars

EnvNext ==
    \/ \E p \in Peers : Connect(p) \/ SendStart(p) \/ SendRest(p) \/ ClientClose(p) \/ SendUrgent(p)
    \/ Tick \/ signal_handler

ServerNext ==
    \/ Select \/ AcceptFails \/ AcceptRefuse \/ Accept
    \/ \E i \in Slots : ScanException(i) \/ ScanData(i) \/ ScanDataNoMemory(i)
    \/ ScanDone \/ ReadEof \/ HandleQuery \/ HandleInvalid
    \/ ShiftOversize \/ ShiftSkip \/ Shift \/ ShiftScanFails
    \/ WriteBlocks \/ Stop

Next == EnvNext \/ ServerNext \/ SelectFails \/ Sigpipe \/ Terminated

Spec == Init /\ [][Next]_vars

\* The process waits, in read for a client that does not finish its command or in
\* write for one that does not take its answer.
Blocked ==
    /\ Handling /\ ~eof[HandlerPeer]
    /\ pc = "read" => wire[HandlerPeer].op \in {"none", "partial"}

\* The process keeps running while it is not blocked; clients, the clock and
\* signals promise nothing, and select is not assumed to fail.
FairSpec == Spec /\ WF_vars(ServerNext /\ ~Blocked)

-----------------------------------------------------------------------------
(* Safety. *)

\* Descriptors neither leak nor alias: every open slot holds a descriptor the
\* kernel has open, no two slots share one, no descriptor is open without a slot,
\* connection_count counts the open slots and select's range covers them all
\* (tcp_server_poll, tcp_server_close_connection, update_max_fd).
FdConservation ==
    /\ \A i \in OpenSlots : fd[i] \in Fds /\ owner[fd[i]] # NoPeer /\ fd[i] <= max_fd
    /\ \A i, j \in OpenSlots : fd[i] = fd[j] => i = j
    /\ \A f \in Fds : owner[f] # NoPeer => \E i \in OpenSlots : fd[i] = f
    /\ connection_count = Cardinality(OpenSlots)

\* active_xvc_conn never dangles: it points to an open slot that has sent data,
\* through every way a connection can end (main.c callbacks).
ActiveIsOpen == active # NoConn => active \in Slots /\ state[active] = "ACTIVE"

\* A lock never outlives client_lock_timeout from now, is never held for an
\* address the whitelist blocks, and leaves nothing behind when released
\* (set_client_lock, release_client_lock, on_client_connect).
LockBounded ==
    /\ lock.is_locked => /\ lock.until <= now + LockTimeout
                         /\ lock.ip \in Admitted
    /\ ~lock.is_locked => lock = NoLock

\* The handler talks to the client whose slot it runs for: its buffers exist, its
\* socket is that slot's, and the slot's address is an admitted one and that of the
\* client behind the descriptor (xvc_handle's re-initialisation, accept).
HandlerServesItsSlot ==
    /\ \A i \in OpenSlots : addr[i] = Ip[owner[fd[i]]] /\ addr[i] \in Admitted
    /\ Handling => xvc.vector_buf /\ IsOpen(idx) /\ xvc.socket_fd = fd[idx]

\* The fd_set snapshot is never stale where it is used: a slot that the loop has
\* still to visit and whose bit is set belongs to a client with input, so that
\* xvc_handle does not start by blocking (tcp_server_poll, check_clients).
SnapshotIsFresh ==
    pc \in {"accept", "scan"} =>
        \A i \in OpenSlots : i >= idx /\ fd[i] \in read_fds => Readable(owner[fd[i]])

\* What a shift may do to the two trackers: once they agree, only a new session
\* or a failed scan can part them, although they follow different tables and a
\* bogus movement is withheld from both (xvc_handle, mpsse_adapter_scan).
SyncPreserved ==
    [][/\ Handling /\ xvc.jtag_state = mpsse_state
       /\ pc' \in {"read", "write", "scan"} /\ xvc'.vector_buf
       => xvc'.jtag_state = mpsse_state']_vars

\* However far the trackers have drifted apart, a vector that holds TMS high for
\* five clocks, is scanned and answered, brings them together.
ResetResyncs ==
    [][Shift /\ HoldsReset(Vector) /\ xvc'.vector_buf => xvc'.jtag_state = mpsse_state']_vars

-----------------------------------------------------------------------------
(* Liveness. *)

Child == INSTANCE InstanceChild WITH
    status <- IF Exited THEN "zombie" ELSE IF Blocked THEN "hang" ELSE "run", running <- g_running

\* From outside, the whole server is the child that InstanceManager expects: it ends
\* for good once, and after a signal it exits, whatever its clients have under way,
\* unless one of them holds it in a read or a write.
ImplementsChild == Child!Spec

\* A queued client is accepted or turned away, unless the process exits or spends
\* the rest of its life in the handler of one other client.  To be held up for a
\* while is no excuse: when that client moves on, the queue has its turn.
BacklogDrains == \A p \in Peers : Queued(p) ~> (~Queued(p) \/ Exited \/ []Handling)

\* A complete command on an accepted connection is consumed, or its connection
\* closed, unless the process exits or stays in one handler for good.
CommandServed ==
    \A p \in Peers : Accepted(p) /\ wire[p] \in Commands
                         ~> (wire[p] \notin Commands \/ Exited \/ []Handling)

-----------------------------------------------------------------------------
(* What the documentation and the comments claim and the code does not keep. *)

\* A connection that on_client_connect rejected has no command executed
\* (tcp_server_poll, after on_connect).
RefusedIsNotServed == Handling /\ wire[HandlerPeer] \in Commands => ~refused[idx]

\* What the handler meets on another connection leaves active_xvc_conn alone
\* (on_client_data).
ActiveContinues == Handling /\ active \notin {NoConn, idx} => active' = active

\* When the client of the session disconnects, its address is locked from then on,
\* for client_lock_timeout (on_client_disconnect, set_client_lock).
LockFollows ==
    LockTimeout > 0 /\ active # NoConn /\ state'[active] = "CLOSED"
        => lock' = [is_locked |-> TRUE, ip |-> addr[active], until |-> now + LockTimeout]

\* A new connection starts from a new protocol context: nothing of an earlier
\* client is left in the tracker (xvc_handle's test on entry).
ContextIsNew ==
    pc = "scan" /\ pc' = "read" /\ state[idx'] = "CONNECTED" => xvc' = XvcFresh(fd[idx'])

\* ARCHITECTURE.md, "Single Connection Policy": "The new connection is immediately
\* rejected", "The active session continues uninterrupted".  No client disturbs
\* another's session: not by a connection that was rejected, by a command that
\* fails, by what it leaves in the protocol context, by ending its own session
\* without its lock, or by going away before its answer (xvc_write_exact), which is
\* an error of one connection and not the end of the process.
SessionsApart ==
    [][/\ pc' # "killed"
       /\ pc' # "stopped" => RefusedIsNotServed /\ ActiveContinues /\ LockFollows /\ ContextIsNew]_vars
=============================================================================
