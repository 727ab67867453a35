----------------------------- MODULE TcpEndpoint -----------------------------
(****************************************************************************)
(* One network task with a TCP or DCCP socket, and the kernel's side of its *)
(* connections: remotes connect, accept, refuse, send, close or reset at    *)
(* any time, also between the select of an iteration and the walk over the  *)
(* descriptors it returned.                                                 *)
(****************************************************************************)

EXTENDS SocketTcp, FiniteSets

CONSTANTS
    Remotes,                \* the remotes of the configuration, a sequence
    selected_fds_max_count,
    Backlog                 \* how many connections wait to be accepted, a bound

ASSUME RemotesAssumption == Remotes \in Seq(Remote)
ASSUME SelectedAssumption == selected_fds_max_count \in Nat \ {0}
\* The task does not run out of descriptors.
ASSUME DescriptorsSuffice == IsFiniteSet(FD) /\ Cardinality(FD) > peers_max_count
ASSUME BacklogAssumption == Backlog \in Nat

VARIABLES
    protocol,   \* "TCP" or "DCCP", which share most of the code
    socket,     \* the socket and its task list, as in SocketTcp
    connecting, \* what connectSocketTcp still has to connect at the start
    selected,   \* the selected descriptors that the walk has not served yet
    running,    \* FALSE after the end of the loop or a failed check
    conns,      \* the connection of each open descriptor but the listening one
    backlog,    \* the remotes whose connections wait to be accepted
    wanted      \* remotes that a connection was made to and that have not closed it

kernel == <<conns, backlog>>
vars == <<protocol, socket, connecting, selected, running, kernel, wanted>>

\* A connection is being made, is open, was closed by the remote or has failed;
\* unread is what was received before that, if anything.
Conn == [state : {"connecting", "open", "shut", "failed"},
         unread : SUBSET {"text", "q"}]
NewConn(state) == [state |-> state, unread |-> {}]

------------------------------------------------------------------------------

Init ==
    /\ protocol \in {"TCP", "DCCP"}
    /\ \E fd \in FD : socket = createSocket(fd)
    /\ connecting = Remotes
    /\ selected = {}
    /\ running = TRUE
    /\ conns = <<>> /\ backlog = {}
    /\ wanted = {}

\* A descriptor that is not in use; those of other threads come and go.
FreeFd == FD \ (DOMAIN conns \cup {socket.fd})

Open(fd, conn) ==
    conns' = [f \in DOMAIN conns \cup {fd} |-> IF f = fd THEN conn ELSE conns[f]]
Close(fd) == conns' = [f \in DOMAIN conns \ {fd} |-> conns[f]]

\* The process ends, and the kernel closes what is open.
End ==
    /\ running' = FALSE
    /\ conns' = <<>> /\ backlog' = {}
    /\ selected' = {} /\ connecting' = <<>>
    /\ UNCHANGED <<protocol, socket, wanted>>

\* connectSocketTcp with one remote: nothing happens with a full table; a connect
\* that fails at once, by a failed check, ends the process.
ConnectTo(r, tasks) ==
    LET s == [socket EXCEPT !.tasks = tasks]
    IN  IF Full(socket)
        THEN socket' = s /\ UNCHANGED <<conns, wanted>>
        ELSE \E fd \in FreeFd :
                /\ socket' = connectPeer(s, fd, r)
                /\ Open(fd, NewConn("connecting"))
                /\ wanted' = wanted \cup {r}

\* One iteration of the loop of connectSocketTcp at the start.
Connect ==
    /\ running /\ connecting # <<>>
    /\ ConnectTo(Head(connecting), socket.tasks)
    /\ connecting' = Tail(connecting)
    /\ UNCHANGED <<protocol, selected, running, backlog>>

\* Between two walks of the loop of networkTask.
Looping == running /\ connecting = <<>> /\ selected = {}

\* Mutant of Launch: the reestablishment does not connect.
LaunchNothing(i) ==
    /\ Looping /\ Due(socket.tasks[i])
    /\ socket' = [socket EXCEPT !.tasks = Launched(@, i)]
    /\ UNCHANGED <<protocol, connecting, selected, running, kernel, wanted>>

\* launchScheduledTasks runs a due reestablishment.
Launch(i) ==
    /\ Looping /\ Due(socket.tasks[i])
    /\ ConnectTo(socket.tasks[i].params, Launched(socket.tasks, i))
    /\ UNCHANGED <<protocol, connecting, selected, running, backlog>>

ConnectFails ==
    /\ running
    /\ connecting # <<>> \/ (Looping /\ ~NoneDue(socket.tasks))
    /\ ~Full(socket)
    /\ End

Readable(fd) ==
    IF fd = socket.fd
    THEN backlog # {}
    ELSE conns[fd].unread # {} \/ conns[fd].state \in {"shut", "failed"}

Ready == {fd \in DOMAIN conns \cup {socket.fd} : Readable(fd)}

\* Mutant of selectFds: fd_max is the highest descriptor, not one more.
selectFdsBelowHighest ==
    {fd \in Ready : \E f \in DOMAIN conns \cup {socket.fd} : f > fd}

\* selectFds and selectFdSet: the lowest of the descriptors that are ready.
selectFds ==
    {fd \in Ready :
        Cardinality({f \in Ready : f < fd}) < selected_fds_max_count}

Select ==
    /\ Looping /\ NoneDue(socket.tasks)
    /\ selectFds # {}
    /\ selected' = selectFds
    /\ UNCHANGED <<protocol, socket, connecting, running, kernel, wanted>>

\* The walk comes to fd, the lowest of those left.
Walks(fd) ==
    /\ running /\ fd \in selected
    /\ \A f \in selected : fd <= f
    /\ selected' = selected \ {fd}

\* Mutant of Accept: the bound of the table is not looked at.
AcceptUnchecked(r) ==
    /\ Walks(socket.fd)
    /\ r \in backlog
    /\ \E fd \in FreeFd :
          /\ socket' = acceptPeer(socket, fd, r)
          /\ Open(fd, NewConn("open"))
    /\ backlog' = backlog \ {r}
    /\ UNCHANGED <<protocol, connecting, running, wanted>>

\* handleCommUpTcp: the connection is accepted if the table has room.
Accept(r) ==
    /\ Walks(socket.fd)
    /\ r \in backlog /\ ~Full(socket)
    /\ \E fd \in FreeFd :
          /\ socket' = acceptPeer(socket, fd, r)
          /\ Open(fd, NewConn("open"))
    /\ backlog' = backlog \ {r}
    /\ UNCHANGED <<protocol, connecting, running, wanted>>

\* ... and else stays in the backlog.
AcceptRefused ==
    /\ Walks(socket.fd)
    /\ Full(socket)
    /\ UNCHANGED <<protocol, socket, connecting, running, kernel, wanted>>

PeerOf(fd) == socket.peers[findPeerByFd(socket, fd)]

CommLost(fd) ==
    /\ socket' = handleCommLostTcp(socket, findPeerByFd(socket, fd))
    /\ Close(PeerOf(fd).fd)
    /\ UNCHANGED <<protocol, connecting, running, backlog, wanted>>

GracefulShutdown(fd) ==
    /\ socket' = handleGracefulShutdownTcp(socket, findPeerByFd(socket, fd))
    /\ Close(PeerOf(fd).fd)
    /\ wanted' = IF PeerOf(fd).should_reestablish
                 THEN wanted \ {PeerOf(fd).remote}
                 ELSE wanted
    /\ UNCHANGED <<protocol, connecting, running, backlog>>

\* A message; over DCCP the quit message is the end of the connection.
ReceiveMessage(fd) ==
    /\ Walks(fd) /\ fd # socket.fd
    /\ conns[fd].state # "failed"
    /\ conns[fd].unread # {}
    /\ IF protocol = "DCCP" /\ conns[fd].unread = {"q"}
       THEN GracefulShutdown(fd)
       ELSE /\ conns' = [conns EXCEPT ![fd].unread = {}]
            /\ UNCHANGED <<protocol, socket, connecting, running, backlog, wanted>>

\* Nothing is left to read from a remote that has closed: the end of the connection
\* for TCP, a lost one for DCCP, where the end is announced by a quit message.
ReceiveNothing(fd) ==
    /\ Walks(fd) /\ fd # socket.fd
    /\ conns[fd] = NewConn("shut")
    /\ IF protocol = "TCP" THEN GracefulShutdown(fd) ELSE CommLost(fd)

\* recv fails on a connection that was refused, reset or timed out.
ReceiveFails(fd) ==
    /\ protocol = "TCP"
    /\ Walks(fd) /\ fd # socket.fd
    /\ conns[fd] = NewConn("failed")
    /\ CommLost(fd)

\* A check fails on such a connection: that of getpeername, which logPaddrsTcp calls
\* after a message, or for DCCP that of recv.
ReceiveEnds(fd) ==
    /\ running /\ fd \in selected \ {socket.fd} /\ \A f \in selected : fd <= f
    /\ conns[fd].state = "failed"
    /\ protocol = "DCCP" \/ conns[fd].unread # {}
    /\ End

\* sendSocketTcp checks each send, and a send on a connection that is not up fails;
\* a failed send over DCCP is only logged.  One that succeeds changes nothing here.
SendFails ==
    /\ Looping
    /\ protocol = "TCP"
    /\ \E fd \in DOMAIN conns : conns[fd].state \in {"connecting", "failed"}
    /\ End

\* The loop ends, and cleanUpSocket closes the descriptors of all slots and its own.
Quit == Looping /\ End

\* Time passes, also while the walk goes on.
Tick ==
    /\ running /\ connecting = <<>> /\ NoneDue(socket.tasks)
    /\ socket' = [socket EXCEPT !.tasks = Elapsed(@)]
    /\ UNCHANGED <<protocol, connecting, selected, running, kernel, wanted>>

------------------------------------------------------------------------------

\* What the kernel and the remotes do to a connection.
Becomes(fd, from, to) ==
    /\ fd \in DOMAIN conns /\ conns[fd].state \in from
    /\ conns' = [conns EXCEPT ![fd].state = to]
    /\ UNCHANGED <<protocol, socket, connecting, selected, running, backlog, wanted>>

RemoteAccepts(fd) == Becomes(fd, {"connecting"}, "open")
RemoteShuts(fd) == Becomes(fd, {"open"}, "shut")
Fails(fd) == Becomes(fd, {"connecting", "open", "shut"}, "failed")

\* One message at a time, a bound; over TCP a quit message is a text as any other.
RemoteSends(fd, msg) ==
    /\ fd \in DOMAIN conns /\ conns[fd] = NewConn("open")
    /\ protocol = "DCCP" \/ msg # "q"
    /\ conns' = [conns EXCEPT ![fd].unread = {msg}]
    /\ UNCHANGED <<protocol, socket, connecting, selected, running, backlog, wanted>>

RemoteConnects(r) ==
    /\ running
    /\ Cardinality(backlog) < Backlog
    /\ backlog' = backlog \cup {r}
    /\ UNCHANGED <<protocol, socket, connecting, selected, running, conns, wanted>>

Environment ==
    \/ \E fd \in FD :
          \/ RemoteAccepts(fd) \/ RemoteShuts(fd) \/ Fails(fd)
          \/ \E msg \in {"text", "q"} : RemoteSends(fd, msg)
    \/ \E r \in Remote : RemoteConnects(r)

LaunchAny == \E i \in DOMAIN socket.tasks : Launch(i)

Serve ==
    \/ \E r \in Remote : Accept(r)
    \/ AcceptRefused
    \/ \E fd \in FD :
          ReceiveMessage(fd) \/ ReceiveNothing(fd) \/ ReceiveFails(fd) \/ ReceiveEnds(fd)

Next ==
    \/ Connect \/ LaunchAny \/ ConnectFails
    \/ Select \/ Serve
    \/ SendFails \/ Quit
    \/ Tick
    \/ Environment

\* The thread of the network task runs and time passes; the remotes and the user need
\* not do anything.
Fairness ==
    WF_vars(Connect) /\ WF_vars(LaunchAny) /\ WF_vars(Select) /\ WF_vars(Serve)
    /\ WF_vars(Tick)

Spec == Init /\ [][Next]_vars /\ Fairness

------------------------------------------------------------------------------

TypeOK ==
    /\ protocol \in {"TCP", "DCCP"}
    /\ socket \in Socket
    /\ connecting \in Seq(Remote)
    /\ selected \subseteq FD
    /\ running \in BOOLEAN
    /\ DOMAIN conns \subseteq FD /\ conns \in [DOMAIN conns -> Conn]
    /\ backlog \subseteq Remote
    /\ wanted \subseteq Remote

\* The open descriptors are the listening one and those of the slots, and no two
\* slots have the same: no descriptor leaks, none is closed twice or kept after the
\* kernel gave it to another connection (SocketTcp.c:53-70, 98-134, Socket.c:222-252).
SlotsOwnDescriptors == running => OwnsDescriptors(socket, DOMAIN conns)

\* Every descriptor that the walk has still to serve is the listening one or has a
\* slot, so that findPeerByFd finds it, and is still open and ready, whatever was
\* accepted and closed earlier in the same walk (Socket.c:160-175, SocketTcp.c:122,
\* 131): neither recv nor accept waits or hits a connection that took its number.
SelectedAreServable ==
    \A fd \in selected :
        /\ fd \in Ready
        /\ fd = socket.fd \/ findPeerByFd(socket, fd) # NULL

\* How often r is in the configuration.
Configured(r) == Cardinality({i \in DOMAIN Remotes : Remotes[i] = r})

\* There are never more connections to a remote, made or about to be made again, than
\* the configuration asks for: accepting a connection from it, losing one and coming
\* back do not add to them (SocketTcp.c:68, 117, 124).
NoSurplusConnection ==
    \A r \in Remote :
        Cardinality(Outgoing(socket, r)) + Cardinality(Retries(socket, r))
            + Cardinality({i \in DOMAIN connecting : connecting[i] = r})
        <= Configured(r)

\* A remote that a connection was made to has one still, or gets a new one, unless it
\* has closed one itself or the table is full (SocketTcp.c:120-134).
WantedKept == \A r \in wanted : Kept(socket, r)

\* A lost connection is made again, unless the table is full or the process ends.
LostIsRetried ==
    \A r \in Remote :
        (r \in wanted /\ Outgoing(socket, r) = {}) ~>
            (Outgoing(socket, r) # {} \/ r \notin wanted \/ Full(socket) \/ ~running)

\* At least as many lower descriptors are ready as one walk serves.
Crowded(fd) == Cardinality({f \in Ready : f < fd}) >= selected_fds_max_count

\* Whatever is ready is selected, unless the lower descriptors keep the walk busy, or it
\* is the listening one and the table is full (FDSet.c:34-40, Socket.c:38-50).
ReadyIsServed ==
    \A fd \in FD :
        (running /\ fd \in Ready) ~>
            (fd \in selected \/ Crowded(fd) \/ ~running
             \/ (fd = socket.fd /\ Full(socket)))

=============================================================================
