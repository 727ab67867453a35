-------------------------- MODULE TcpEndpointProofs --------------------------
(****************************************************************************)
(* For any remotes, descriptors and bounds: the descriptors of a TCP or     *)
(* DCCP endpoint belong to its slots, the walk over the selected ones never *)
(* meets one that is gone, and no lost connection is forgotten.             *)
(****************************************************************************)

EXTENDS TcpEndpoint, FiniteSetTheorems, TLAPS

USE RemoteAssumption, DescriptorAssumption, BoundAssumption, RemotesAssumption

\* What s keeps t keeps, except perhaps r.
KeepsOthers(s, t, r) == \A q \in Remote \ {r} : Kept(s, q) => Kept(t, q)
KeepsAll(s, t) == \A q \in Remote : Kept(s, q) => Kept(t, q)

\* A slot that is in use has an address that can be connected to again.
NamedRemotes(s) == \A k \in Occupied(s) : s.peers[k].remote \in Remote

\* A socket whose open descriptors are open.
SocketOK(s, open) == s \in Socket /\ OwnsDescriptors(s, open) /\ NamedRemotes(s)

\* findPeerByFd finds the slot of an open descriptor and no other.
LEMMA FindPeer ==
    ASSUME NEW s \in Socket, NEW open, OwnsDescriptors(s, open), NEW fd \in FD
    PROVE  LET k == findPeerByFd(s, fd)
           IN  /\ fd \in open => k \in Occupied(s) /\ s.peers[k].fd = fd
               /\ fd \in open => k # NULL
<1> SUFFICES ASSUME fd \in open
             PROVE  /\ findPeerByFd(s, fd) \in Occupied(s)
                    /\ s.peers[findPeerByFd(s, fd)].fd = fd
                    /\ findPeerByFd(s, fd) # NULL
  OBVIOUS
<1> DEFINE First(k) == s.peers[k].fd = fd /\ \A j \in 1 .. k - 1 : s.peers[j].fd # fd
<1>1. s.peers \in Seq(Peer) /\ fd # Closed
  BY DEF Socket, Closed
<1>2. PICK m \in Occupied(s) : s.peers[m].fd = fd
  BY DEF OwnsDescriptors, PeerFds
<1>3. \A j \in DOMAIN s.peers : j # m => s.peers[j].fd # fd
  BY <1>1, <1>2 DEF OwnsDescriptors, Occupied
<1>4. m \in DOMAIN s.peers /\ First(m)
  BY <1>1, <1>2, <1>3 DEF Occupied
<1>5. findPeerByFd(s, fd) = CHOOSE k \in DOMAIN s.peers : First(k)
  BY <1>4 DEF findPeerByFd
<1>6. findPeerByFd(s, fd) \in DOMAIN s.peers /\ First(findPeerByFd(s, fd))
  BY <1>4, <1>5
<1> QED
  BY <1>1, <1>6 DEF Occupied, NULL

\* A new slot takes the new descriptor.
LEMMA NewPeer ==
    ASSUME NEW s, NEW open, SocketOK(s, open), ~Full(s),
           NEW fd \in FD, fd \notin open, fd # s.fd,
           NEW r \in Remote, NEW b \in BOOLEAN
    PROVE  LET t == AddPeer(s, fd, r, b)
           IN  /\ SocketOK(t, open \cup {fd}) /\ t.fd = s.fd
               /\ KeepsAll(s, t)
               /\ b => Kept(t, r)
<1> DEFINE p == [fd |-> fd, remote |-> r, should_reestablish |-> b]
<1> DEFINE t == AddPeer(s, fd, r, b)
<1>1. /\ s = [fd |-> s.fd, peers |-> s.peers, tasks |-> s.tasks]
      /\ s.peers \in Seq(Peer) /\ s.tasks \in Seq(Task) /\ s.fd \in FD
      /\ Len(s.peers) < peers_max_count /\ p \in Peer /\ fd # Closed
  BY DEF SocketOK, Socket, Full, Peer, Closed
<1>2. t = [fd |-> s.fd, peers |-> Append(s.peers, p), tasks |-> s.tasks]
  <2>1. t = [s EXCEPT !.peers = Append(s.peers, p)]
    BY DEF AddPeer
  <2> HIDE DEF t, p
  <2> QED
    BY <1>1, <2>1
<1>3. /\ t.peers = Append(s.peers, p) /\ t.tasks = s.tasks /\ t.fd = s.fd
      /\ t.peers \in Seq(Peer) /\ Len(t.peers) = Len(s.peers) + 1
      /\ \A k \in DOMAIN s.peers : t.peers[k] = s.peers[k]
      /\ t.peers[Len(t.peers)] = p
      /\ DOMAIN t.peers = DOMAIN s.peers \cup {Len(t.peers)}
  BY <1>1, <1>2
<1> HIDE DEF t, p
<1>4. t \in Socket
  BY <1>1, <1>2, <1>3 DEF Socket
<1>5. Occupied(t) = Occupied(s) \cup {Len(t.peers)} /\ Len(t.peers) \notin DOMAIN s.peers
  BY <1>1, <1>3 DEF Occupied, p
<1>6. PeerFds(t) = PeerFds(s) \cup {fd}
  <2>1. \A k \in Occupied(s) : k \in DOMAIN s.peers /\ t.peers[k].fd = s.peers[k].fd
    BY <1>3 DEF Occupied
  <2>2. t.peers[Len(t.peers)].fd = fd
    BY <1>3 DEF p
  <2> QED
    BY <1>5, <2>1, <2>2 DEF PeerFds
<1>7. OwnsDescriptors(t, open \cup {fd})
  <2>1. t.fd \notin PeerFds(t) /\ open \cup {fd} = PeerFds(t)
    BY <1>3, <1>6 DEF SocketOK, OwnsDescriptors
  <2>2. \A k \in Occupied(s) : s.peers[k].fd # fd /\ k \in DOMAIN s.peers
    BY DEF SocketOK, OwnsDescriptors, PeerFds, Occupied
  <2>3. t.peers[Len(t.peers)].fd = fd
    BY <1>3 DEF p
  <2>4. \A j, k \in Occupied(t) : j # k => t.peers[j].fd # t.peers[k].fd
    BY <1>3, <1>5, <2>2, <2>3 DEF SocketOK, OwnsDescriptors
  <2> QED
    BY <2>1, <2>4 DEF OwnsDescriptors
<1>8. \A q \in Remote : Outgoing(s, q) \subseteq Outgoing(t, q) /\ Retries(t, q) = Retries(s, q)
  BY <1>3, <1>5 DEF Outgoing, Retries, Occupied
<1>9. b => Len(t.peers) \in Outgoing(t, r)
  BY <1>3, <1>5 DEF Outgoing, p
<1>10. NamedRemotes(t)
  BY <1>3, <1>5 DEF SocketOK, NamedRemotes, Occupied, p
<1>11. Full(s) => Full(t)
  BY <1>1, <1>3 DEF Full
<1> QED
  BY <1>3, <1>4, <1>7, <1>8, <1>9, <1>10, <1>11 DEF SocketOK, KeepsAll, Kept, t

\* removePeer gives up the descriptor of its slot.
LEMMA RemovedPeer ==
    ASSUME NEW s, NEW open, SocketOK(s, open), NEW k \in Occupied(s)
    PROVE  LET t == removePeer(s, k)
           IN  /\ SocketOK(t, open \ {s.peers[k].fd})
               /\ t.fd = s.fd /\ t.tasks = s.tasks
               /\ KeepsOthers(s, t, s.peers[k].remote)
               /\ ~s.peers[k].should_reestablish => KeepsAll(s, t)
<1> DEFINE p == [s.peers[k] EXCEPT !.fd = Closed, !.remote = NoRemote]
<1> DEFINE t == removePeer(s, k)
<1>1. /\ s = [fd |-> s.fd, peers |-> s.peers, tasks |-> s.tasks]
      /\ s.peers \in Seq(Peer) /\ s.tasks \in Seq(Task) /\ s.fd \in FD
      /\ Len(s.peers) <= peers_max_count /\ k \in DOMAIN s.peers
  BY DEF SocketOK, Socket, Occupied
<1>2. s.peers[k] \in Peer
  BY <1>1
<1>3. p \in Peer /\ p.fd = Closed
  BY <1>2 DEF Peer, Closed
<1>4. t = [fd |-> s.fd, peers |-> [s.peers EXCEPT ![k] = p], tasks |-> s.tasks]
  <2>1. t = [s EXCEPT !.peers = [s.peers EXCEPT ![k] = p]]
    BY DEF removePeer
  <2> HIDE DEF t, p
  <2> QED
    BY <1>1, <2>1
<1> HIDE DEF t, p
<1>5. /\ t.fd = s.fd /\ t.tasks = s.tasks
      /\ t.peers = [s.peers EXCEPT ![k] = p]
  BY <1>4
<1>6. /\ t.peers \in Seq(Peer) /\ Len(t.peers) = Len(s.peers)
      /\ DOMAIN t.peers = DOMAIN s.peers /\ t.peers[k] = p
      /\ \A j \in DOMAIN s.peers \ {k} : t.peers[j] = s.peers[j]
  BY <1>1, <1>3, <1>5
<1>7. t \in Socket
  BY <1>1, <1>4, <1>5, <1>6 DEF Socket
<1>8. Occupied(t) = Occupied(s) \ {k}
  BY <1>3, <1>6 DEF Occupied
<1>9. PeerFds(t) = PeerFds(s) \ {s.peers[k].fd}
  BY <1>6, <1>8 DEF SocketOK, PeerFds, OwnsDescriptors, Occupied
<1>10. OwnsDescriptors(t, open \ {s.peers[k].fd})
  BY <1>5, <1>6, <1>8, <1>9 DEF SocketOK, OwnsDescriptors, Occupied
<1>11. \A q \in Remote : Retries(t, q) = Retries(s, q)
  BY <1>5 DEF Retries
<1>12. \A q \in Remote : q # s.peers[k].remote => Outgoing(t, q) = Outgoing(s, q)
  BY <1>6, <1>8 DEF Outgoing, Occupied
<1>13. ~s.peers[k].should_reestablish => \A q \in Remote : Outgoing(t, q) = Outgoing(s, q)
  BY <1>6, <1>8 DEF Outgoing, Occupied
<1>14. Full(s) => Full(t)
  BY <1>6 DEF Full
<1>15. NamedRemotes(t)
  BY <1>6, <1>8 DEF SocketOK, NamedRemotes, Occupied
<1> QED
  BY <1>5, <1>7, <1>10, <1>11, <1>12, <1>13, <1>14, <1>15
     DEF SocketOK, KeepsOthers, KeepsAll, Kept, t

\* Only the task list of a socket changes.
LEMMA NewTasks ==
    ASSUME NEW s, NEW open, SocketOK(s, open), NEW tasks \in Seq(Task)
    PROVE  LET t == [s EXCEPT !.tasks = tasks]
           IN  /\ SocketOK(t, open)
               /\ t.fd = s.fd /\ t.peers = s.peers /\ t.tasks = tasks
               /\ \A q \in Remote : Outgoing(t, q) = Outgoing(s, q)
               /\ Full(t) = Full(s)
<1> DEFINE t == [s EXCEPT !.tasks = tasks]
<1>1. t \in Socket /\ t.fd = s.fd /\ t.peers = s.peers /\ t.tasks = tasks
  BY DEF SocketOK, Socket
<1> HIDE DEF t
<1>2. Occupied(t) = Occupied(s) /\ PeerFds(t) = PeerFds(s)
  BY <1>1 DEF Occupied, PeerFds
<1>3. \A q \in Remote : Outgoing(t, q) = Outgoing(s, q)
  BY <1>1, <1>2 DEF Outgoing
<1>4. OwnsDescriptors(t, open) /\ NamedRemotes(t) /\ Full(t) = Full(s)
  BY <1>1, <1>2 DEF SocketOK, OwnsDescriptors, NamedRemotes, Full
<1> QED
  BY <1>1, <1>3, <1>4 DEF SocketOK, t

\* A lost connection made by connecting leaves its reestablishment behind.
LEMMA LostPeer ==
    ASSUME NEW s, NEW open, SocketOK(s, open), NEW k \in Occupied(s)
    PROVE  LET t == handleCommLostTcp(s, k)
           IN  /\ SocketOK(t, open \ {s.peers[k].fd})
               /\ t.fd = s.fd
               /\ KeepsAll(s, t)
<1> DEFINE r == s.peers[k].remote
<1> DEFINE tasks == scheduleTask(s.tasks, ReestablishTask(r))
<1> DEFINE u == [s EXCEPT !.tasks = tasks]
<1> DEFINE t == handleCommLostTcp(s, k)
<1>1. CASE ~s.peers[k].should_reestablish
  <2>1. t = removePeer(s, k)
    BY <1>1 DEF handleCommLostTcp
  <2> QED
    BY <1>1, <2>1, RemovedPeer
<1>2. CASE s.peers[k].should_reestablish
  <2>1. t = removePeer(u, k)
    BY <1>2 DEF handleCommLostTcp
  <2>2. r \in Remote /\ s.tasks \in Seq(Task) /\ ReestablishTask(r) \in Task
    BY DEF SocketOK, NamedRemotes, Socket, ReestablishTask, createScheduledTask, Task
  <2>3. /\ tasks \in Seq(Task) /\ Len(tasks) = Len(s.tasks) + 1
        /\ \A i \in DOMAIN s.tasks : i \in DOMAIN tasks /\ tasks[i] = s.tasks[i]
        /\ Len(tasks) \in DOMAIN tasks /\ tasks[Len(tasks)] = ReestablishTask(r)
    BY <2>2 DEF scheduleTask
  <2> HIDE DEF tasks
  <2>4. /\ SocketOK(u, open) /\ u.fd = s.fd /\ u.peers = s.peers /\ u.tasks = tasks
        /\ \A q \in Remote : Outgoing(u, q) = Outgoing(s, q)
        /\ Full(u) = Full(s)
    BY <2>3, NewTasks
  <2> HIDE DEF u, t
  <2>5. k \in Occupied(u) /\ u.peers[k].fd = s.peers[k].fd /\ u.peers[k].remote = r
    BY <2>4 DEF Occupied
  <2>6. /\ SocketOK(t, open \ {s.peers[k].fd}) /\ t.fd = s.fd /\ t.tasks = tasks
        /\ KeepsOthers(u, t, r)
    BY <2>1, <2>4, <2>5, RemovedPeer
  <2>7. \A q \in Remote : Retries(s, q) \subseteq Retries(u, q)
    BY <2>3, <2>4 DEF Retries
  <2>8. Len(tasks) \in Retries(t, r)
    BY <2>3, <2>6 DEF Retries, Armed, ReestablishTask, createScheduledTask
  <2>9. KeepsAll(s, t)
    BY <2>4, <2>6, <2>7, <2>8 DEF KeepsAll, KeepsOthers, Kept
  <2> QED
    BY <2>6, <2>9 DEF t
<1> QED
  BY <1>1, <1>2 DEF SocketOK, NamedRemotes, Socket, Peer, Occupied

\* A task that is launched counts down its repetitions, the others stay.
LEMMA LaunchedTask ==
    ASSUME NEW s, NEW open, SocketOK(s, open), NEW i \in DOMAIN s.tasks, Due(s.tasks[i])
    PROVE  LET t == [s EXCEPT !.tasks = Launched(s.tasks, i)]
           IN  /\ SocketOK(t, open) /\ t.fd = s.fd
               /\ Full(t) = Full(s)
               /\ KeepsOthers(s, t, s.tasks[i].params)
               /\ s.tasks[i].params \in Remote
<1> DEFINE u == Launched(s.tasks, i)
           t == [s EXCEPT !.tasks = u]
           task == [s.tasks[i] EXCEPT !.wait = s.tasks[i].delay,
                                      !.left = s.tasks[i].left - 1]
<1>1. s.tasks \in Seq(Task) /\ s.tasks[i] \in Task
  BY DEF SocketOK, Socket
<1>2. s.tasks[i].left - 1 \in Nat
  <2>1. s.tasks[i].left \in Nat /\ s.tasks[i].left > 0
    BY <1>1 DEF Task, Due
  <2> QED
    BY <2>1
<1>3. task \in Task
  BY <1>1, <1>2 DEF Task
<1>4. u = [s.tasks EXCEPT ![i] = task]
  BY DEF Launched
<1> HIDE DEF task
<1>5. /\ u \in Seq(Task) /\ DOMAIN u = DOMAIN s.tasks
      /\ \A j \in DOMAIN s.tasks \ {i} : u[j] = s.tasks[j]
  BY <1>1, <1>3, <1>4
<1> HIDE DEF u
<1>6. /\ SocketOK(t, open) /\ t.fd = s.fd /\ t.peers = s.peers /\ t.tasks = u
      /\ \A q \in Remote : Outgoing(t, q) = Outgoing(s, q)
      /\ Full(t) = Full(s)
  BY <1>5, NewTasks
<1> HIDE DEF t
<1>7. \A q \in Remote \ {s.tasks[i].params} : Retries(s, q) \subseteq Retries(t, q)
  BY <1>5, <1>6 DEF Retries
<1>8. KeepsOthers(s, t, s.tasks[i].params)
  BY <1>6, <1>7 DEF KeepsOthers, Kept
<1>9. s.tasks[i].params \in Remote
  BY <1>1 DEF Task
<1> QED
  BY <1>6, <1>8, <1>9 DEF t, u

\* Time passing changes only how long tasks wait.
LEMMA ElapsedSocket ==
    ASSUME NEW s, NEW open, SocketOK(s, open)
    PROVE  LET t == [s EXCEPT !.tasks = Elapsed(s.tasks)]
           IN  SocketOK(t, open) /\ t.fd = s.fd /\ KeepsAll(s, t)
<1> DEFINE u == Elapsed(s.tasks)
           t == [s EXCEPT !.tasks = u]
<1>1. s.tasks \in Seq(Task)
  BY DEF SocketOK, Socket
<1>2. ASSUME NEW j \in DOMAIN s.tasks
      PROVE  u[j] \in Task /\ u[j].left = s.tasks[j].left /\ u[j].params = s.tasks[j].params
  <2>1. s.tasks[j] \in Task
    BY <1>1
  <2>2. CASE Armed(s.tasks[j]) /\ s.tasks[j].wait > 0
    <3>1. u[j] = [s.tasks[j] EXCEPT !.wait = s.tasks[j].wait - 1]
      BY <2>2 DEF Elapsed
    <3>2. s.tasks[j].wait - 1 \in Nat
      <4>1. s.tasks[j].wait \in Nat
        BY <2>1 DEF Task
      <4> QED
        BY <2>2, <4>1
    <3> QED
      BY <2>1, <3>1, <3>2 DEF Task
  <2>3. CASE ~(Armed(s.tasks[j]) /\ s.tasks[j].wait > 0)
    BY <2>1, <2>3 DEF Elapsed
  <2> QED
    BY <2>2, <2>3
<1>3. DOMAIN u = DOMAIN s.tasks
  BY DEF Elapsed
<1>4. u \in Seq(Task)
  <2>1. DOMAIN u = 1 .. Len(s.tasks) /\ Len(s.tasks) \in Nat
    BY <1>1, <1>3
  <2>2. u = [j \in 1 .. Len(s.tasks) |-> u[j]]
    BY <2>1 DEF Elapsed
  <2> HIDE DEF u
  <2>3. u \in [1 .. Len(s.tasks) -> Task]
    BY <1>2, <1>3, <2>1, <2>2
  <2> QED
    BY <2>1, <2>3
<1> HIDE DEF u
<1>5. /\ SocketOK(t, open) /\ t.fd = s.fd /\ t.tasks = u
      /\ \A q \in Remote : Outgoing(t, q) = Outgoing(s, q)
      /\ Full(t) = Full(s)
  BY <1>4, NewTasks
<1> HIDE DEF t
<1>6. \A q \in Remote : Retries(t, q) = Retries(s, q)
  BY <1>2, <1>3, <1>5 DEF Retries, Armed
<1>7. KeepsAll(s, t)
  BY <1>5, <1>6 DEF KeepsAll, Kept
<1> QED
  BY <1>5, <1>7 DEF t, u

------------------------------------------------------------------------------

\* The selected descriptors that are left are ready, and there are none at the end.
SelectedReady == \A fd \in selected : fd \in Ready
NoneAtEnd == ~running => selected = {}

\* What every step keeps.  A selected descriptor stays ready until it is served
\* because no slot shares it, so that no other step of the walk can close it; and a
\* lost connection can be made again because the slot in use still has its remote.
TcpInv ==
    /\ TypeOK
    /\ running => SocketOK(socket, DOMAIN conns)
    /\ SelectedReady /\ NoneAtEnd
    /\ WantedKept

LEMMA InvInit == Init => TcpInv
<1> SUFFICES ASSUME Init PROVE TcpInv
  OBVIOUS
<1>1. PICK fd \in FD : socket = createSocket(fd)
  BY DEF Init
<1>2. /\ socket.fd = fd /\ socket.peers = <<>> /\ socket.tasks = <<>>
      /\ DOMAIN conns = {} /\ conns \in [DOMAIN conns -> Conn]
  BY <1>1 DEF Init, createSocket
<1>3. socket \in Socket
  BY <1>1, BoundAssumption DEF createSocket, Socket
<1>4. Occupied(socket) = {}
  BY <1>2 DEF Occupied
<1>5. SocketOK(socket, DOMAIN conns)
  BY <1>2, <1>3, <1>4 DEF SocketOK, OwnsDescriptors, PeerFds, NamedRemotes
<1> QED
  BY <1>2, <1>3, <1>5
     DEF Init, TcpInv, TypeOK, SelectedReady, NoneAtEnd, WantedKept

LEMMA InvStep == TcpInv /\ [Next]_vars => TcpInv'
<1> SUFFICES ASSUME TcpInv, [Next]_vars PROVE TcpInv'
  OBVIOUS
<1> USE DEF kernel
<1>1. /\ protocol \in {"TCP", "DCCP"} /\ socket \in Socket
      /\ connecting \in Seq(Remote) /\ selected \subseteq FD /\ running \in BOOLEAN
      /\ DOMAIN conns \subseteq FD /\ conns \in [DOMAIN conns -> Conn]
      /\ backlog \subseteq Remote /\ wanted \subseteq Remote
      /\ running => SocketOK(socket, DOMAIN conns)
      /\ \A fd \in selected : fd \in Ready
      /\ ~running => selected = {}
      /\ \A q \in wanted : Kept(socket, q)
  BY DEF TcpInv, TypeOK, SelectedReady, NoneAtEnd, WantedKept
<1>2. running => /\ socket.fd \in FD \ DOMAIN conns
                 /\ FreeFd \subseteq FD /\ FreeFd \cap DOMAIN conns = {}
                 /\ socket.fd \notin FreeFd
  BY <1>1 DEF SocketOK, OwnsDescriptors, Socket, FreeFd
\* A step of the running task.
<1>3. ASSUME SocketOK(socket', DOMAIN conns'), protocol' = protocol, running' = running,
             running, connecting' \in Seq(Remote), backlog' \subseteq Remote,
             DOMAIN conns' \subseteq FD, conns' \in [DOMAIN conns' -> Conn],
             selected' \subseteq FD, \A fd \in selected' : fd \in Ready',
             wanted' \subseteq Remote, \A q \in wanted' : Kept(socket', q)
      PROVE  TcpInv'
  BY <1>1, <1>3 DEF SocketOK, TcpInv, TypeOK, SelectedReady, NoneAtEnd, WantedKept
\* A descriptor whose connection stays as it is stays ready.
<1>4. ASSUME socket'.fd = socket.fd, backlog' = backlog,
             NEW fd \in Ready,
             fd # socket.fd => fd \in DOMAIN conns' /\ conns'[fd] = conns[fd]
      PROVE  fd \in Ready'
  BY <1>4 DEF Ready, Readable
<1>5. CASE End
  <2>1. DOMAIN conns' = {} /\ conns' \in [DOMAIN conns' -> Conn]
    BY <1>5 DEF End
  <2>2. /\ ~running' /\ selected' = {} /\ connecting' = <<>> /\ backlog' = {}
        /\ UNCHANGED <<protocol, socket, wanted>>
    BY <1>5 DEF End
  <2>3. TypeOK'
    <3>1. connecting' \in Seq(Remote) /\ running' \in BOOLEAN
      <4>1. <<>> \in Seq(Remote)
        OBVIOUS
      <4> QED
        BY <2>2, <1>5, <4>1, Zenon DEF End
    <3>2. socket' \in Socket /\ protocol' \in {"TCP", "DCCP"} /\ wanted' \subseteq Remote
      BY <1>1, <2>2
    <3> QED
      BY <2>1, <2>2, <3>1, <3>2 DEF TypeOK
  <2>4. WantedKept'
    BY <1>1, <2>2 DEF WantedKept
  <2> QED
    BY <2>2, <2>3, <2>4 DEF TcpInv, SelectedReady, NoneAtEnd
\* A connection gets a descriptor that was free.
<1>6. ASSUME running, NEW fd \in FreeFd, NEW conn \in Conn, Open(fd, conn)
      PROVE  /\ fd \in FD /\ fd \notin DOMAIN conns /\ fd # socket.fd
             /\ DOMAIN conns' = DOMAIN conns \cup {fd}
             /\ DOMAIN conns' \subseteq FD /\ conns' \in [DOMAIN conns' -> Conn]
             /\ \A f \in DOMAIN conns : conns'[f] = conns[f]
  BY <1>1, <1>2, <1>6 DEF Open
<1>7. ASSUME running, NEW fd \in DOMAIN conns, Close(fd)
      PROVE  /\ DOMAIN conns' = DOMAIN conns \ {fd}
             /\ DOMAIN conns' \subseteq FD /\ conns' \in [DOMAIN conns' -> Conn]
             /\ \A f \in DOMAIN conns \ {fd} : conns'[f] = conns[f]
  BY <1>1, <1>7 DEF Close
\* connectSocketTcp, whatever the tasks of the socket are by then.
<1>8. ASSUME running, NEW r \in Remote, NEW tasks, ConnectTo(r, tasks),
             SocketOK([socket EXCEPT !.tasks = tasks], DOMAIN conns),
             [socket EXCEPT !.tasks = tasks].fd = socket.fd,
             Full([socket EXCEPT !.tasks = tasks]) = Full(socket),
             KeepsOthers(socket, [socket EXCEPT !.tasks = tasks], r),
             selected' = selected, connecting' \in Seq(Remote),
             UNCHANGED <<protocol, running, backlog>>
      PROVE  TcpInv'
  <2> DEFINE s == [socket EXCEPT !.tasks = tasks]
  <2>1. CASE Full(socket)
    <3>1. socket' = s /\ UNCHANGED <<conns, wanted>>
      BY <1>8, <2>1 DEF ConnectTo
    <3>2. \A q \in wanted' : Kept(socket', q)
      BY <1>8, <2>1, <3>1 DEF Kept
    <3>3. \A fd \in selected' : fd \in Ready'
      BY <1>1, <1>4, <1>8, <3>1 DEF Ready
    <3> QED
      BY <1>1, <1>3, <1>8, <3>1, <3>2, <3>3
  <2>2. CASE ~Full(socket)
    <3>1. PICK fd \in FreeFd :
              /\ socket' = connectPeer(s, fd, r)
              /\ Open(fd, NewConn("connecting"))
              /\ wanted' = wanted \cup {r}
      BY <1>8, <2>2 DEF ConnectTo
    <3>2. NewConn("connecting") \in Conn
      BY DEF NewConn, Conn
    <3>3. /\ fd \in FD /\ fd \notin DOMAIN conns /\ fd # socket.fd
          /\ DOMAIN conns' = DOMAIN conns \cup {fd}
          /\ DOMAIN conns' \subseteq FD /\ conns' \in [DOMAIN conns' -> Conn]
          /\ \A f \in DOMAIN conns : conns'[f] = conns[f]
      BY <1>6, <1>8, <3>1, <3>2
    <3> HIDE DEF s
    <3>4. /\ SocketOK(s, DOMAIN conns) /\ s.fd = socket.fd /\ ~Full(s)
          /\ KeepsOthers(socket, s, r)
      BY <1>8, <2>2 DEF s
    <3>4a. LET t == AddPeer(s, fd, r, TRUE)
          IN  /\ SocketOK(t, DOMAIN conns \cup {fd}) /\ t.fd = s.fd
              /\ KeepsAll(s, t) /\ Kept(t, r)
      BY <3>3, <3>4, NewPeer
    <3>5. /\ SocketOK(socket', DOMAIN conns') /\ socket'.fd = socket.fd
          /\ KeepsAll(s, socket') /\ Kept(socket', r)
      BY <3>1, <3>3, <3>4, <3>4a DEF connectPeer
    <3>6. \A q \in wanted' : Kept(socket', q)
      BY <1>1, <3>1, <3>4, <3>5 DEF KeepsOthers, KeepsAll
    <3>7. \A f \in selected' : f \in Ready'
      BY <1>1, <1>4, <1>8, <3>3, <3>5 DEF Ready
    <3> QED
      BY <1>1, <1>3, <1>8, <3>1, <3>3, <3>5, <3>6, <3>7
  <2> QED
    BY <2>1, <2>2
<1>9. CASE Connect
  <2>1. /\ running /\ connecting # <<>> /\ ConnectTo(Head(connecting), socket.tasks)
        /\ connecting' = Tail(connecting)
        /\ UNCHANGED <<protocol, selected, running, backlog>>
    BY <1>9 DEF Connect
  <2>2. Head(connecting) \in Remote /\ connecting' \in Seq(Remote)
    BY <1>1, <2>1
  <2>3. [socket EXCEPT !.tasks = socket.tasks] = socket
    BY <1>1 DEF Socket
  <2>4. KeepsOthers(socket, socket, Head(connecting))
    BY DEF KeepsOthers
  <2> QED
    BY <1>1, <1>8, <2>1, <2>2, <2>3, <2>4
<1>10. ASSUME NEW i \in DOMAIN socket.tasks, Launch(i)
       PROVE  TcpInv'
  <2>1. /\ running /\ Due(socket.tasks[i])
        /\ ConnectTo(socket.tasks[i].params, Launched(socket.tasks, i))
        /\ UNCHANGED <<protocol, connecting, selected, running, backlog>>
    BY <1>10 DEF Launch, Looping
  <2> DEFINE t == [socket EXCEPT !.tasks = Launched(socket.tasks, i)]
  <2>2. /\ SocketOK(t, DOMAIN conns) /\ t.fd = socket.fd
        /\ Full(t) = Full(socket)
        /\ KeepsOthers(socket, t, socket.tasks[i].params)
        /\ socket.tasks[i].params \in Remote
    BY <1>1, <2>1, LaunchedTask
  <2> HIDE DEF t
  <2> QED
    BY <1>1, <1>8, <2>1, <2>2 DEF t
<1>11. CASE ConnectFails \/ SendFails \/ Quit \/ \E fd \in FD : ReceiveEnds(fd)
  BY <1>5, <1>11 DEF ConnectFails, SendFails, Quit, ReceiveEnds
<1>12. CASE Select
  <2>1. /\ running /\ selected' = selectFds
        /\ UNCHANGED <<protocol, socket, connecting, running, conns, backlog, wanted>>
    BY <1>12 DEF Select, Looping
  <2>2. selectFds \subseteq Ready /\ Ready \subseteq FD /\ Ready' = Ready
    BY <1>1, <1>2, <2>1 DEF selectFds, Ready, Readable
  <2>3. \A fd \in selected' : fd \in Ready'
    BY <2>1, <2>2
  <2>4. selected' \subseteq FD
    BY <2>1, <2>2
  <2> QED
    BY <1>1, <1>3, <2>1, <2>3, <2>4
<1>13. ASSUME NEW r \in Remote, Accept(r)
       PROVE  TcpInv'
  <2>1. PICK fd \in FreeFd : socket' = acceptPeer(socket, fd, r) /\ Open(fd, NewConn("open"))
    BY <1>13 DEF Accept
  <2>2. /\ running /\ ~Full(socket) /\ selected' = selected \ {socket.fd}
        /\ backlog' = backlog \ {r}
        /\ UNCHANGED <<protocol, connecting, running, wanted>>
    BY <1>13 DEF Accept, Walks
  <2>3. NewConn("open") \in Conn
    BY DEF NewConn, Conn
  <2>4. /\ fd \in FD /\ fd \notin DOMAIN conns /\ fd # socket.fd
        /\ DOMAIN conns' = DOMAIN conns \cup {fd}
        /\ DOMAIN conns' \subseteq FD /\ conns' \in [DOMAIN conns' -> Conn]
        /\ \A f \in DOMAIN conns : conns'[f] = conns[f]
    BY <1>6, <2>1, <2>2, <2>3
  <2>4a. LET t == AddPeer(socket, fd, r, FALSE)
        IN  /\ SocketOK(t, DOMAIN conns \cup {fd}) /\ t.fd = socket.fd
            /\ KeepsAll(socket, t)
    BY <1>1, <2>2, <2>4, NewPeer
  <2>5. /\ SocketOK(socket', DOMAIN conns') /\ socket'.fd = socket.fd
        /\ KeepsAll(socket, socket')
    BY <2>1, <2>4, <2>4a DEF acceptPeer
  <2>6. \A q \in wanted' : Kept(socket', q)
    BY <1>1, <2>2, <2>5 DEF KeepsAll
  <2>7. \A f \in selected' : f \in Ready'
    BY <1>1, <2>2, <2>4, <2>5 DEF Ready, Readable
  <2> QED
    BY <1>1, <1>3, <2>2, <2>4, <2>5, <2>6, <2>7
<1>14. CASE AcceptRefused
  <2>1. /\ running /\ selected' = selected \ {socket.fd}
        /\ UNCHANGED <<protocol, socket, connecting, running, conns, backlog, wanted>>
    BY <1>14 DEF AcceptRefused, Walks
  <2>2. \A f \in selected' : f \in Ready'
    BY <1>1, <2>1 DEF Ready, Readable
  <2> QED
    BY <1>1, <1>3, <2>1, <2>2
\* The walk comes to the descriptor of a slot.
<1>15. ASSUME NEW fd \in FD, Walks(fd), fd # socket.fd
       PROVE  LET k == findPeerByFd(socket, fd)
              IN  /\ running /\ selected' = selected \ {fd}
                  /\ fd \in DOMAIN conns
                  /\ k \in Occupied(socket) /\ socket.peers[k].fd = fd
  <2>1. running /\ fd \in selected /\ selected' = selected \ {fd}
    BY <1>15 DEF Walks
  <2>2. fd \in DOMAIN conns
    BY <1>1, <1>15, <2>1 DEF Ready
  <2> QED
    BY <1>1, <2>1, <2>2, FindPeer DEF SocketOK
\* The slot of fd is given up, with or without a task that connects again.
<1>16. ASSUME NEW fd \in FD, Walks(fd), fd # socket.fd, Close(fd),
              SocketOK(socket', DOMAIN conns \ {fd}), socket'.fd = socket.fd,
              wanted' \subseteq wanted, \A q \in wanted' : Kept(socket', q),
              UNCHANGED <<protocol, connecting, running, backlog>>
       PROVE  TcpInv'
  <2>1. running /\ selected' = selected \ {fd} /\ fd \in DOMAIN conns
    BY <1>15, <1>16
  <2>2. /\ DOMAIN conns' = DOMAIN conns \ {fd}
        /\ DOMAIN conns' \subseteq FD /\ conns' \in [DOMAIN conns' -> Conn]
        /\ \A f \in DOMAIN conns \ {fd} : conns'[f] = conns[f]
    BY <1>7, <1>16, <2>1
  <2>3. \A f \in selected' : f \in Ready'
    BY <1>1, <1>16, <2>1, <2>2 DEF Ready, Readable
  <2> QED
    BY <1>1, <1>3, <1>16, <2>1, <2>2, <2>3
<1>17. ASSUME NEW fd \in FD, Walks(fd), fd # socket.fd, CommLost(fd)
       PROVE  TcpInv'
  <2> DEFINE k == findPeerByFd(socket, fd)
  <2>1. running /\ k \in Occupied(socket) /\ socket.peers[k].fd = fd
    BY <1>15, <1>17
  <2>2. /\ socket' = handleCommLostTcp(socket, k) /\ Close(fd)
        /\ UNCHANGED <<protocol, connecting, running, backlog, wanted>>
    BY <1>17, <2>1 DEF CommLost, PeerOf
  <2> HIDE DEF k
  <2>3. /\ SocketOK(socket', DOMAIN conns \ {fd}) /\ socket'.fd = socket.fd
        /\ KeepsAll(socket, socket')
    BY <1>1, <2>1, <2>2, LostPeer
  <2>4. \A q \in wanted' : Kept(socket', q)
    BY <1>1, <2>2, <2>3 DEF KeepsAll
  <2> QED
    BY <1>16, <1>17, <2>2, <2>3, <2>4
<1>18. ASSUME NEW fd \in FD, Walks(fd), fd # socket.fd, GracefulShutdown(fd)
       PROVE  TcpInv'
  <2> DEFINE k == findPeerByFd(socket, fd)
  <2>1. running /\ k \in Occupied(socket) /\ socket.peers[k].fd = fd
    BY <1>15, <1>18
  <2>2. /\ socket' = removePeer(socket, k) /\ Close(fd)
        /\ wanted' = IF socket.peers[k].should_reestablish
                     THEN wanted \ {socket.peers[k].remote}
                     ELSE wanted
        /\ UNCHANGED <<protocol, connecting, running, backlog>>
    BY <1>18, <2>1 DEF GracefulShutdown, PeerOf, handleGracefulShutdownTcp
  <2> HIDE DEF k
  <2>3. /\ SocketOK(socket', DOMAIN conns \ {fd}) /\ socket'.fd = socket.fd
        /\ KeepsOthers(socket, socket', socket.peers[k].remote)
        /\ ~socket.peers[k].should_reestablish => KeepsAll(socket, socket')
    BY <1>1, <2>1, <2>2, RemovedPeer
  <2>4. \A q \in wanted' : Kept(socket', q)
    BY <1>1, <2>2, <2>3 DEF KeepsAll, KeepsOthers
  <2>5. wanted' \subseteq wanted
    BY <2>2
  <2> QED
    BY <1>16, <1>18, <2>2, <2>3, <2>4, <2>5
<1>19. ASSUME NEW fd \in FD, ReceiveMessage(fd)
       PROVE  TcpInv'
  <2>1. CASE GracefulShutdown(fd)
    BY <1>18, <1>19, <2>1 DEF ReceiveMessage
  <2>2. CASE /\ conns' = [conns EXCEPT ![fd].unread = {}]
             /\ UNCHANGED <<protocol, socket, connecting, running, backlog, wanted>>
    <3>1. /\ Walks(fd) /\ fd # socket.fd
          /\ running /\ selected' = selected \ {fd} /\ fd \in DOMAIN conns
      BY <1>15, <1>19 DEF ReceiveMessage
    <3>2. conns[fd] \in Conn
      BY <1>1, <3>1
    <3>3. [conns[fd] EXCEPT !.unread = {}] \in Conn
      BY <3>2 DEF Conn
    <3>4. conns' = [conns EXCEPT ![fd] = [conns[fd] EXCEPT !.unread = {}]]
      BY <2>2
    <3>5. /\ DOMAIN conns' = DOMAIN conns /\ conns' \in [DOMAIN conns' -> Conn]
          /\ \A f \in DOMAIN conns \ {fd} : conns'[f] = conns[f]
      BY <1>1, <3>1, <3>3, <3>4
    <3>6. \A f \in selected' : f \in Ready'
      BY <1>1, <2>2, <3>1, <3>5 DEF Ready, Readable
    <3> QED
      BY <1>1, <1>3, <2>2, <3>1, <3>5, <3>6
  <2> QED
    BY <1>19, <2>1, <2>2 DEF ReceiveMessage
<1>20. ASSUME NEW fd \in FD, ReceiveNothing(fd) \/ ReceiveFails(fd)
       PROVE  TcpInv'
  BY <1>17, <1>18, <1>20 DEF ReceiveNothing, ReceiveFails
<1>21. CASE Tick
  <2>1. /\ running /\ socket' = [socket EXCEPT !.tasks = Elapsed(socket.tasks)]
        /\ UNCHANGED <<protocol, connecting, selected, running, conns, backlog, wanted>>
    BY <1>21 DEF Tick
  <2>2. /\ SocketOK(socket', DOMAIN conns) /\ socket'.fd = socket.fd
        /\ KeepsAll(socket, socket')
    BY <1>1, <2>1, ElapsedSocket
  <2>3. \A q \in wanted' : Kept(socket', q)
    BY <1>1, <2>1, <2>2 DEF KeepsAll
  <2>4. \A f \in selected' : f \in Ready'
    BY <1>1, <2>1, <2>2 DEF Ready, Readable
  <2> QED
    BY <1>1, <1>3, <2>1, <2>2, <2>3, <2>4
\* A connection that changes by itself only becomes more readable.
<1>22. ASSUME NEW fd \in DOMAIN conns, NEW conn \in Conn,
              conns' = [conns EXCEPT ![fd] = conn],
              conns[fd].unread # {} \/ conns[fd].state \in {"shut", "failed"} =>
                  conn.unread # {} \/ conn.state \in {"shut", "failed"},
              UNCHANGED <<protocol, socket, connecting, selected, running, backlog, wanted>>
       PROVE  TcpInv'
  <2>1. /\ DOMAIN conns' = DOMAIN conns /\ conns' \in [DOMAIN conns' -> Conn]
        /\ conns'[fd] = conn /\ \A f \in DOMAIN conns \ {fd} : conns'[f] = conns[f]
    BY <1>1, <1>22
  <2>2. \A f \in selected' : f \in Ready'
    BY <1>1, <1>22, <2>1 DEF Ready, Readable
  <2> QED
    BY <1>1, <1>22, <2>1, <2>2 DEF TcpInv, TypeOK, SelectedReady, NoneAtEnd, WantedKept
<1>23. ASSUME NEW fd \in FD, RemoteAccepts(fd) \/ RemoteShuts(fd) \/ Fails(fd)
       PROVE  TcpInv'
  <2>1. PICK to \in {"open", "shut", "failed"} :
            /\ fd \in DOMAIN conns
            /\ conns[fd].state \in {"shut", "failed"} => to \in {"shut", "failed"}
            /\ conns' = [conns EXCEPT ![fd].state = to]
            /\ UNCHANGED <<protocol, socket, connecting, selected, running, backlog, wanted>>
    BY <1>23 DEF RemoteAccepts, RemoteShuts, Fails, Becomes
  <2> DEFINE conn == [conns[fd] EXCEPT !.state = to]
  <2>2. conns[fd] \in Conn
    BY <1>1, <2>1
  <2>3. conn \in Conn /\ conn.state = to /\ conn.unread = conns[fd].unread
    BY <2>2 DEF Conn
  <2>4. conns' = [conns EXCEPT ![fd] = conn]
    BY <2>1
  <2> HIDE DEF conn
  <2>5. conns[fd].unread # {} \/ conns[fd].state \in {"shut", "failed"} =>
            conn.unread # {} \/ conn.state \in {"shut", "failed"}
    BY <2>1, <2>3
  <2> QED
    BY <1>22, <2>1, <2>3, <2>4, <2>5
<1>24. ASSUME NEW fd \in FD, NEW msg \in {"text", "q"}, RemoteSends(fd, msg)
       PROVE  TcpInv'
  <2>1. /\ fd \in DOMAIN conns
        /\ conns' = [conns EXCEPT ![fd].unread = {msg}]
        /\ UNCHANGED <<protocol, socket, connecting, selected, running, backlog, wanted>>
    BY <1>24 DEF RemoteSends
  <2> DEFINE conn == [conns[fd] EXCEPT !.unread = {msg}]
  <2>2. conns[fd] \in Conn
    BY <1>1, <2>1
  <2>3. conn \in Conn /\ conn.unread # {}
    BY <2>2 DEF Conn
  <2>4. conns' = [conns EXCEPT ![fd] = conn]
    BY <2>1
  <2> HIDE DEF conn
  <2> QED
    BY <1>22, <2>1, <2>3, <2>4
<1>25. ASSUME NEW r \in Remote, RemoteConnects(r)
       PROVE  TcpInv'
  <2>1. /\ running /\ backlog' = backlog \cup {r}
        /\ UNCHANGED <<protocol, socket, connecting, selected, running, conns, wanted>>
    BY <1>25 DEF RemoteConnects
  <2>2. \A f \in selected' : f \in Ready'
    BY <1>1, <2>1 DEF Ready, Readable
  <2>3. backlog' \subseteq Remote
    BY <1>1, <2>1
  <2> QED
    BY <1>1, <1>3, <2>1, <2>2, <2>3
<1>26. CASE UNCHANGED vars
  BY <1>26 DEF vars, TcpInv, TypeOK, SelectedReady, NoneAtEnd, WantedKept, Ready, Readable
<1> QED
  BY <1>9, <1>10, <1>11, <1>12, <1>13, <1>14, <1>19, <1>20, <1>21, <1>23, <1>24, <1>25,
     <1>26
     DEF Next, LaunchAny, Serve, Environment

\* Descriptors, connections, the slots of the table and their number are what the code
\* declares them to be.
THEOREM TypeCorrect == Spec => []TypeOK
<1>1. TcpInv => TypeOK
  BY DEF TcpInv
<1> QED
  BY <1>1, InvInit, InvStep, PTL DEF Spec

\* No descriptor of an endpoint leaks, is in two slots or is kept after it was closed.
THEOREM SlotsOwnDescriptorsHolds == Spec => []SlotsOwnDescriptors
<1>1. TcpInv => SlotsOwnDescriptors
  BY DEF TcpInv, SlotsOwnDescriptors, SocketOK
<1> QED
  BY <1>1, InvInit, InvStep, PTL DEF Spec

\* The walk over the selected descriptors never meets one that has no slot or that is
\* not ready any more, whatever its earlier steps accepted and closed.
THEOREM SelectedAreServableHolds == Spec => []SelectedAreServable
<1>1. TcpInv => SelectedAreServable
  <2> SUFFICES ASSUME TcpInv, NEW fd \in selected
               PROVE  fd \in Ready /\ (fd = socket.fd \/ findPeerByFd(socket, fd) # NULL)
    BY DEF SelectedAreServable
  <2>1. fd \in Ready /\ fd \in FD /\ SocketOK(socket, DOMAIN conns)
    BY DEF TcpInv, SelectedReady, NoneAtEnd, TypeOK
  <2> QED
    BY <2>1, FindPeer DEF SocketOK, Ready
<1> QED
  BY <1>1, InvInit, InvStep, PTL DEF Spec

\* Until the table is full, a remote that was connected to has a connection or a task
\* that makes one, unless it closed one itself.
THEOREM WantedKeptHolds == Spec => []WantedKept
<1>1. TcpInv => WantedKept
  BY DEF TcpInv
<1> QED
  BY <1>1, InvInit, InvStep, PTL DEF Spec

------------------------------------------------------------------------------

\* A socket's connections to r that it has made itself or is about to make again, and
\* those it has still to make at the start.
Count(s, r) == Cardinality(Outgoing(s, r)) + Cardinality(Retries(s, r))
Pending(seq, r) == {i \in DOMAIN seq : seq[i] = r}

\* Every task is launched at most once more.
SingleRuns(s) == \A i \in DOMAIN s.tasks : s.tasks[i].repetitions = 1 /\ s.tasks[i].left <= 1

\* The sets that are counted are finite.
LEMMA Countable ==
    ASSUME NEW s \in Socket, NEW r
    PROVE  /\ IsFiniteSet(Outgoing(s, r)) /\ Cardinality(Outgoing(s, r)) \in Nat
           /\ IsFiniteSet(Retries(s, r)) /\ Cardinality(Retries(s, r)) \in Nat
           /\ Count(s, r) \in Nat
<1>1. /\ s.peers \in Seq(Peer) /\ s.tasks \in Seq(Task)
      /\ DOMAIN s.peers = 1 .. Len(s.peers) /\ Len(s.peers) \in Nat
      /\ DOMAIN s.tasks = 1 .. Len(s.tasks) /\ Len(s.tasks) \in Nat
  BY DEF Socket
<1>2. IsFiniteSet(DOMAIN s.peers) /\ IsFiniteSet(DOMAIN s.tasks)
  <2>1. \A n \in Nat : IsFiniteSet(1 .. n)
    BY FS_Interval
  <2> QED
    BY <1>1, <2>1
<1>3. Outgoing(s, r) \subseteq DOMAIN s.peers /\ Retries(s, r) \subseteq DOMAIN s.tasks
  BY DEF Outgoing, Occupied, Retries
<1>4. IsFiniteSet(Outgoing(s, r)) /\ IsFiniteSet(Retries(s, r))
  BY <1>2, <1>3, FS_Subset
<1> QED
  BY <1>4, FS_CardinalityType DEF Count

\* A new slot counts if connecting made it.
LEMMA CountNewPeer ==
    ASSUME NEW s \in Socket, NEW fd \in FD, NEW r \in Remote, NEW b \in BOOLEAN,
           NEW q \in Remote
    PROVE  LET t == AddPeer(s, fd, r, b)
           IN  /\ t.tasks = s.tasks
               /\ ~Full(s) => t \in Socket
               /\ Count(t, q) <= Count(s, q)
                     \/ (b /\ q = r /\ Count(t, q) <= Count(s, q) + 1)
<1> DEFINE p == [fd |-> fd, remote |-> r, should_reestablish |-> b]
<1> DEFINE t == AddPeer(s, fd, r, b)
<1>1. /\ s = [fd |-> s.fd, peers |-> s.peers, tasks |-> s.tasks]
      /\ s.peers \in Seq(Peer) /\ p \in Peer
  BY DEF Socket, Peer
<1>2. t = [fd |-> s.fd, peers |-> Append(s.peers, p), tasks |-> s.tasks]
  <2>1. t = [s EXCEPT !.peers = Append(s.peers, p)]
    BY DEF AddPeer
  <2> HIDE DEF t, p
  <2> QED
    BY <1>1, <2>1
<1>3. /\ t.tasks = s.tasks
      /\ \A k \in DOMAIN s.peers : t.peers[k] = s.peers[k]
      /\ t.peers[Len(s.peers) + 1] = p
      /\ DOMAIN t.peers = DOMAIN s.peers \cup {Len(s.peers) + 1}
  BY <1>1, <1>2
<1> HIDE DEF t, p
<1>4. Retries(t, q) = Retries(s, q)
  BY <1>3 DEF Retries
<1>4a. ~Full(s) => t \in Socket
  BY <1>1, <1>2 DEF Full, Socket
<1>4b. /\ IsFiniteSet(Outgoing(s, q)) /\ Cardinality(Outgoing(s, q)) \in Nat
       /\ Cardinality(Retries(s, q)) \in Nat
  BY Countable
<1>5. CASE b /\ q = r
  <2> DEFINE S == Outgoing(s, q)
             U == S \cup {Len(s.peers) + 1}
  <2>1. Outgoing(t, q) \subseteq U
    BY <1>3 DEF Outgoing, Occupied
  <2> HIDE DEF S
  <2>2. /\ IsFiniteSet(S) /\ Cardinality(S) \in Nat
        /\ IsFiniteSet(U)
        /\ Cardinality(U) = Cardinality(S) \/ Cardinality(U) = Cardinality(S) + 1
    BY <1>4b, FS_AddElement DEF S
  <2> HIDE DEF U
  <2>3. IsFiniteSet(Outgoing(t, q)) /\ Cardinality(Outgoing(t, q)) <= Cardinality(U)
    BY <2>1, <2>2, FS_Subset
  <2>4. Cardinality(Outgoing(t, q)) \in Nat
    BY <2>3, FS_CardinalityType
  <2>5. Cardinality(Outgoing(t, q)) <= Cardinality(S) + 1
    BY <2>2, <2>3, <2>4
  <2>6. Count(t, q) <= Count(s, q) + 1
    BY <1>4, <1>4b, <2>4, <2>5 DEF Count, S
  <2> QED
    BY <1>3, <1>4a, <1>5, <2>6 DEF t
<1>6. CASE ~(b /\ q = r)
  <2>1. Outgoing(t, q) = Outgoing(s, q)
    <3>1. Len(s.peers) + 1 \notin Outgoing(t, q)
      BY <1>3, <1>6 DEF Outgoing, p
    <3>2. \A k \in DOMAIN s.peers : k \in Outgoing(t, q) <=> k \in Outgoing(s, q)
      BY <1>3 DEF Outgoing, Occupied
    <3> QED
      BY <1>3, <3>1, <3>2 DEF Outgoing, Occupied
  <2> QED
    BY <1>3, <1>4, <1>4a, <1>4b, <2>1 DEF Count, t
<1> QED
  BY <1>5, <1>6

\* A slot that is given up does not count any more, if connecting made it.
LEMMA CountRemovedPeer ==
    ASSUME NEW s \in Socket, NEW k \in Occupied(s), NEW q \in Remote
    PROVE  LET t == removePeer(s, k)
               p == s.peers[k]
           IN  /\ t.tasks = s.tasks
               /\ Count(t, q) = Count(s, q)
                     - (IF p.should_reestablish /\ p.remote = q THEN 1 ELSE 0)
<1> DEFINE p == [s.peers[k] EXCEPT !.fd = Closed, !.remote = NoRemote]
<1> DEFINE t == removePeer(s, k)
<1>1. /\ s = [fd |-> s.fd, peers |-> s.peers, tasks |-> s.tasks]
      /\ s.peers \in Seq(Peer) /\ k \in DOMAIN s.peers
  BY DEF Socket, Occupied
<1>2. s.peers[k] \in Peer
  BY <1>1
<1>3. p.fd = Closed
  BY <1>2 DEF Peer
<1>4. t = [fd |-> s.fd, peers |-> [s.peers EXCEPT ![k] = p], tasks |-> s.tasks]
  <2>1. t = [s EXCEPT !.peers = [s.peers EXCEPT ![k] = p]]
    BY DEF removePeer
  <2> HIDE DEF t, p
  <2> QED
    BY <1>1, <2>1
<1> HIDE DEF t, p
<1>5. t.tasks = s.tasks /\ t.peers = [s.peers EXCEPT ![k] = p]
  BY <1>4
<1>6. /\ DOMAIN t.peers = DOMAIN s.peers /\ t.peers[k] = p
      /\ \A j \in DOMAIN s.peers \ {k} : t.peers[j] = s.peers[j]
  BY <1>1, <1>5
<1>7. Retries(t, q) = Retries(s, q)
  BY <1>5 DEF Retries
<1>8. Outgoing(t, q) = Outgoing(s, q) \ {k}
  BY <1>3, <1>6 DEF Outgoing, Occupied
<1>9. k \in Outgoing(s, q) <=> s.peers[k].should_reestablish /\ s.peers[k].remote = q
  BY DEF Outgoing
<1>10. Cardinality(Outgoing(t, q)) = IF k \in Outgoing(s, q)
                                     THEN Cardinality(Outgoing(s, q)) - 1
                                     ELSE Cardinality(Outgoing(s, q))
  BY <1>8, Countable, FS_RemoveElement
<1> QED
  BY <1>5, <1>7, <1>9, <1>10, Countable DEF Count, t

\* Only the task list of a socket changes: only the retries count.
LEMMA CountNewTasks ==
    ASSUME NEW s \in Socket, NEW tasks \in Seq(Task), NEW q \in Remote
    PROVE  LET t == [s EXCEPT !.tasks = tasks]
           IN  /\ t \in Socket /\ t.tasks = tasks /\ t.peers = s.peers
               /\ Count(t, q) = Count(s, q) - Cardinality(Retries(s, q))
                                            + Cardinality(Retries(t, q))
<1> DEFINE t == [s EXCEPT !.tasks = tasks]
<1>1. t \in Socket /\ t.peers = s.peers /\ t.tasks = tasks
  BY DEF Socket
<1> HIDE DEF t
<1>2. Outgoing(t, q) = Outgoing(s, q)
  BY <1>1 DEF Outgoing, Occupied
<1> QED
  BY <1>1, <1>2, Countable DEF Count, t

\* Losing a connection replaces a slot that counts by a task that does.
LEMMA CountLostPeer ==
    ASSUME NEW s \in Socket, SingleRuns(s), NEW k \in Occupied(s),
           s.peers[k].remote \in Remote, NEW q \in Remote
    PROVE  LET t == handleCommLostTcp(s, k)
           IN  SingleRuns(t) /\ Count(t, q) <= Count(s, q)
<1> DEFINE r == s.peers[k].remote
<1> DEFINE tasks == scheduleTask(s.tasks, ReestablishTask(r))
<1> DEFINE u == [s EXCEPT !.tasks = tasks]
<1> DEFINE t == handleCommLostTcp(s, k)
<1>1. CASE ~s.peers[k].should_reestablish
  <2>1. t = removePeer(s, k)
    BY <1>1 DEF handleCommLostTcp
  <2>2. t.tasks = s.tasks /\ Count(t, q) = Count(s, q)
    BY <1>1, <2>1, CountRemovedPeer, Countable
  <2> QED
    BY <2>2, Countable DEF SingleRuns
<1>2. CASE s.peers[k].should_reestablish
  <2>1. t = removePeer(u, k)
    BY <1>2 DEF handleCommLostTcp
  <2>2. s.tasks \in Seq(Task) /\ ReestablishTask(r) \in Task
    BY DEF Socket, ReestablishTask, createScheduledTask, Task
  <2>3. /\ tasks \in Seq(Task)
        /\ DOMAIN tasks = DOMAIN s.tasks \cup {Len(s.tasks) + 1}
        /\ Len(s.tasks) + 1 \notin DOMAIN s.tasks
        /\ \A i \in DOMAIN s.tasks : tasks[i] = s.tasks[i]
        /\ tasks[Len(s.tasks) + 1] = ReestablishTask(r)
    BY <2>2 DEF scheduleTask
  <2> HIDE DEF tasks
  <2>4. /\ u \in Socket /\ u.tasks = tasks /\ u.peers = s.peers
        /\ Count(u, q) = Count(s, q) - Cardinality(Retries(s, q)) + Cardinality(Retries(u, q))
    BY <2>3, CountNewTasks
  <2> HIDE DEF u, t
  <2>5. ReestablishTask(r).params = r /\ ReestablishTask(r).left = 1
        /\ ReestablishTask(r).repetitions = 1
    BY DEF ReestablishTask, createScheduledTask
  <2>6. Retries(u, q) = IF q = r THEN Retries(s, q) \cup {Len(s.tasks) + 1}
                                 ELSE Retries(s, q)
    BY <2>3, <2>4, <2>5 DEF Retries, Armed
  <2>7. Len(s.tasks) + 1 \notin Retries(s, q)
    BY <2>3 DEF Retries
  <2>8. Cardinality(Retries(u, q)) = Cardinality(Retries(s, q)) + (IF q = r THEN 1 ELSE 0)
    <3> DEFINE n == Len(s.tasks) + 1
    <3> HIDE DEF n
    <3>1. IsFiniteSet(Retries(s, q)) /\ Cardinality(Retries(s, q)) \in Nat
      BY Countable
    <3>2. Cardinality(Retries(s, q) \cup {n}) =
              IF n \in Retries(s, q) THEN Cardinality(Retries(s, q))
                                     ELSE Cardinality(Retries(s, q)) + 1
      BY <3>1, FS_AddElement
    <3> QED
      BY <2>6, <2>7, <3>1, <3>2 DEF n
  <2>9. Count(u, q) = Count(s, q) + (IF q = r THEN 1 ELSE 0)
    BY <2>4, <2>8, Countable
  <2>10. k \in Occupied(u) /\ u.peers[k] = s.peers[k]
    BY <2>4 DEF Occupied
  <2>11. t.tasks = u.tasks /\ Count(t, q) = Count(u, q) - (IF q = r THEN 1 ELSE 0)
    BY <1>2, <2>1, <2>4, <2>10, CountRemovedPeer
  <2>12. SingleRuns(t)
    BY <2>3, <2>4, <2>5, <2>11 DEF SingleRuns
  <2> QED
    BY <2>9, <2>11, <2>12, Countable DEF t
<1> QED
  BY <1>1, <1>2 DEF Socket, Peer, Occupied

\* A task that is launched does not count any more.
LEMMA CountLaunchedTask ==
    ASSUME NEW s \in Socket, SingleRuns(s), NEW i \in DOMAIN s.tasks, Due(s.tasks[i]),
           Launched(s.tasks, i) \in Seq(Task), NEW q \in Remote
    PROVE  LET t == [s EXCEPT !.tasks = Launched(s.tasks, i)]
           IN  /\ t \in Socket /\ SingleRuns(t)
               /\ Count(t, q) = Count(s, q) - (IF q = s.tasks[i].params THEN 1 ELSE 0)
<1> DEFINE u == Launched(s.tasks, i)
           t == [s EXCEPT !.tasks = u]
           task == [s.tasks[i] EXCEPT !.wait = s.tasks[i].delay,
                                      !.left = s.tasks[i].left - 1]
<1>1. s.tasks \in Seq(Task) /\ s.tasks[i] \in Task
  BY DEF Socket
<1>2. s.tasks[i].left = 1 /\ s.tasks[i].repetitions = 1
  <2>1. s.tasks[i].left \in Nat /\ s.tasks[i].left > 0
    BY <1>1 DEF Task, Due
  <2> QED
    BY <2>1 DEF SingleRuns
<1>3. task.left = 0 /\ task.repetitions = 1
  BY <1>1, <1>2 DEF Task
<1>4. u = [s.tasks EXCEPT ![i] = task]
  BY DEF Launched
<1> HIDE DEF task
<1>5. /\ u \in Seq(Task) /\ DOMAIN u = DOMAIN s.tasks /\ u[i] = task
      /\ \A j \in DOMAIN s.tasks \ {i} : u[j] = s.tasks[j]
  BY <1>1, <1>4
<1> HIDE DEF u
<1>6. /\ t \in Socket /\ t.tasks = u
      /\ Count(t, q) = Count(s, q) - Cardinality(Retries(s, q)) + Cardinality(Retries(t, q))
  BY <1>5, CountNewTasks
<1> HIDE DEF t
<1>7. Retries(t, q) = Retries(s, q) \ {i}
  BY <1>3, <1>5, <1>6 DEF Retries, Armed
<1>8. i \in Retries(s, q) <=> q = s.tasks[i].params
  BY <1>2 DEF Retries, Armed
<1>9. Cardinality(Retries(t, q)) =
          IF i \in Retries(s, q) THEN Cardinality(Retries(s, q)) - 1
                                 ELSE Cardinality(Retries(s, q))
  BY <1>7, Countable, FS_RemoveElement
<1>10. Count(t, q) = Count(s, q) - (IF q = s.tasks[i].params THEN 1 ELSE 0)
  BY <1>6, <1>8, <1>9, Countable
<1>11. SingleRuns(t)
  BY <1>3, <1>5, <1>6 DEF SingleRuns
<1> QED
  BY <1>6, <1>10, <1>11 DEF t, u

\* Time passing makes no task and ends none.
LEMMA CountElapsed ==
    ASSUME NEW s \in Socket, SingleRuns(s), Elapsed(s.tasks) \in Seq(Task), NEW q \in Remote
    PROVE  LET t == [s EXCEPT !.tasks = Elapsed(s.tasks)]
           IN  SingleRuns(t) /\ Count(t, q) = Count(s, q)
<1> DEFINE u == Elapsed(s.tasks)
           t == [s EXCEPT !.tasks = u]
<1>1. s.tasks \in Seq(Task)
  BY DEF Socket
<1>2. ASSUME NEW j \in DOMAIN s.tasks
      PROVE  /\ u[j].left = s.tasks[j].left /\ u[j].params = s.tasks[j].params
             /\ u[j].repetitions = s.tasks[j].repetitions
  <2>1. s.tasks[j] \in Task
    BY <1>1
  <2> QED
    BY <2>1 DEF Elapsed, Task
<1>3. DOMAIN u = DOMAIN s.tasks
  BY DEF Elapsed
<1> HIDE DEF u
<1>4. /\ t.tasks = u /\ t \in Socket
      /\ Count(t, q) = Count(s, q) - Cardinality(Retries(s, q)) + Cardinality(Retries(t, q))
  BY CountNewTasks DEF u
<1> HIDE DEF t
<1>5. Retries(t, q) = Retries(s, q)
  BY <1>2, <1>3, <1>4 DEF Retries, Armed
<1>6. SingleRuns(t)
  BY <1>2, <1>3, <1>4 DEF SingleRuns
<1> QED
  BY <1>4, <1>5, <1>6, Countable DEF t, u

\* What is still to connect is finite, and the next one counts until it is taken.
LEMMA PendingTail ==
    ASSUME NEW seq \in Seq(Remote), NEW q \in Remote
    PROVE  /\ IsFiniteSet(Pending(seq, q)) /\ Cardinality(Pending(seq, q)) \in Nat
           /\ seq # <<>> =>
                  Cardinality(Pending(Tail(seq), q)) =
                      Cardinality(Pending(seq, q)) - (IF q = Head(seq) THEN 1 ELSE 0)
<1>1. DOMAIN seq = 1 .. Len(seq) /\ Len(seq) \in Nat
  OBVIOUS
<1>2. IsFiniteSet(Pending(seq, q))
  <2>1. IsFiniteSet(DOMAIN seq)
    BY <1>1, FS_Interval
  <2>2. Pending(seq, q) \subseteq DOMAIN seq
    BY DEF Pending
  <2> QED
    BY <2>1, <2>2, FS_Subset
<1>3. Cardinality(Pending(seq, q)) \in Nat
  BY <1>2, FS_CardinalityType
<1>4. ASSUME seq # <<>>
      PROVE  Cardinality(Pending(Tail(seq), q)) =
                 Cardinality(Pending(seq, q)) - (IF q = Head(seq) THEN 1 ELSE 0)
  <2> DEFINE S == Pending(seq, q) \ {1}
             T == Pending(Tail(seq), q)
             f == [i \in S |-> i - 1]
  <2>1. /\ DOMAIN Tail(seq) = 1 .. Len(seq) - 1
        /\ \A i \in 1 .. Len(seq) - 1 : Tail(seq)[i] = seq[i + 1]
        /\ 1 \in DOMAIN seq /\ Head(seq) = seq[1]
    BY <1>4
  <2>2. \A i \in S : i \in 2 .. Len(seq) /\ seq[i] = q
    BY <1>1 DEF Pending
  <2>3. \A i \in 2 .. Len(seq) : seq[i] = q => i \in S
    BY <1>1 DEF Pending
  <2>4. \A i \in T : i \in 1 .. Len(seq) - 1 /\ seq[i + 1] = q
    BY <2>1 DEF Pending
  <2>5. \A i \in 1 .. Len(seq) - 1 : seq[i + 1] = q => i \in T
    BY <2>1 DEF Pending
  <2> HIDE DEF S, T
  <2>6. f \in [S -> T]
    <3>1. ASSUME NEW i \in S PROVE i - 1 \in T
      BY <1>1, <2>2, <2>5
    <3> QED
      BY <3>1
  <2>7. \A i, j \in S : f[i] = f[j] => i = j
    BY <1>1, <2>2
  <2>8. \A j \in T : \E i \in S : f[i] = j
    <3>1. ASSUME NEW j \in T PROVE j + 1 \in S /\ f[j + 1] = j
      BY <1>1, <2>3, <2>4
    <3> QED
      BY <3>1
  <2> HIDE DEF f
  <2>9. f \in Injection(S, T) /\ f \in Surjection(S, T)
    BY <2>6, <2>7, <2>8 DEF Injection, Surjection, IsInjective
  <2>10. ExistsBijection(S, T)
    BY <2>9 DEF ExistsBijection, Bijection
  <2>11. IsFiniteSet(S)
    BY <1>2, FS_RemoveElement DEF S
  <2>12. Cardinality(T) = Cardinality(S)
    BY <2>10, <2>11, FS_Bijection
  <2>13. Cardinality(S) = IF 1 \in Pending(seq, q) THEN Cardinality(Pending(seq, q)) - 1
                                                   ELSE Cardinality(Pending(seq, q))
    BY <1>2, FS_RemoveElement DEF S
  <2>14. 1 \in Pending(seq, q) <=> q = Head(seq)
    BY <2>1 DEF Pending
  <2> QED
    BY <1>3, <2>12, <2>13, <2>14 DEF T
<1> QED
  BY <1>2, <1>3, <1>4

------------------------------------------------------------------------------

\* What every step keeps of the numbers of connections: it takes that no task runs twice,
\* or a reestablishment would leave a second one behind.
CountInv ==
    /\ SingleRuns(socket)
    /\ \A q \in Remote :
          Count(socket, q) + Cardinality(Pending(connecting, q)) <= Configured(q)

LEMMA CountInit == Init => CountInv
<1> SUFFICES ASSUME Init PROVE CountInv
  OBVIOUS
<1>1. PICK fd \in FD : socket = createSocket(fd)
  BY DEF Init
<1>2. socket.peers = <<>> /\ socket.tasks = <<>> /\ connecting = Remotes
  BY <1>1 DEF Init, createSocket
<1>3. SingleRuns(socket)
  BY <1>2 DEF SingleRuns
<1>4. ASSUME NEW q \in Remote
      PROVE  Count(socket, q) + Cardinality(Pending(connecting, q)) <= Configured(q)
  <2>1. Outgoing(socket, q) = {} /\ Retries(socket, q) = {}
    BY <1>2 DEF Outgoing, Occupied, Retries
  <2>2. Count(socket, q) = 0
    BY <2>1, FS_EmptySet DEF Count
  <2>3. Configured(q) = Cardinality(Pending(connecting, q))
    BY <1>2 DEF Configured, Pending
  <2>4. Cardinality(Pending(connecting, q)) \in Nat
    BY <1>2, PendingTail
  <2> QED
    BY <2>2, <2>3, <2>4
<1> QED
  BY <1>3, <1>4 DEF CountInv

LEMMA CountStep == TcpInv /\ CountInv /\ [Next]_vars => CountInv'
<1> SUFFICES ASSUME TcpInv, CountInv, [Next]_vars PROVE CountInv'
  OBVIOUS
<1> USE DEF kernel
<1>1. /\ socket \in Socket /\ connecting \in Seq(Remote)
      /\ socket.tasks \in Seq(Task)
      /\ running => SocketOK(socket, DOMAIN conns)
      /\ selected \subseteq FD /\ \A fd \in selected : fd \in Ready
      /\ SingleRuns(socket)
  BY DEF TcpInv, TypeOK, SelectedReady, CountInv, Socket
<1>2. ASSUME NEW q \in Remote
      PROVE  /\ Count(socket, q) \in Nat
             /\ Cardinality(Pending(connecting, q)) \in Nat
             /\ Count(socket, q) + Cardinality(Pending(connecting, q)) <= Configured(q)
             /\ Configured(q) \in Nat
  <2>1. Configured(q) = Cardinality(Pending(Remotes, q))
    BY DEF Configured, Pending
  <2> QED
    BY <1>1, <2>1, Countable, PendingTail DEF CountInv
\* The process goes on and makes no connection, or does not change the socket at all.
<1>3. ASSUME SingleRuns(socket'), connecting' = connecting,
             \A q \in Remote : Count(socket', q) \in Nat /\ Count(socket', q) <= Count(socket, q)
      PROVE  CountInv'
  BY <1>2, <1>3 DEF CountInv
<1>4. CASE UNCHANGED <<socket, connecting>>
  BY <1>1, <1>2, <1>3, <1>4
<1>5. CASE End
  <2>1. socket' = socket /\ connecting' = <<>>
    BY <1>5 DEF End
  <2>2. ASSUME NEW q \in Remote PROVE Cardinality(Pending(connecting', q)) = 0
    BY <2>1, FS_EmptySet DEF Pending
  <2> QED
    BY <1>1, <1>2, <2>1, <2>2 DEF CountInv
\* connectSocketTcp, which takes r from the remotes to connect to or from the task list.
<1>6. ASSUME NEW r \in Remote, NEW tasks, ConnectTo(r, tasks),
             [socket EXCEPT !.tasks = tasks] \in Socket,
             SingleRuns([socket EXCEPT !.tasks = tasks]),
             \A q \in Remote :
                /\ Cardinality(Pending(connecting', q)) \in Nat
                /\ Count([socket EXCEPT !.tasks = tasks], q)
                      + Cardinality(Pending(connecting', q)) + (IF q = r THEN 1 ELSE 0)
                      <= Configured(q)
      PROVE  CountInv'
  <2> DEFINE s == [socket EXCEPT !.tasks = tasks]
  <2> HIDE DEF s
  <2>1. s \in Socket /\ SingleRuns(s)
    BY <1>6 DEF s
  <2>2. ASSUME NEW q \in Remote
        PROVE  /\ Cardinality(Pending(connecting', q)) \in Nat
               /\ Count(s, q) \in Nat /\ Configured(q) \in Nat
               /\ Count(s, q) + Cardinality(Pending(connecting', q))
                    + (IF q = r THEN 1 ELSE 0) <= Configured(q)
    BY <1>2, <1>6, <2>1, Countable DEF s
  <2>3. CASE Full(socket)
    <3>1. socket' = s
      BY <1>6, <2>3 DEF ConnectTo, s
    <3> QED
      BY <2>1, <2>2, <3>1 DEF CountInv
  <2>4. CASE ~Full(socket)
    <3>1. PICK fd \in FreeFd : socket' = AddPeer(s, fd, r, TRUE)
      BY <1>6, <2>4 DEF ConnectTo, connectPeer, s
    <3>2. fd \in FD
      BY DEF FreeFd
    <3>3. ~Full(s)
      <4>1. s.peers = socket.peers
        BY <1>1 DEF s, Socket
      <4> QED
        BY <2>4, <4>1 DEF Full
    <3>4. ASSUME NEW q \in Remote
          PROVE  /\ socket'.tasks = s.tasks /\ socket' \in Socket
                 /\ Count(socket', q) <= Count(s, q)
                       \/ (q = r /\ Count(socket', q) <= Count(s, q) + 1)
      BY <2>1, <3>1, <3>2, <3>3, CountNewPeer
    <3>5. socket'.tasks = s.tasks /\ socket' \in Socket
      BY <1>6, <3>4
    <3>6. ASSUME NEW q \in Remote
          PROVE  Count(socket', q) + Cardinality(Pending(connecting', q)) <= Configured(q)
      <4>1. Count(socket', q) \in Nat
        BY <3>5, Countable
      <4>2. CASE q = r
        BY <2>2, <3>4, <4>1, <4>2
      <4>3. CASE q # r
        BY <2>2, <3>4, <4>1, <4>3
      <4> QED
        BY <4>2, <4>3
    <3>7. SingleRuns(socket')
      BY <2>1, <3>5 DEF SingleRuns
    <3> QED
      BY <3>6, <3>7 DEF CountInv
  <2> QED
    BY <2>3, <2>4
<1>7. CASE Connect
  <2>1. /\ connecting # <<>> /\ connecting' = Tail(connecting)
        /\ ConnectTo(Head(connecting), socket.tasks)
    BY <1>7 DEF Connect
  <2>2. Head(connecting) \in Remote /\ connecting' \in Seq(Remote)
    BY <1>1, <2>1
  <2>3. [socket EXCEPT !.tasks = socket.tasks] = socket
    BY <1>1 DEF Socket
  <2>4. ASSUME NEW q \in Remote
        PROVE  /\ Cardinality(Pending(connecting', q)) \in Nat
               /\ Cardinality(Pending(connecting', q)) =
                    Cardinality(Pending(connecting, q))
                      - (IF q = Head(connecting) THEN 1 ELSE 0)
    BY <1>1, <2>1, <2>2, PendingTail
  <2>5. \A q \in Remote :
            /\ Cardinality(Pending(connecting', q)) \in Nat
            /\ Count(socket, q) + Cardinality(Pending(connecting', q))
                 + (IF q = Head(connecting) THEN 1 ELSE 0) <= Configured(q)
    BY <1>2, <2>4
  <2> QED
    BY <1>1, <1>6, <2>1, <2>2, <2>3, <2>5
<1>8. ASSUME NEW i \in DOMAIN socket.tasks, Launch(i)
      PROVE  CountInv'
  <2> DEFINE t == [socket EXCEPT !.tasks = Launched(socket.tasks, i)]
             r == socket.tasks[i].params
  <2>1. /\ running /\ Due(socket.tasks[i]) /\ connecting' = connecting
        /\ ConnectTo(r, Launched(socket.tasks, i))
    BY <1>8 DEF Launch, Looping
  <2>2. SocketOK(t, DOMAIN conns) /\ r \in Remote
    BY <1>1, <2>1, LaunchedTask
  <2>3. Launched(socket.tasks, i) \in Seq(Task)
    BY <1>1, <2>2 DEF SocketOK, Socket
  <2>4. ASSUME NEW q \in Remote
        PROVE  /\ t \in Socket /\ SingleRuns(t)
               /\ Count(t, q) = Count(socket, q) - (IF q = r THEN 1 ELSE 0)
    BY <1>1, <2>1, <2>3, CountLaunchedTask
  <2>5. t \in Socket /\ SingleRuns(t)
    BY <2>2, <2>4
  <2> HIDE DEF t, r
  <2>6. \A q \in Remote :
            /\ Cardinality(Pending(connecting', q)) \in Nat
            /\ Count(t, q) + Cardinality(Pending(connecting', q))
                 + (IF q = r THEN 1 ELSE 0) <= Configured(q)
    BY <1>2, <2>1, <2>4
  <2> QED
    BY <1>6, <2>1, <2>2, <2>5, <2>6 DEF t
<1>9. ASSUME NEW r \in Remote, Accept(r)
      PROVE  CountInv'
  <2>1. PICK fd \in FreeFd : socket' = AddPeer(socket, fd, r, FALSE)
    BY <1>9 DEF Accept, acceptPeer
  <2>2. ~Full(socket) /\ connecting' = connecting /\ fd \in FD
    BY <1>9 DEF Accept, FreeFd
  <2>3. ASSUME NEW q \in Remote
        PROVE  /\ socket'.tasks = socket.tasks /\ socket' \in Socket
               /\ Count(socket', q) <= Count(socket, q)
    BY <1>1, <2>1, <2>2, CountNewPeer
  <2>4. socket'.tasks = socket.tasks /\ socket' \in Socket
    BY <1>9, <2>3
  <2>5. SingleRuns(socket')
    BY <1>1, <2>4 DEF SingleRuns
  <2> QED
    BY <1>3, <2>2, <2>3, <2>4, <2>5, Countable
\* The walk gives up the slot of a descriptor that belongs to one.
<1>10. ASSUME NEW fd \in FD, Walks(fd), fd # socket.fd
       PROVE  LET k == findPeerByFd(socket, fd)
              IN  /\ SocketOK(socket, DOMAIN conns)
                  /\ k \in Occupied(socket) /\ socket.peers[k].remote \in Remote
  <2>1. running /\ fd \in DOMAIN conns
    BY <1>1, <1>10 DEF Walks, Ready
  <2> QED
    BY <1>1, <2>1, FindPeer DEF SocketOK, NamedRemotes
<1>11. ASSUME NEW fd \in FD, Walks(fd), fd # socket.fd, CommLost(fd)
       PROVE  CountInv'
  <2> DEFINE k == findPeerByFd(socket, fd)
  <2>1. /\ SocketOK(socket, DOMAIN conns)
        /\ k \in Occupied(socket) /\ socket.peers[k].remote \in Remote
    BY <1>10, <1>11
  <2>2. socket' = handleCommLostTcp(socket, k) /\ connecting' = connecting
    BY <1>11 DEF CommLost
  <2> HIDE DEF k
  <2>3. ASSUME NEW q \in Remote
        PROVE  SingleRuns(socket') /\ Count(socket', q) <= Count(socket, q)
    BY <1>1, <2>1, <2>2, CountLostPeer
  <2>4. socket' \in Socket
    BY <2>1, <2>2, LostPeer DEF SocketOK
  <2> QED
    BY <1>3, <2>1, <2>2, <2>3, <2>4, Countable
<1>12. ASSUME NEW fd \in FD, Walks(fd), fd # socket.fd, GracefulShutdown(fd)
       PROVE  CountInv'
  <2> DEFINE k == findPeerByFd(socket, fd)
  <2>1. SocketOK(socket, DOMAIN conns) /\ k \in Occupied(socket)
    BY <1>10, <1>12
  <2>2. socket' = removePeer(socket, k) /\ connecting' = connecting
    BY <1>12 DEF GracefulShutdown, handleGracefulShutdownTcp
  <2> HIDE DEF k
  <2>3. ASSUME NEW q \in Remote
        PROVE  Count(socket', q) <= Count(socket, q)
    <3>1. Count(socket, q) \in Nat
      BY <1>2
    <3>2. Count(socket', q) = Count(socket, q)
              - (IF socket.peers[k].should_reestablish /\ socket.peers[k].remote = q
                 THEN 1 ELSE 0)
      BY <1>1, <2>1, <2>2, CountRemovedPeer
    <3> QED
      BY <3>1, <3>2
  <2>4. socket' \in Socket /\ socket'.tasks = socket.tasks
    BY <2>1, <2>2, RemovedPeer DEF SocketOK
  <2>5. SingleRuns(socket')
    BY <1>1, <2>4 DEF SingleRuns
  <2> QED
    BY <1>3, <2>2, <2>3, <2>4, <2>5, Countable
<1>13. ASSUME NEW fd \in FD,
              ReceiveMessage(fd) \/ ReceiveNothing(fd) \/ ReceiveFails(fd) \/ ReceiveEnds(fd)
       PROVE  CountInv'
  BY <1>4, <1>5, <1>11, <1>12, <1>13
     DEF ReceiveMessage, ReceiveNothing, ReceiveFails, ReceiveEnds
<1>14. CASE Tick
  <2>1. /\ running /\ socket' = [socket EXCEPT !.tasks = Elapsed(socket.tasks)]
        /\ connecting' = connecting
    BY <1>14 DEF Tick
  <2>2. socket' \in Socket
    BY <1>1, <2>1, ElapsedSocket DEF SocketOK
  <2>3. Elapsed(socket.tasks) \in Seq(Task)
    BY <1>1, <2>1, <2>2 DEF Socket
  <2>4. ASSUME NEW q \in Remote
        PROVE  SingleRuns(socket') /\ Count(socket', q) = Count(socket, q)
    BY <1>1, <2>1, <2>3, CountElapsed
  <2>5. SingleRuns(socket')
    <3>1. CASE Remote = {}
      <4>1. Task = {}
        BY <3>1 DEF Task
      <4> QED
        BY <2>2, <4>1 DEF Socket, SingleRuns
    <3>2. CASE Remote # {}
      BY <2>4, <3>2
    <3> QED
      BY <3>1, <3>2
  <2>6. ASSUME NEW q \in Remote
        PROVE  Count(socket', q) \in Nat /\ Count(socket', q) <= Count(socket, q)
    BY <1>2, <2>4
  <2> QED
    BY <1>3, <2>1, <2>5, <2>6
<1>15. CASE ConnectFails \/ SendFails \/ Quit
  BY <1>5, <1>15 DEF ConnectFails, SendFails, Quit
<1>16. CASE Select \/ AcceptRefused \/ Environment
  BY <1>4, <1>16
     DEF Select, AcceptRefused, Environment, RemoteAccepts, RemoteShuts, Fails, Becomes,
         RemoteSends, RemoteConnects
<1>17. CASE UNCHANGED vars
  BY <1>4, <1>17 DEF vars
<1> QED
  BY <1>7, <1>8, <1>9, <1>13, <1>14, <1>15, <1>16, <1>17 DEF Next, LaunchAny, Serve

\* Reestablishing, accepting and losing connections, in any order, never make more
\* connections to a remote than the configuration asks for.
THEOREM NoSurplusConnectionHolds == Spec => []NoSurplusConnection
<1>1. TcpInv /\ CountInv => NoSurplusConnection
  BY DEF CountInv, NoSurplusConnection, Count, Pending
<1>2. TcpInv /\ CountInv /\ [Next]_vars => (TcpInv /\ CountInv)'
  BY InvStep, CountStep
<1>3. Init => TcpInv /\ CountInv
  BY InvInit, CountInit
<1> QED
  BY <1>1, <1>2, <1>3, PTL DEF Spec

=============================================================================
