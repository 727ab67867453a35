------------------------------ MODULE SocketTcp ------------------------------
(****************************************************************************)
(* SocketTcp.c and the parts of Socket.c it uses, as functions of a socket. *)
(* A socket is a record of                                                  *)
(*   fd      the listening descriptor                                       *)
(*   peers   the used part of Socket.peers: a slot has a descriptor, 0 once *)
(*           it is closed, its remote and whether it is to be reestablished *)
(*   tasks   the task list of the network task that owns the socket         *)
(****************************************************************************)

EXTENDS TaskScheduler

CONSTANTS
    Remote,             \* the addresses of the other endpoints
    NoRemote,           \* a remote whose port is 0
    FD,                 \* the descriptors the kernel may give the task
    peers_max_count

ASSUME RemoteAssumption == NoRemote \notin Remote
ASSUME DescriptorAssumption == FD \subseteq Nat \ {0}
ASSUME BoundAssumption == peers_max_count \in Nat

NULL == 0
Closed == 0

Peer == [fd : FD \cup {Closed}, remote : Remote \cup {NoRemote},
         should_reestablish : BOOLEAN]

Task == [callback : {"reestablish"}, params : Remote,
         delay : Nat, repetitions : Nat \ {0}, wait : Nat, left : Nat]

Socket == {s \in [fd : FD, peers : Seq(Peer), tasks : Seq(Task)] :
              Len(s.peers) <= peers_max_count}

\* One unit of time is the 5 seconds of scheduleReestablishment.
ReestablishTask(r) == createScheduledTask("reestablish", 1, 1, r)

------------------------------------------------------------------------------

createSocket(fd) == [fd |-> fd, peers |-> <<>>, tasks |-> <<>>]

Full(s) == Len(s.peers) >= peers_max_count

\* Mutant of findPeerByFd: the last slot of the same remote is returned.
findPeerOfSameRemote(s, fd) ==
    LET r == s.peers[CHOOSE k \in DOMAIN s.peers : s.peers[k].fd = fd].remote
    IN  CHOOSE k \in DOMAIN s.peers :
            /\ s.peers[k].remote = r
            /\ \A j \in k + 1 .. Len(s.peers) : s.peers[j].remote # r

\* The first slot with the descriptor fd, or NULL.
findPeerByFd(s, fd) ==
    IF \E k \in DOMAIN s.peers : s.peers[k].fd = fd
    THEN CHOOSE k \in DOMAIN s.peers :
            /\ s.peers[k].fd = fd
            /\ \A j \in 1 .. k - 1 : s.peers[j].fd # fd
    ELSE NULL

AddPeer(s, fd, r, reestablish) ==
    [s EXCEPT !.peers =
        Append(@, [fd |-> fd, remote |-> r, should_reestablish |-> reestablish])]

\* An iteration of connectSocketTcp, with the new descriptor fd.
connectPeer(s, fd, r) == AddPeer(s, fd, r, TRUE)

\* Mutant of acceptPeer: accepted connections are reestablished as well.
acceptReestablishing(s, fd, r) == AddPeer(s, fd, r, TRUE)

\* handleCommUpTcp after accept returned fd.
acceptPeer(s, fd, r) == AddPeer(s, fd, r, FALSE)

\* Mutant of removePeer: closeFd does not set the descriptor to 0.
removePeerKeepingFd(s, k) ==
    [s EXCEPT !.peers = [s.peers EXCEPT ![k] = [@ EXCEPT !.remote = NoRemote]]]

\* removePeer also closes the descriptor.  The slot stays in use.
removePeer(s, k) ==
    LET p == [s.peers[k] EXCEPT !.fd = Closed, !.remote = NoRemote]
    IN  [s EXCEPT !.peers = [s.peers EXCEPT ![k] = p]]

\* Mutant of handleCommLostTcp: no reestablishment is scheduled.
handleCommLostForGood(s, k) == removePeer(s, k)

handleCommLostTcp(s, k) ==
    LET p == s.peers[k]
        scheduled == [s EXCEPT !.tasks = scheduleTask(@, ReestablishTask(p.remote))]
    IN  removePeer(IF p.should_reestablish THEN scheduled ELSE s, k)

handleGracefulShutdownTcp(s, k) == removePeer(s, k)

------------------------------------------------------------------------------

Occupied(s) == {k \in DOMAIN s.peers : s.peers[k].fd # Closed}
PeerFds(s) == {s.peers[k].fd : k \in Occupied(s)}

\* The descriptors in open are those of the slots, each of one slot, and the listening
\* one is not among them.
OwnsDescriptors(s, open) ==
    /\ open = PeerFds(s)
    /\ s.fd \notin PeerFds(s)
    /\ \A j, k \in Occupied(s) : j # k => s.peers[j].fd # s.peers[k].fd

\* The open slots that were made by connecting to r, and the armed tasks that will
\* connect to r again.
Outgoing(s, r) == {k \in Occupied(s) :
                      s.peers[k].remote = r /\ s.peers[k].should_reestablish}
Retries(s, r) == {i \in DOMAIN s.tasks : Armed(s.tasks[i]) /\ s.tasks[i].params = r}
Kept(s, r) == Outgoing(s, r) # {} \/ Retries(s, r) # {} \/ Full(s)

=============================================================================
