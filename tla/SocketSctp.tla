------------------------------ MODULE SocketSctp ------------------------------
(****************************************************************************)
(* SocketSctp.c and the parts of Socket.c it uses, as functions of a        *)
(* socket.  A socket is a record of                                         *)
(*   fd      the descriptor of all associations that were not peeled off    *)
(*   peers   the used part of Socket.peers: the descriptor and the id of a  *)
(*           peeled off association, both 0 once the slot is closed         *)
(*   tasks   the reestablishments that are not over yet: no pointer leads   *)
(*           to such a task, so that one that is over is left out           *)
(****************************************************************************)

EXTENDS TaskScheduler, SequencesExt

CONSTANTS
    Remote,             \* the addresses of the other endpoints
    FD,                 \* the descriptors the kernel may give the task
    AssocId,            \* the ids the kernel may give an association
    peers_max_count

ASSUME DescriptorAssumption == FD \subseteq Nat \ {0}
ASSUME IdAssumption == AssocId \subseteq Nat \ {0}
ASSUME BoundAssumption == peers_max_count \in Nat

NULL == 0
Closed == 0

\* What the kernel tells the program about an association: it is up, could not be
\* made, was shut down, was lost, or anything else, a message among it, which only
\* goes to the log.  The id of one that could not be made is of no use to anybody.
Event == [state : {"up", "cant_start", "shutdown", "lost", "other"},
          assoc_id : AssocId \cup {NULL}, from : Remote]

Peer == [fd : FD \cup {Closed}, assoc_id : AssocId \cup {Closed}]

Task == [callback : {"reestablish"}, params : Remote,
         delay : Nat, repetitions : Nat \ {0}, wait : Nat, left : Nat]

Socket == {s \in [fd : FD, peers : Seq(Peer), tasks : Seq(Task)] :
              Len(s.peers) <= peers_max_count}

------------------------------------------------------------------------------

createSocket(fd) == [fd |-> fd, peers |-> <<>>, tasks |-> <<>>]

Full(s) == Len(s.peers) >= peers_max_count

\* One unit of time is the 5 seconds of scheduleReestablishment.
scheduleReestablishment(s, r) ==
    [s EXCEPT !.tasks = scheduleTask(s.tasks, createScheduledTask("reestablish", 1, 1, r))]

\* What is left of the task list when the due task i is launched.
LaunchedTask(s, i) == [s EXCEPT !.tasks = RemoveAt(s.tasks, i)]

\* Mutant of peelOff: the id of the association is not stored.
peelOffWithoutId(s, fd, id) ==
    [s EXCEPT !.peers = Append(s.peers, [fd |-> fd, assoc_id |-> Closed])]

\* sctp_peeloff has returned fd.
peelOff(s, fd, id) ==
    [s EXCEPT !.peers = Append(s.peers, [fd |-> fd, assoc_id |-> id])]

\* The first slot with the association, or NULL.
findPeerByAssocId(s, id) ==
    IF \E k \in DOMAIN s.peers : s.peers[k].assoc_id = id
    THEN CHOOSE k \in DOMAIN s.peers :
            /\ s.peers[k].assoc_id = id
            /\ \A j \in 1 .. k - 1 : s.peers[j].assoc_id # id
    ELSE NULL

\* Mutant of removePeer: the descriptor is closed, but stays in the slot.
removePeerKeepingFd(s, k) ==
    [s EXCEPT !.peers = [s.peers EXCEPT ![k] = [s.peers[k] EXCEPT !.assoc_id = Closed]]]

\* removePeer also closes the descriptor.  The slot stays in use.
removePeer(s, k) ==
    [s EXCEPT !.peers = [s.peers EXCEPT ![k] = [fd |-> Closed, assoc_id |-> Closed]]]

removeAssoc(s, id) == removePeer(s, findPeerByAssocId(s, id))

handleGracefulShutdown(s, id) == removeAssoc(s, id)

\* Mutant of handleCommLost: as handleGracefulShutdown.
handleCommLostForGood(s, id, r) == removeAssoc(s, id)

handleCommLost(s, id, r) == scheduleReestablishment(removeAssoc(s, id), r)

handleEstablishmentFailure(s, r) == scheduleReestablishment(s, r)

------------------------------------------------------------------------------

Occupied(s) == {k \in DOMAIN s.peers : s.peers[k].fd # Closed}
PeerFds(s) == {s.peers[k].fd : k \in Occupied(s)}

=============================================================================
