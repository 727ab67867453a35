---------------------------- MODULE SctpEndpoint ----------------------------
(****************************************************************************)
(* One network task with an SCTP socket and the kernel's side of its        *)
(* associations: they come up, are shut down or lost at any time, also      *)
(* before their first notification was read, and each of them tells so in   *)
(* the queue of its descriptor.                                             *)
(****************************************************************************)

EXTENDS SocketSctp, FiniteSets

CONSTANTS
    Remotes,                \* the remotes of the configuration, a sequence
    selected_fds_max_count,
    MaxUnread               \* how much is unread at a time, a bound

ASSUME RemotesAssumption == Remotes \in Seq(Remote)
ASSUME SelectedAssumption == selected_fds_max_count \in Nat \ {0}
ASSUME UnreadAssumption == MaxUnread \in Nat
\* The task does not run out of descriptors.
ASSUME DescriptorsSuffice == IsFiniteSet(FD) /\ Cardinality(FD) > peers_max_count

VARIABLES
    socket,     \* the socket and its task list, as in SocketSctp
    connecting, \* what connectSocketSctp still has to connect at the start
    selected,   \* the selected descriptors that the walk has not served yet
    process,    \* "running", "ended" by the loop or a check, or "crashed" at NULL
    pending,    \* the remotes that associations are being made with
    assocs,     \* the kernel's associations that are up: their remote and descriptor
    queue       \* what is to be read from each open descriptor

kernel == <<pending, assocs, queue>>
vars == <<socket, connecting, selected, process, kernel>>

Assoc == [remote : Remote, fd : FD]

Running == process = "running"

------------------------------------------------------------------------------

Init ==
    /\ \E fd \in FD : socket = createSocket(fd) /\ queue = [f \in {fd} |-> <<>>]
    /\ connecting = Remotes
    /\ selected = {}
    /\ process = "running"
    /\ pending = {} /\ assocs = <<>>

EventsOf(fd) == {queue[fd][i] : i \in DOMAIN queue[fd]}
Events == UNION {EventsOf(fd) : fd \in DOMAIN queue}

\* An id that neither an association nor a notification bears.
FreeIds == AssocId \ (DOMAIN assocs \cup {e.assoc_id : e \in Events})

Associated(r) == r \in pending \/ \E id \in DOMAIN assocs : assocs[id].remote = r

Unread == Cardinality(UNION {{fd} \X DOMAIN queue[fd] : fd \in DOMAIN queue})

Notify(fd, state, id, r) ==
    /\ Unread < MaxUnread
    /\ queue' = [queue EXCEPT ![fd] =
                    Append(queue[fd], [state |-> state, assoc_id |-> id, from |-> r])]

\* An association with r is up, and so says the descriptor of all associations.  It
\* gets the lowest free id; the order of the ids means nothing to the code.
Up(r) ==
    \E id \in FreeIds :
        /\ \A i \in FreeIds : id <= i
        /\ assocs' = [i \in DOMAIN assocs \cup {id} |->
                         IF i = id THEN [remote |-> r, fd |-> socket.fd] ELSE assocs[i]]
        /\ Notify(socket.fd, "up", id, r)

\* The process is gone, and the kernel closes what is open.
Gone(how) ==
    /\ process' = how
    /\ pending' = {} /\ assocs' = <<>> /\ queue' = <<>>
    /\ selected' = {} /\ connecting' = <<>>
    /\ socket' = [socket EXCEPT !.tasks = <<>>]

\* connectSingleSocket on the descriptor of all associations: the connect fails, and
\* the check ends the process, if there is an association with the remote already.
ConnectTo(r) ==
    /\ ~Associated(r)
    /\ pending' = pending \cup {r}
    /\ UNCHANGED <<process, assocs, queue>>

\* One iteration of the loop of connectSocketSctp at the start.
Connect ==
    /\ Running /\ connecting # <<>>
    /\ \/ /\ ConnectTo(Head(connecting))
          /\ connecting' = Tail(connecting)
          /\ UNCHANGED <<socket, selected>>
       \/ Associated(Head(connecting)) /\ Gone("ended")

\* Between two walks of the loop of networkTask.
Looping == Running /\ connecting = <<>> /\ selected = {}

\* launchScheduledTasks runs a due reestablishment.
Launch(i) ==
    /\ Looping /\ Due(socket.tasks[i])
    /\ \/ /\ ConnectTo(socket.tasks[i].params)
          /\ socket' = LaunchedTask(socket, i)
          /\ UNCHANGED <<connecting, selected>>
       \/ Associated(socket.tasks[i].params) /\ Gone("ended")

\* Any other reason for which connect fails at once.
ConnectFails ==
    /\ Running
    /\ connecting # <<>> \/ (Looping /\ ~NoneDue(socket.tasks))
    /\ Gone("ended")

Ready == {fd \in DOMAIN queue : queue[fd] # <<>>}

\* selectFds: the lowest of the descriptors that have something to read, of those that
\* are put into the set.
selectFds ==
    LET ready == Ready \cap (PeerFds(socket) \cup {socket.fd})
    IN  {fd \in ready : Cardinality({f \in ready : f < fd}) < selected_fds_max_count}

Select ==
    /\ Looping /\ NoneDue(socket.tasks)
    /\ selectFds # {}
    /\ selected' = selectFds
    /\ UNCHANGED <<socket, connecting, process, kernel>>

\* The walk comes to fd, the lowest of those left, and reads event from it.
Reads(fd, event) ==
    /\ Running /\ fd \in selected
    /\ \A f \in selected : fd <= f
    /\ event = Head(queue[fd])

Served(fd) == selected' = selected \ {fd} /\ UNCHANGED <<connecting, process, pending>>

\* The descriptors that are open, and what is left in their queues once the first
\* event of fd was read and the descriptor closing was closed.
Rest(fd, closing) ==
    [f \in DOMAIN queue \ {closing} |-> IF f = fd THEN Tail(queue[f]) ELSE queue[f]]

\* The events of seq about one of ids, in their order: the k-th of them is the one up to
\* which there are k.
About(seq, ids) ==
    LET at == {i \in DOMAIN seq : seq[i].assoc_id \in ids}
        Rank(i) == Cardinality({j \in at : j <= i})
    IN  [k \in 1 .. Cardinality(at) |-> seq[CHOOSE i \in at : Rank(i) = k]]

\* sctp_peeloff moves what is queued for the association to its new descriptor.
Moved(fd, new, id) ==
    LET unread == Tail(queue[fd])
    IN  [f \in DOMAIN queue \cup {new} |->
            IF f = new THEN About(unread, {id})
            ELSE IF f = fd THEN About(unread, (AssocId \cup {NULL}) \ {id})
            ELSE queue[f]]

\* Mutant of PeelOff: the bound of the table is not looked at.
PeelOffUnchecked(fd, event) ==
    /\ Reads(fd, event)
    /\ event.state = "up" /\ event.assoc_id \in DOMAIN assocs
    /\ \E new \in FD \ DOMAIN queue :
          /\ socket' = peelOff(socket, new, event.assoc_id)
          /\ queue' = Moved(fd, new, event.assoc_id)
          /\ assocs' = [assocs EXCEPT ![event.assoc_id].fd = new]
    /\ Served(fd)

\* handleCommUp with room in the table; the association is still there.
PeelOff(fd, event) ==
    /\ Reads(fd, event)
    /\ event.state = "up" /\ ~Full(socket)
    /\ event.assoc_id \in DOMAIN assocs
    /\ \E new \in FD \ DOMAIN queue :
          /\ socket' = peelOff(socket, new, event.assoc_id)
          /\ queue' = Moved(fd, new, event.assoc_id)
          /\ assocs' = [assocs EXCEPT ![event.assoc_id].fd = new]
    /\ Served(fd)

\* ... it ended meanwhile: checkPeeloff, or a check of logPeerInfo, ends the process.
PeelOffFails(fd, event) ==
    /\ Reads(fd, event)
    /\ event.state = "up" /\ ~Full(socket)
    /\ event.assoc_id \notin DOMAIN assocs
    /\ Gone("ended")

\* handleCommUp with a full table, a notification that is only logged, or a message.
Ignore(fd, event) ==
    /\ Reads(fd, event)
    /\ event.state = "other" \/ (event.state = "up" /\ Full(socket))
    /\ queue' = Rest(fd, NULL)
    /\ Served(fd)
    /\ UNCHANGED <<socket, assocs>>

EstablishmentFailure(fd, event) ==
    /\ Reads(fd, event)
    /\ event.state = "cant_start"
    /\ socket' = handleEstablishmentFailure(socket, event.from)
    /\ queue' = Rest(fd, NULL)
    /\ Served(fd)
    /\ UNCHANGED assocs

\* The association of the event has a slot, whose descriptor is closed.
Removes(fd, event, how) ==
    /\ Reads(fd, event)
    /\ event.state = how
    /\ findPeerByAssocId(socket, event.assoc_id) # NULL
    /\ queue' = Rest(fd, socket.peers[findPeerByAssocId(socket, event.assoc_id)].fd)
    /\ Served(fd)
    /\ UNCHANGED assocs

GracefulShutdown(fd, event) ==
    /\ Removes(fd, event, "shutdown")
    /\ socket' = handleGracefulShutdown(socket, event.assoc_id)

CommLost(fd, event) ==
    /\ Removes(fd, event, "lost")
    /\ socket' = handleCommLost(socket, event.assoc_id, event.from)

\* removeAssoc gives removePeer what findPeerByAssocId has found: nothing.
RemovesNothing(fd, event) ==
    /\ Reads(fd, event)
    /\ event.state \in {"shutdown", "lost"}
    /\ findPeerByAssocId(socket, event.assoc_id) = NULL
    /\ Gone("crashed")

Serve ==
    \E fd \in selected, event \in Events :
        \/ PeelOff(fd, event) \/ PeelOffFails(fd, event) \/ Ignore(fd, event)
        \/ EstablishmentFailure(fd, event)
        \/ GracefulShutdown(fd, event) \/ CommLost(fd, event)
        \/ RemovesNothing(fd, event)

\* sendSocketSctp checks each send, and a send on an association that has ended fails.
SendFails ==
    /\ Looping
    /\ \E fd \in PeerFds(socket) : \A id \in DOMAIN assocs : assocs[id].fd # fd
    /\ Gone("ended")

\* The loop ends, and cleanUpSocket closes the descriptors.
Quit == Looping /\ Gone("ended")

\* Time passes, also while the walk goes on.
Tick ==
    /\ Running /\ connecting = <<>> /\ NoneDue(socket.tasks)
    /\ socket' = [socket EXCEPT !.tasks = Elapsed(socket.tasks)]
    /\ UNCHANGED <<connecting, selected, process, kernel>>

------------------------------------------------------------------------------

\* A remote makes an association.
RemoteConnects(r) ==
    /\ Running /\ ~Associated(r)
    /\ Up(r)
    /\ UNCHANGED <<socket, connecting, selected, process, pending>>

\* One that was being made is up, also if the remote was making one at the same time ...
ComesUp(r) ==
    /\ r \in pending /\ pending' = pending \ {r}
    /\ Up(r)
    /\ UNCHANGED <<socket, connecting, selected, process>>

\* ... or is refused or not answered.
CannotStart(r) ==
    /\ r \in pending /\ pending' = pending \ {r}
    /\ Notify(socket.fd, "cant_start", NULL, r)
    /\ UNCHANGED <<socket, connecting, selected, process, assocs>>

\* An association is shut down by its remote or lost.
Ends(id, how) ==
    /\ id \in DOMAIN assocs
    /\ assocs' = [i \in DOMAIN assocs \ {id} |-> assocs[i]]
    /\ Notify(assocs[id].fd, how, id, assocs[id].remote)
    /\ UNCHANGED <<socket, connecting, selected, process, pending>>

\* A message, or a notification that the code does not handle; one of each association is
\* unread at a time, a bound.
Tells(id) ==
    /\ id \in DOMAIN assocs
    /\ ~\E e \in Events : e.state = "other" /\ e.assoc_id = id
    /\ Notify(assocs[id].fd, "other", id, assocs[id].remote)
    /\ UNCHANGED <<socket, connecting, selected, process, pending, assocs>>

Environment ==
    \/ \E r \in Remote : RemoteConnects(r) \/ ComesUp(r) \/ CannotStart(r)
    \/ \E id \in AssocId : Ends(id, "shutdown") \/ Ends(id, "lost") \/ Tells(id)

LaunchAny == \E i \in DOMAIN socket.tasks : Launch(i)

Next ==
    \/ Connect \/ LaunchAny \/ ConnectFails
    \/ Select \/ Serve
    \/ SendFails \/ Quit
    \/ Tick
    \/ Environment

\* The thread of the network task runs and time passes; the remotes and the user need
\* not do anything.
Fairness ==
    WF_vars(Connect) /\ WF_vars(LaunchAny) /\ WF_vars(Select) /\ WF_vars(Serve)
    /\ WF_vars(Tick)

Spec == Init /\ [][Next]_vars /\ Fairness

------------------------------------------------------------------------------

TypeOK ==
    /\ socket \in Socket
    /\ connecting \in Seq(Remote)
    /\ selected \subseteq FD
    /\ process \in {"running", "ended", "crashed"}
    /\ pending \subseteq Remote
    /\ DOMAIN assocs \subseteq AssocId /\ assocs \in [DOMAIN assocs -> Assoc]
    /\ DOMAIN queue \subseteq FD /\ queue \in [DOMAIN queue -> Seq(Event)]

\* The slots in use and the peeled off descriptors match one to one, and whatever the
\* kernel has to say about the association of a slot, it says on the slot's descriptor:
\* no association is handled by the slot of another one, no descriptor leaks or is
\* closed twice (SocketSctp.c:94-132, Socket.c:222-252).  So what the walk has still to
\* serve is open and ready, and the receive of none waits or fails
\* (Socket.c:160-175, SocketSctp.c:238-240).
SlotsOwnAssociations ==
    Running =>
        /\ selected \subseteq Ready
        /\ DOMAIN queue = PeerFds(socket) \cup {socket.fd}
        /\ socket.fd \notin PeerFds(socket)
        /\ \A j, k \in Occupied(socket) :
              j # k => /\ socket.peers[j].fd # socket.peers[k].fd
                       /\ socket.peers[j].assoc_id # socket.peers[k].assoc_id
        /\ \A k \in Occupied(socket) :
              LET p == socket.peers[k]
              IN  /\ \A e \in EventsOf(p.fd) : e.assoc_id = p.assoc_id
                  /\ \A e \in EventsOf(socket.fd) : e.assoc_id # p.assoc_id
                  /\ \A id \in DOMAIN assocs : assocs[id].fd = p.fd <=> id = p.assoc_id

\* The task follows a NULL peer only when the table is full: as long as every
\* association found a slot, the end of each is told to a slot (SocketSctp.c:96-100,
\* 128-143).
CrashOnlyIfFull == process = "crashed" => Full(socket)

\* An association that is lost, or could not be made, is made again, by either end,
\* unless the process ends: no notification is left unread, and none is forgotten
\* (SocketSctp.c:115-118, 139-143).
LossIsRepaired ==
    \A r \in Remote :
        (\E e \in Events : e.from = r /\ e.state \in {"lost", "cant_start"})
            ~> (Associated(r) \/ ~Running)

=============================================================================
