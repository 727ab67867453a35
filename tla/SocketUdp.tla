------------------------------ MODULE SocketUdp ------------------------------
(****************************************************************************)
(* SocketUdp.c and the parts of Socket.c it uses, as functions of a socket. *)
(* A socket is a record of                                                  *)
(*   peers   the used part of Socket.peers (peer_count is its length); each *)
(*           slot has the remote, NoRemote once its port is 0, and the two  *)
(*           task pointers                                                  *)
(*   tasks   the task list of the network task that owns the socket         *)
(****************************************************************************)

EXTENDS TaskScheduler

CONSTANTS
    Remote,             \* the addresses of the other endpoints
    NoRemote,           \* a remote whose port is 0
    peers_max_count,
    keep_alive_probes,
    ReestablishDelay    \* the 5 seconds of scheduleReestablishment, in periods

ASSUME RemoteAssumption == NoRemote \notin Remote
ASSUME BoundAssumption ==
    /\ peers_max_count \in Nat
    /\ keep_alive_probes \in Nat \ {0}
    /\ ReestablishDelay \in Nat \ {0}

NULL == 0
keep_alive_period == 1

LostDelay == keep_alive_period * (keep_alive_probes + 1)

Peer == [remote : Remote \cup {NoRemote}, ping_task : Nat, comm_lost_task : Nat]

Task == [callback : {"ping", "commLost", "reestablish"}, params : Remote,
         delay : Nat, repetitions : Nat \ {0}, wait : Nat, left : Nat]

zeroedSocket == [peers |-> <<>>, tasks |-> <<>>]

PingTask(r) ==
    createScheduledTask("ping", keep_alive_period, keep_alive_probes, r)
CommLostTask(r) == createScheduledTask("commLost", LostDelay, 1, r)
ReestablishTask(r) == createScheduledTask("reestablish", ReestablishDelay, 1, r)

------------------------------------------------------------------------------

\* The first slot of r, or NULL.
findPeerByRemote(s, r) ==
    IF \E k \in DOMAIN s.peers : s.peers[k].remote = r
    THEN CHOOSE k \in DOMAIN s.peers :
            /\ s.peers[k].remote = r
            /\ \A j \in 1 .. k - 1 : s.peers[j].remote # r
    ELSE NULL

\* Mutant of removePeer: the tasks of the peer are not disabled.
RemoveKeepingTasks(s, k) ==
    [s EXCEPT !.peers[k] = [remote |-> NoRemote, ping_task |-> NULL,
                            comm_lost_task |-> NULL]]

\* Mutant of removePeer: only the ping task is disabled.
RemoveKeepingCommLost(s, k) ==
    [RemoveKeepingTasks(s, k) EXCEPT
        !.tasks = disableTask(s.tasks, s.peers[k].ping_task)]

\* removePeer for a peer that exists: disableTasks, and the port becomes 0.  The
\* slot stays in use, peer_count never goes down.
removePeer(s, k) ==
    [peers |-> [s.peers EXCEPT ![k] =
                    [remote |-> NoRemote, ping_task |-> NULL, comm_lost_task |-> NULL]],
     tasks |-> disableTask(disableTask(s.tasks, s.peers[k].ping_task),
                           s.peers[k].comm_lost_task)]

\* Mutant of handleCommUpUdp: the bound check is off by one.
CommUpOverflowing(s, r) ==
    IF Len(s.peers) > peers_max_count
    THEN s
    ELSE [peers |-> Append(s.peers, [remote |-> r,
                                     ping_task |-> Len(s.tasks) + 1,
                                     comm_lost_task |-> Len(s.tasks) + 2]),
          tasks |-> scheduleTask(scheduleTask(s.tasks, PingTask(r)), CommLostTask(r))]

\* connect or first message: a slot of its own for r, whether or not r has one
\* already, unless the table is full.
handleCommUpUdp(s, r) ==
    IF Len(s.peers) >= peers_max_count
    THEN s
    ELSE [peers |-> Append(s.peers, [remote |-> r,
                                     ping_task |-> Len(s.tasks) + 1,
                                     comm_lost_task |-> Len(s.tasks) + 2]),
          tasks |-> scheduleTask(scheduleTask(s.tasks, PingTask(r)), CommLostTask(r))]

\* connectSocketUdp for the first of the remotes, and what is left to connect.
connectFirst(s, remotes) == handleCommUpUdp(s, Head(remotes))

\* Mutant of reestablish: the callback does not connect.
ReestablishNothing(s, r) == s

\* The callback of the reestablish task: connectSocket with one remote.
reestablish(s, r) == connectFirst(s, <<r>>)

scheduleReestablishment(s, r) ==
    [s EXCEPT !.tasks = scheduleTask(s.tasks, ReestablishTask(r))]

\* Mutant of handleCommLostUdp: no reestablishment is scheduled.
CommLostForGood(s, r) == removePeer(s, findPeerByRemote(s, r))

\* commLost, when findPeerByRemote finds the peer.
handleCommLostUdp(s, r) ==
    removePeer(scheduleReestablishment(s, r), findPeerByRemote(s, r))

\* Mutant of resetTasks: the comm lost task runs on.
ResetPingOnly(s, k) == [s EXCEPT !.tasks = resetTask(@, s.peers[k].ping_task)]

resetTasks(s, k) ==
    [s EXCEPT !.tasks = resetTask(resetTask(s.tasks, s.peers[k].ping_task),
                                  s.peers[k].comm_lost_task)]

\* removePeer and with it disableTasks would follow a NULL pointer.
QuitFromStranger(s, r, msg) == msg = "q" /\ findPeerByRemote(s, r) = NULL

\* A datagram msg from r, one that does not follow NULL.
handleMessageUdp(s, r, msg) ==
    LET k == findPeerByRemote(s, r)
    IN  CASE msg = "q" -> removePeer(s, k)
          [] msg # "q" /\ k # NULL -> resetTasks(s, k)
          [] msg # "q" /\ k = NULL -> handleCommUpUdp(s, r)

\* Where handleMessageUdp sends an answer, and where sendSocketUdp sends a message.
AckTo(r, msg) == IF msg = "ka" THEN {r} ELSE {}
sendSocketUdpTo(s) ==
    {s.peers[k].remote : k \in DOMAIN s.peers} \ {NoRemote}

\* A scheduled task i runs; NULL where its callback does not find its peer.
CallbackFindsPeer(s, i) ==
    s.tasks[i].callback = "commLost" => findPeerByRemote(s, s.tasks[i].params) # NULL

launchTask(s, i) ==
    LET launched == [s EXCEPT !.tasks = Launched(s.tasks, i)]
        task == s.tasks[i]
    IN  CASE task.callback = "ping" -> launched
          [] task.callback = "commLost" -> handleCommLostUdp(launched, task.params)
          [] task.callback = "reestablish" -> reestablish(launched, task.params)
------------------------------------------------------------------------------

Socket == {s \in [peers : Seq(Peer), tasks : Seq(Task)] :
              Len(s.peers) <= peers_max_count}

Slots(s, r) == {k \in DOMAIN s.peers : s.peers[k].remote = r}
Occupied(s) == {k \in DOMAIN s.peers : s.peers[k].remote # NoRemote}
Full(s) == Len(s.peers) >= peers_max_count

\* Slot k points to a ping and a comm lost task of its own remote.
PointsToTasks(s, k) ==
    LET p == s.peers[k]
    IN  /\ p.ping_task \in DOMAIN s.tasks /\ p.comm_lost_task \in DOMAIN s.tasks
        /\ s.tasks[p.ping_task].callback = "ping"
        /\ s.tasks[p.comm_lost_task].callback = "commLost"
        /\ s.tasks[p.ping_task].params = p.remote
        /\ s.tasks[p.comm_lost_task].params = p.remote

\* Every occupied slot has its two tasks, shares them with no other, and no other
\* keep alive task is armed.
OwnsTasks(s) ==
    /\ \A k \in Occupied(s) : PointsToTasks(s, k)
    /\ \A j, k \in Occupied(s) : j # k =>
          /\ s.peers[j].ping_task # s.peers[k].ping_task
          /\ s.peers[j].comm_lost_task # s.peers[k].comm_lost_task
    /\ \A i \in DOMAIN s.tasks :
          Armed(s.tasks[i]) /\ s.tasks[i].callback # "reestablish" =>
              \E k \in Occupied(s) :
                  i \in {s.peers[k].ping_task, s.peers[k].comm_lost_task}

Pending(s, r, callbacks) ==
    \E i \in DOMAIN s.tasks :
        /\ Armed(s.tasks[i])
        /\ s.tasks[i].params = r
        /\ s.tasks[i].callback \in callbacks

\* A silent r will be declared lost or reconnected, or the table is full.
Watched(s, r) == Pending(s, r, {"commLost", "reestablish"}) \/ Full(s)

=============================================================================
