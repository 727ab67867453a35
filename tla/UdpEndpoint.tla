----------------------------- MODULE UdpEndpoint -----------------------------
(****************************************************************************)
(* One network task with a UDP (or UDP Lite) socket, against remotes that   *)
(* may send it anything at any time.  The loop of networkTask is much       *)
(* faster than a keep alive period: a task that is due runs before the next *)
(* period is over.                                                          *)
(****************************************************************************)

EXTENDS SocketUdp, FiniteSets

CONSTANTS
    Remotes     \* the remotes of the configuration, a sequence

ASSUME RemotesAssumption == Remotes \in Seq(Remote)

Incoming == {"ka", "text", "q"}    \* "text" stands for any other, "kack" too

VARIABLES
    socket,     \* the socket and its task list, as in SocketUdp
    connecting, \* what connectSocketUdp still has to connect at the start
    alive,      \* FALSE once the code has followed a NULL pointer
    known,      \* the remotes connected to or heard from since they last quit
    doubled,    \* the remotes that ever had two slots at a time
    silence     \* silence[r]: periods since r was last heard, or got its first slot

history == <<known, doubled, silence>>
vars == <<socket, connecting, alive, history>>

------------------------------------------------------------------------------

Init ==
    /\ socket = zeroedSocket
    /\ connecting = Remotes
    /\ alive = TRUE
    /\ known = {} /\ doubled = {}
    /\ silence = [r \in Remote |-> 0]

\* The history after the socket became s in a step that is about r.
Remember(r, s, knows, heard) ==
    /\ known' = IF knows THEN known \cup {r} ELSE known \ {r}
    /\ doubled' = IF Cardinality(Slots(s, r)) > 1 THEN doubled \cup {r} ELSE doubled
    /\ silence' = IF heard THEN [silence EXCEPT ![r] = 0] ELSE silence

\* One iteration of the loop of connectSocketUdp.
Connect ==
    /\ connecting # <<>>
    /\ socket' = connectFirst(socket, connecting)
    /\ connecting' = Tail(connecting)
    /\ Remember(Head(connecting), socket', TRUE, TRUE)
    /\ UNCHANGED alive

\* The loop of networkTask is running.
Looping == alive /\ connecting = <<>>

\* launchScheduledTasks runs one due task.
Launch(i) ==
    /\ Looping /\ Due(socket.tasks[i])
    /\ IF CallbackFindsPeer(socket, i)
       THEN /\ socket' = launchTask(socket, i)
            /\ LET task == socket.tasks[i]
                   r == task.params
               IN  Remember(r, socket', r \in known \/ task.callback = "reestablish",
                            Slots(socket, r) = {} /\ Slots(socket', r) # {})
            /\ UNCHANGED <<connecting, alive>>
       ELSE /\ alive' = FALSE
            /\ UNCHANGED <<socket, connecting, history>>

\* receiveSocket finds a datagram on the only socket of the endpoint; a task may
\* have come due while it waited.
Receive(r, msg) ==
    /\ Looping
    /\ IF QuitFromStranger(socket, r, msg)
       THEN /\ alive' = FALSE
            /\ UNCHANGED <<socket, connecting, history>>
       ELSE /\ socket' = handleMessageUdp(socket, r, msg)
            /\ Remember(r, socket', msg # "q", msg # "q")
            /\ UNCHANGED <<connecting, alive>>

\* A period passes; silence is counted up to the longest delay that matters.
Tick ==
    /\ Looping /\ NoneDue(socket.tasks)
    /\ socket' = [socket EXCEPT !.tasks = Elapsed(socket.tasks)]
    /\ silence' = [r \in Remote |->
                      IF silence[r] < LostDelay THEN silence[r] + 1 ELSE silence[r]]
    /\ UNCHANGED <<connecting, alive, known, doubled>>

LaunchAny == \E i \in DOMAIN socket.tasks : Launch(i)

Next ==
    \/ Connect
    \/ LaunchAny
    \/ \E r \in Remote, msg \in Incoming : Receive(r, msg)
    \/ Tick

\* The thread of the network task runs and time passes; no remote has to send.
Fairness == WF_vars(Connect) /\ WF_vars(LaunchAny) /\ WF_vars(Tick)

Spec == Init /\ [][Next]_vars /\ Fairness

------------------------------------------------------------------------------

TypeOK ==
    /\ socket \in Socket
    /\ connecting \in Seq(Remote)
    /\ alive \in BOOLEAN
    /\ known \subseteq Remote /\ doubled \subseteq Remote
    /\ silence \in [Remote -> Nat]

\* Each occupied slot points to a ping and a comm lost task of its own remote, no
\* two slots share a task, and every keep alive task that is still armed belongs to
\* an occupied slot: removePeer leaves no task behind that would ping or lose a peer
\* that is gone (Socket.c:52-64, 244-252).
SlotsOwnTasks == OwnsTasks(socket)

\* When commLost runs, findPeerByRemote finds a slot to remove (SocketUdp.c:55), also
\* when an earlier commLost for a second slot of the same remote took the first one.
CommLostFindsPeer ==
    \A i \in DOMAIN socket.tasks :
        Due(socket.tasks[i]) => CallbackFindsPeer(socket, i)

DueLoss(i) == Due(socket.tasks[i]) /\ socket.tasks[i].callback = "commLost"

\* A peer that never had two slots is declared lost only when nothing was heard from
\* it for all the probes and one period more (SocketUdp.c:67, 96-100, 137).
LossMeansSilence ==
    \A i \in DOMAIN socket.tasks :
        DueLoss(i) /\ socket.tasks[i].params \notin doubled =>
            silence[socket.tasks[i].params] >= LostDelay

\* The same for every peer that has not quit, whether or not it had two slots.
NoFalseAlarm ==
    \A i \in DOMAIN socket.tasks :
        LET r == socket.tasks[i].params
        IN  DueLoss(i) /\ r \in known => silence[r] >= LostDelay

\* A remote that was connected to or heard from and has not quit since is watched by
\* a comm lost task or about to be reconnected, unless the table is full
\* (SocketUdp.c:51-56, 77): which slots come and go never makes it forgotten.
NotForgotten == \A r \in known : Watched(socket, r)

\* A remote that is known but has no slot gets one again, unless it quits, the table
\* is full or the endpoint dies: the scheduled reestablishment happens.
LostPeerIsRetried ==
    \A r \in Remote :
        (r \in known /\ Slots(socket, r) = {}) ~>
            (Slots(socket, r) # {} \/ r \notin known \/ Full(socket) \/ ~alive)

=============================================================================
