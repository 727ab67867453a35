----------------------------- MODULE UnixNetwork -----------------------------
(****************************************************************************)
(* Processes with a Unix datagram socket each, started from a command line, *)
(* and the queues of their sockets.  The kernel gives every new socket a    *)
(* name that was not used before, so that a process is its path here; a     *)
(* program that is started again is another process.                        *)
(****************************************************************************)

EXTENDS SocketUnix, NetworkConfiguration

CONSTANTS
    CommandLine,    \* the command lines that the program is started with
    QueueLimit      \* how many datagrams the queue of a socket holds

\* What is parsed as an address may be any argument.
IPSocket(addrs) == [addr : addrs, port : Nat]
Configuration(addrs) ==
    [protocol : {"sctp", "tcp", "udp", "udp_lite", "dccp", "unix", "fork"},
     path_mtu : Nat, max_seg : Nat, big_msg_size : Nat,
     locals : Seq(IPSocket(addrs)), remotes : Seq(IPSocket(addrs))]

ASSUME QueueAssumption == QueueLimit \in Nat
ASSUME LineAssumption == \A items \in CommandLine : IsCommandLine(items)
\* The names of sockets are all that is connected to, whether there is such a socket or not.
ASSUME AddressAssumption ==
    \A items \in CommandLine :
        LET c == createNetworkConfiguration(Args(items))
        IN  /\ \A k \in DOMAIN c.locals : c.locals[k].addr \in Path
            /\ \A k \in DOMAIN c.remotes : c.remotes[k].addr \in Path
\* No more sockets of a kind than there is room for in a configuration.
ASSUME ConfigurationSuffices ==
    \A items \in CommandLine :
        /\ Len(Meaning(items).locals) <= 4 /\ Len(Meaning(items).remotes) <= 4
        /\ Meaning(items).protocol = "unix"

VARIABLES
    phase,      \* what each process is doing
    written,    \* the command line it was started with
    config,     \* the configuration made of it
    sockets,    \* sockets[n]: the socket of n, as in SocketUnix
    next,       \* the slot that a process comes to next while it sends
    queue,      \* the unread datagrams of each socket, oldest first
    spoken,     \* the pairs of sender and receiver of a line, a history variable
    cause       \* whose quit message each process has crashed at

vars == <<phase, written, config, sockets, next, queue, spoken, cause>>

Node == Path
Datagram == [from : Node, msg : Message]

------------------------------------------------------------------------------

Init ==
    /\ phase = [n \in Node |-> "unborn"]
    /\ written = [n \in Node |-> <<>>]
    /\ config = [n \in Node |-> zeroedConfiguration]
    /\ sockets = [n \in Node |-> <<>>]
    /\ next = [n \in Node |-> 1]
    /\ queue = [n \in Node |-> <<>>]
    /\ spoken = {}
    /\ cause = [n \in Node |-> NoPath]

Up(n) == phase[n] \in {"looping", "sending", "quitting"}

\* connectSocketUnix: connected[k] is the socket after k iterations.
connectSocketUnix(remotes) ==
    LET connected[k \in 0 .. Len(remotes)] ==
            IF k = 0 THEN <<>>
            ELSE handleCommUpUnix(connected[k - 1], remotes[k].addr)
    IN  connected[Len(remotes)]

\* main and networkTask up to its loop; bindSocketUnix names the socket.
Begin(n, items) ==
    LET parsed == createNetworkConfiguration(Args(items))
    IN  /\ phase[n] = "unborn"
        /\ parsed.protocol = "unix"
        /\ phase' = [phase EXCEPT ![n] = "looping"]
        /\ written' = [written EXCEPT ![n] = items]
        /\ config' = [config EXCEPT ![n] = parsed]
        /\ sockets' = [sockets EXCEPT ![n] = connectSocketUnix(parsed.remotes)]
        /\ UNCHANGED <<next, queue, spoken, cause>>

\* The process is gone, and what it has not read as well.
Ends(n, how) ==
    /\ phase' = [phase EXCEPT ![n] = how]
    /\ queue' = [queue EXCEPT ![n] = <<>>]
    /\ next' = [next EXCEPT ![n] = 1]

\* handleMessageUnix with the oldest datagram.
Receive(n) ==
    /\ phase[n] = "looping" /\ queue[n] # <<>>
    /\ LET m == Head(queue[n])
       IN  IF QuitFromStranger(sockets[n], m.from, m.msg)
           THEN /\ Ends(n, "crashed")
                /\ cause' = [cause EXCEPT ![n] = m.from]
                /\ UNCHANGED sockets
           ELSE /\ sockets' = [sockets EXCEPT ![n] =
                                  handleMessageUnix(sockets[n], m.from, m.msg)]
                /\ queue' = [queue EXCEPT ![n] = Tail(queue[n])]
                /\ UNCHANGED <<phase, next, cause>>
    /\ UNCHANGED <<written, config, spoken>>

\* sendSocketUnix begins: with a line of the user, or with the quit message that
\* cleanUpSocket sends when the loop is over.
Say(n) ==
    /\ phase[n] = "looping"
    /\ phase' = [phase EXCEPT ![n] = "sending"]
    /\ UNCHANGED <<written, config, sockets, next, queue, spoken, cause>>

Quit(n) ==
    /\ phase[n] = "looping"
    /\ phase' = [phase EXCEPT ![n] = "quitting"]
    /\ UNCHANGED <<written, config, sockets, next, queue, spoken, cause>>

Sending(n) == phase[n] \in {"sending", "quitting"}
MessageOf(n) == IF phase[n] = "sending" THEN "text" ELSE "q"

\* The slots that the loop of sendSocketUnix has still to come to.
ToCome(n) == {k \in Occupied(sockets[n]) : k >= next[n]}
Reachable(r) == Up(r) /\ Len(queue[r]) < QueueLimit

\* sendto puts the message into the queue of the peer.
SendTo(n, k) ==
    /\ Sending(n) /\ k = Min(ToCome(n))
    /\ LET r == sockets[n][k]
       IN  /\ Reachable(r)
           /\ queue' = [queue EXCEPT ![r] =
                           Append(queue[r], [from |-> n, msg |-> MessageOf(n)])]
           /\ spoken' = IF phase[n] = "sending" THEN spoken \cup {<<n, r>>} ELSE spoken
    /\ next' = [next EXCEPT ![n] = k + 1]
    /\ UNCHANGED <<phase, written, config, sockets, cause>>

\* The peer is gone or was never there, or its queue is full: checkSend ends the
\* process, whoever else was to get the message.
SendFails(n, k) ==
    /\ Sending(n) /\ k = Min(ToCome(n))
    /\ ~Reachable(sockets[n][k])
    /\ Ends(n, "failed")
    /\ UNCHANGED <<written, config, sockets, spoken, cause>>

\* The message was sent to every peer: back to the loop, or the socket is closed.
SentToAll(n) ==
    /\ Sending(n) /\ ToCome(n) = {}
    /\ IF phase[n] = "sending"
       THEN /\ phase' = [phase EXCEPT ![n] = "looping"]
            /\ next' = [next EXCEPT ![n] = 1]
            /\ UNCHANGED queue
       ELSE Ends(n, "over")
    /\ UNCHANGED <<written, config, sockets, spoken, cause>>

Kill(n) ==
    /\ Up(n)
    /\ Ends(n, "failed")
    /\ UNCHANGED <<written, config, sockets, spoken, cause>>

SendStep(n) ==
    \/ \E k \in ToCome(n) : SendTo(n, k) \/ SendFails(n, k)
    \/ SentToAll(n)

Next ==
    \E n \in Node :
        \/ \E items \in CommandLine : Begin(n, items)
        \/ Receive(n)
        \/ Say(n) \/ Quit(n) \/ SendStep(n)
        \/ Kill(n)

Spec == Init /\ [][Next]_vars

------------------------------------------------------------------------------

TypeOK ==
    /\ phase \in [Node -> {"unborn", "looping", "sending", "quitting", "over", "failed",
                           "crashed"}]
    /\ written \in [Node -> CommandLine \cup {<<>>}]
    /\ config \in [Node -> Configuration(Path)]
    /\ sockets \in [Node -> Socket]
    /\ next \in [Node -> 1 .. peers_max_count + 1]
    /\ queue \in [Node -> Seq(Datagram)] /\ \A n \in Node : Len(queue[n]) <= QueueLimit
    /\ spoken \subseteq Node \X Node
    /\ cause \in [Node -> Node \cup {NoPath}]

\* The program runs with what its command line says: each setting the last one given,
\* the sockets in front of -r as local ones, those behind it as remotes, in their order,
\* and nothing of an incomplete argument at the end (NetworkConfiguration.c:45-73).
ConfiguredAsWritten ==
    \A n \in Node : phase[n] # "unborn" => config[n] = Meaning(written[n])

Configured(n, r) ==
    {k \in DOMAIN config[n].remotes : config[n].remotes[k].addr = r}

\* A peer that has taken its leave gets no more messages: once it is over, its slot is
\* gone or the quit message is still to be read; unless it did not know of the slot, or
\* it is in the configuration twice (SocketUnix.c:27-31, 71-75, Socket.c:195-198,
\* 244-252).  So a process fails at such a peer only if it had not heard of its end.
NoSlotForTheGone ==
    \A a, b \in Node :
        Up(a) /\ phase[b] = "over" /\ Slots(sockets[a], b) # {} =>
            \/ [from |-> b, msg |-> "q"] \in {queue[a][i] : i \in DOMAIN queue[a]}
            \/ Slots(sockets[b], a) = {}
            \/ Cardinality(Configured(a, b)) > 1

\* A process crashes at a quit message only if its table is full, or if the sender was
\* configured with it and has never sent it a line, or was so twice
\* (SocketUnix.c:27-31, 71-81).
CrashNeedsSilence ==
    \A n \in Node :
        LET b == cause[n]
        IN  phase[n] = "crashed" =>
                \/ Full(sockets[n])
                \/ Configured(b, n) # {} /\ <<b, n>> \notin spoken
                \/ Cardinality(Configured(b, n)) > 1

=============================================================================
