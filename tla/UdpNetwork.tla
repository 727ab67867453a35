----------------------------- MODULE UdpNetwork -----------------------------
(****************************************************************************)
(* Several UDP endpoints, each a network task of a process of its own, and  *)
(* the datagrams between them.  A datagram is delivered, in any order,      *)
(* before the next keep alive period passes anywhere, or it is lost; it is  *)
(* never duplicated (the endpoints of main.c are all on 127.0.0.1).         *)
(****************************************************************************)

EXTENDS SocketUdp, FiniteSets, Bags

CONSTANTS
    RemotesOf,  \* RemotesOf[n]: what endpoint n is configured to connect to
    MaxStarts,  \* how often endpoints start, all together, a bound
    MaxLost     \* how many datagrams are lost, a bound

ASSUME RemotesOfAssumption == RemotesOf \in [Remote -> Seq(Remote)]
ASSUME MaxAssumption == MaxStarts \in Nat /\ MaxLost \in Nat

Node == Remote
Message == {"ka", "kack", "text", "q"}
Datagram == [from : Node, to : Node, msg : Message]

VARIABLES
    sockets,    \* sockets[n]: the socket of n, as in SocketUdp
    up,         \* the endpoints that are in the loop of networkTask
    net,        \* the bag of datagrams in flight
    ticked,     \* the running endpoints whose clock is ahead of the others
    starts,     \* how many starts there were
    lost,       \* how many datagrams were lost
    together    \* together[a][b]: periods of a since both are up

networkVars == <<sockets, up, net, ticked, starts, lost, together>>

------------------------------------------------------------------------------

NetworkInit ==
    /\ sockets = [n \in Node |-> zeroedSocket]
    /\ up = {}
    /\ net = EmptyBag
    /\ ticked = {}
    /\ starts = 0 /\ lost = 0
    /\ together = [a \in Node |-> [b \in Node |-> 0]]

\* One copy of msg for every occupied slot, also when two slots have one remote.
ToEveryPeer(n, msg) ==
    LET s == sockets[n]
    IN  [d \in {[from |-> n, to |-> r, msg |-> msg] : r \in sendSocketUdpTo(s)} |->
            Cardinality(Slots(s, d.to))]

ToOne(n, r, msg) == SetToBag({[from |-> n, to |-> r, msg |-> msg]})

\* All clocks have moved by one period: a new one begins.
NextPeriod(ahead, running) == IF running \subseteq ahead THEN {} ELSE ahead

\* n is no longer up and its socket is closed.
Ends(n) ==
    /\ up' = up \ {n}
    /\ ticked' = NextPeriod(ticked \ {n}, up')
    /\ sockets' = [sockets EXCEPT ![n] = zeroedSocket]
    /\ together' = [a \in Node |-> [b \in Node |->
                        IF n \in {a, b} THEN 0 ELSE together[a][b]]]

\* connectSocketUdp: connected[k] is the socket after k iterations.
connectSocketUdp(remotes) ==
    LET connected[k \in 0 .. Len(remotes)] ==
            IF k = 0 THEN zeroedSocket
            ELSE handleCommUpUdp(connected[k - 1], remotes[k])
    IN  connected[Len(remotes)]

\* networkTask up to its loop: connectSocketUdp makes the slots and sends nothing.
Start(n) ==
    /\ n \notin up /\ starts < MaxStarts
    /\ up' = up \cup {n}
    /\ starts' = starts + 1
    /\ sockets' = [sockets EXCEPT ![n] = connectSocketUdp(RemotesOf[n])]
    /\ UNCHANGED <<net, ticked, lost, together>>

\* launchScheduledTasks runs one due task of n.
LaunchAt(n, i) ==
    LET s == sockets[n]
        task == s.tasks[i]
    IN  /\ n \in up /\ Due(task) /\ CallbackFindsPeer(s, i)
        /\ sockets' = [sockets EXCEPT ![n] = launchTask(s, i)]
        /\ net' = IF task.callback = "ping"
                  THEN net (+) ToOne(n, task.params, "ka")
                  ELSE net
        /\ UNCHANGED <<up, ticked, starts, lost, together>>

\* receiveSocket of m.to takes the datagram m; a quit from a stranger is fatal.
ReceiveAt(m) ==
    LET n == m.to
        s == sockets[n]
    IN  /\ n \in up
        /\ IF QuitFromStranger(s, m.from, m.msg)
           THEN /\ Ends(n)
                /\ net' = net (-) SetToBag({m})
           ELSE /\ sockets' = [sockets EXCEPT ![n] =
                                  handleMessageUdp(s, m.from, m.msg)]
                /\ net' = (net (-) SetToBag({m}))
                          (+) SetToBag({[from |-> n, to |-> r, msg |-> "kack"] :
                                            r \in AckTo(m.from, m.msg)})
                /\ UNCHANGED <<up, ticked, together>>
        /\ UNCHANGED <<starts, lost>>

\* Nobody is there to receive the datagram.
Vanish(m) ==
    /\ m.to \notin up
    /\ net' = net (-) SetToBag({m})
    /\ UNCHANGED <<sockets, up, ticked, starts, lost, together>>

Lose(m) ==
    /\ lost < MaxLost
    /\ net' = net (-) SetToBag({m})
    /\ lost' = lost + 1
    /\ UNCHANGED <<sockets, up, ticked, starts, together>>

\* sendSocket with a line of the user, when nothing else is in flight, a bound.
Say(n) ==
    /\ n \in up /\ net = EmptyBag
    /\ net' = net (+) ToEveryPeer(n, "text")
    /\ UNCHANGED <<sockets, up, ticked, starts, lost, together>>

\* The loop ends, for a quit or at the end of the lifetime: cleanUpSocket tells
\* every peer.
Quit(n) ==
    /\ n \in up
    /\ net' = net (+) ToEveryPeer(n, "q")
    /\ Ends(n)
    /\ UNCHANGED <<starts, lost>>

\* The process of n is killed, or a failed check ends it.
Crash(n) ==
    /\ n \in up
    /\ Ends(n)
    /\ UNCHANGED <<net, starts, lost>>

\* A period passes for n, which no other endpoint is more than one period behind.
TickAt(n) ==
    /\ n \in up \ ticked
    /\ net = EmptyBag
    /\ NoneDue(sockets[n].tasks)
    /\ ticked' = NextPeriod(ticked \cup {n}, up)
    /\ sockets' = [sockets EXCEPT ![n].tasks = Elapsed(@)]
    /\ together' = [together EXCEPT ![n] = [b \in Node |->
                        IF b \in up /\ @[b] < LostDelay THEN @[b] + 1 ELSE @[b]]]
    /\ UNCHANGED <<up, net, starts, lost>>

LaunchAnyAt(n) == \E i \in DOMAIN sockets[n].tasks : LaunchAt(n, i)
Deliver(m) == ReceiveAt(m) \/ Vanish(m)

NetworkNext ==
    \/ \E n \in Node :
          Start(n) \/ LaunchAnyAt(n) \/ Say(n) \/ Quit(n) \/ Crash(n) \/ TickAt(n)
    \/ \E m \in BagToSet(net) : Deliver(m) \/ Lose(m)

\* Threads run, time passes and the network delivers; nobody has to start, and
\* nothing has to be said.
NetworkFairness ==
    /\ \A n \in Node : WF_networkVars(LaunchAnyAt(n)) /\ WF_networkVars(TickAt(n))
    /\ WF_networkVars(\E m \in BagToSet(net) : Deliver(m))

NetworkSpec == NetworkInit /\ [][NetworkNext]_networkVars /\ NetworkFairness

------------------------------------------------------------------------------

NetworkTypeOK ==
    /\ sockets \in [Node -> Socket]
    /\ up \subseteq Node
    /\ IsABag(net) /\ BagToSet(net) \subseteq Datagram
    /\ ticked \subseteq up
    /\ starts \in 0 .. MaxStarts /\ lost \in 0 .. MaxLost
    /\ together \in [Node -> [Node -> 0 .. LostDelay]]

Knows(a, b) == Slots(sockets[a], b) # {}

\* b tells a that it ends, or told it in an earlier life.
QuitInFlight(a, b) == [from |-> b, to |-> a, msg |-> "q"] \in BagToSet(net)

\* An endpoint that knows another one keeps at least one slot for it once both have
\* been up for a whole comm lost delay (together) and while they stay up, if fewer
\* datagrams are lost than there are probes: pings, answers and the timers of both
\* ends fit together, also when the remote has two slots or has been lost and
\* reestablished before (SocketUdp.c:26-73, 96-100, 132-142).
PeerKept ==
    [][\A a, b \in Node :
          Knows(a, b) /\ a \in up' /\ lost < keep_alive_probes
          /\ together[a][b] >= LostDelay /\ ~QuitInFlight(a, b)
          => Knows(a, b)']_networkVars

Reconnects(a, b) == Pending(sockets[a], b, {"reestablish"})

\* When both are up and one knows the other, or is going to reconnect to it, in the
\* end they both know each other, also after a crash and a restart of one of them and
\* after they have lost each other: unless one ends again, takes its leave or has no
\* slot left (SocketUdp.c:51-56, 106-143, Socket.c:28-36).
EndpointsMeet ==
    \A a, b \in Node : a # b =>
        (({a, b} \subseteq up /\ (Knows(a, b) \/ Reconnects(a, b))) ~>
            \/ Knows(a, b) /\ Knows(b, a)
            \/ ~({a, b} \subseteq up) \/ QuitInFlight(a, b)
            \/ Full(sockets[a]) \/ Full(sockets[b]))

\* A quit message is always received from a peer that the endpoint knows.
QuitIsFromAPeer ==
    \A m \in BagToSet(net) :
        m.to \in up /\ m.msg = "q" => Knows(m.to, m.from)

=============================================================================
