# sctp_sandbox_c: TLA+ models, checks and proofs

The program is a playground for network protocols. One process runs an io
thread, which reads lines from the user, and one or more network tasks, each
with a socket of one protocol (SCTP, TCP, DCCP, UDP, UDP Lite, a Unix datagram
socket, or a pair of forked processes with seven channels between them). A line
typed by the user leaves through one of the sockets; `q` ends the program.

This directory holds the specifications of the program, the TLC configurations
that check them and the TLAPS proofs about them. All line numbers refer to
`src/src/`. `tools_c` is a submodule whose source is not part of the
repository: the asynchronous tasks, the task scheduler and the error checks are
modelled from how this repository uses them.

## Inventory

| component | state | operations | interacts through |
|---|---|---|---|
| chat slot (`Chat.c`) | the slot, the mutex and its flag, one buffer per thread | `chat` | called by all threads |
| io task (`IoTask.c`) | its line buffer | read a line, post it | `chat`, stdin |
| network task (`NetworkTask.c`, `StartTask.c`) | its socket, its scheduled tasks, time to die | start, loop (due tasks, receive, poll the slot, send), relay quit, clean up | `chat`, the socket |
| main (`main.c`) | the threads | start the tasks, join them | threads |
| task scheduler (`tools_c`) | the task list of a network task | schedule, reset, disable, launch | callbacks into the socket code |
| socket and peer slots (`Socket.c`) | peer table, task list | create, connect, receive, send, remove a peer, reestablish, clean up | dispatches to the protocol |
| UDP (`SocketUdp.c`) | two tasks per peer slot | come up, keep alive, loss, graceful shutdown | datagrams, scheduler |
| TCP, DCCP (`SocketTcp.c`, `SocketDccp.c`) | a descriptor per peer slot | accept, connect, receive, loss, send | streams, scheduler |
| SCTP (`SocketSctp.c`) | association and descriptor per slot | notifications, peel off, receive, send | associations, scheduler |
| Unix (`SocketUnix.c`) | a path per slot | come up, receive, graceful shutdown, send | datagrams |
| forked (`SocketUnixForked.c`) | descriptors, queues, shared memory, semaphores, global names | fork, receive and send on every channel, death signals | kernel objects, signals |
| descriptor set (`FDSet.c`) | the selected descriptors | select | all sockets |
| configuration (`NetworkConfiguration.c`, `NetworkProtocol.c`, `IPSocket.c`) | none | parse the arguments | main |
| socket options, error checks | none | constant calls; a failed check ends the process | all |

What is hard about it, and what makes each part correct:

* **chat slot.** Any number of threads; a mutex that is made on the first call.
  A call must be one indivisible exchange.
* **network tasks.** Every task polls the one slot, so lines compete with
  each other and the quit message has to be handed on from task to task, past
  tasks that have not started and tasks whose lifetime ends. A line must be
  sent once, in order; one quit message must end every thread; nothing else may
  end a task that has no lifetime.
* **UDP.** Keep alive over a network without connections: a table whose
  slots are never reused, two timers per slot, a third one for the
  reestablishment, and remotes that come back on their own before it is due. The
  timers must belong to the slots, a loss must mean silence, and nobody may be
  forgotten.
* **TCP and DCCP.** Descriptors that are closed and reused within one walk over
  the selected ones, accepts with a full table, connections that are lost,
  closed or reset at any time. A descriptor must belong to one slot, the walk
  must not meet one that is gone, a lost connection must be made again, once.
* **SCTP.** Associations that end before the program has read that they came up,
  notifications that move to another descriptor at the peel off, a full table.
  What the kernel says about an association must reach its slot and no other;
  a NULL peer must not be followed while there is room; a lost association must
  be made again.
* **Unix.** Datagrams without a connection: peers that were never there, are
  gone or do not read, quit messages from strangers. A peer that took its leave
  must be forgotten, and the configuration must be what the user wrote.
* **forked.** Signals before their handlers, the death of the parent just
  after the fork, names that outlive a killed process, semaphores that both
  processes wait on, a message queue with a limit. Neither process may outlive
  the other, a restart must succeed, an announcement must be true, and every line
  must arrive on every channel.

The list of hazards, each at its line and with the properties that cover it, is
in `PROJECT.json`.

## Modules

| module | models | kind |
|---|---|---|
| `Mailbox` | what `chat` promises: an indivisible exchange | abstract specification |
| `Chat` | `Chat.c`, one memory access at a time | implements `Mailbox` |
| `NetworkTask` | `IoTask.c`, `NetworkTask.c`, `main.c` over the exchange of `Mailbox` | composition of threads |
| `TaskScheduler` | the task list | external, operators |
| `SocketUdp` | `SocketUdp.c` and its part of `Socket.c`, as functions of a socket | operators |
| `UdpEndpoint` | one UDP network task against arbitrary remotes | component |
| `UdpNetwork` | several of them and the datagrams between them | composition |
| `SocketTcp` | `SocketTcp.c` and its part of `Socket.c`, as functions of a socket | operators |
| `TcpEndpoint` | one TCP or DCCP network task, `FDSet.c`, and the kernel's side of its connections | component |
| `SocketSctp` | `SocketSctp.c` and its part of `Socket.c`, as functions of a socket | operators |
| `SctpEndpoint` | one SCTP network task and the kernel's side of its associations | component |
| `NetworkConfiguration` | the argument parser, and what a command line means | operators, with a reference definition |
| `SocketUnix` | `SocketUnix.c` and its part of `Socket.c`, as functions of a socket | operators |
| `UnixNetwork` | several processes with a Unix socket, from their command lines to their end | composition |
| `ForkLifecycle` | the names, the fork, the signals and the end of a forked endpoint | component |
| `ForkedIpc` | the seven channels between its two processes | component |
| `MC*` | the instances TLC checks | |
| `ChatProofs`, `NetworkTaskProofs`, `UdpProofs`, `TcpEndpointProofs`, `SctpEndpointProofs`, `UnixNetworkProofs`, `ForkLifecycleProofs`, `ForkedIpcProofs` | theorems and lemmas | proofs |

### Chat and Mailbox

`Chat` has a step for each access to shared memory: the test of
`chat_mtx_init`, the store of a fresh mutex, the store of the flag, the lock,
the two halves of the exchange, the unlock. The two stores of `initChatMutex`
are plain and unsynchronised, so other threads may see them in either order
(`unstored`); a fresh mutex is unlocked, whoever had locked the old one. A
zeroed mutex, which a thread may lock if it sees the flag first, is an unlocked
mutex on the platforms the program is built for. `mtx_unlock` of a plain mutex
does not ask who locked it.

`FirstCallers` are the threads that may call `chat` before the mutex is known to
exist. With one of them (the start-up delays of `main.c`, a user slower than a
thread) the code is correct; with more it is not, which `chat_race` shows. The
theorems carry this as the hypothesis `OneFirstCall`. `MutexReady` in the guard of
`Call` is this timing and stands for no line of the code.

`chat_race` runs under `SpecInOrder`, where the two stores of `initChatMutex` are
seen in program order, so that reordering has no part in what it shows. In its
trace io finds the flag false and stores its mutex, mme finds the flag false as
well, io stores the flag and locks the mutex, and mme stores its mutex: nobody owns
the mutex although io is between `mtx_lock` and `mtx_unlock` (`LockIsHeld`). The
static initialiser of Chat.c:36, which is commented out, does not run again under a
thread that holds the lock; the initialisation in its place does. The proofs show
that `LockIsHeld` and `MutualExclusion` hold with one first caller.

The refinement maps the slot of `Mailbox` to `Slot`: the new message of the
thread that is between the two halves of its exchange, else `chat_msg`. The
exchange happens at `Save`; every other step stutters.

### NetworkTask

`chat_msg` and `old_chat_msg` are the two variables of `Mailbox`, changed only by
`chat(t, m)`, its `Exchange`; this is what `ImplementsMailbox` justifies. `pc`
is the position in the loop of a network task, `io` that of the io
thread, `sent` a history of what went to `sendSocket`. Line *n* is the *n*-th
line typed, so that "once and in order" is a comparison of numbers. The io
thread may be over before it began, since `ioTask` compares its buffer before
writing it. A failed check in any thread ends the process (`SocketFails`,
`ReadLineFails`). A line that is overwritten before a task polls is lost,
as in the code; nothing is claimed against it.

### SocketUdp, UdpEndpoint and UdpNetwork

A socket is a record of its used peer slots and the task list of its network
task. The functions of `SocketUdp` have the names of the C functions and take
and return such a record. A task pointer is a position in the task list, 0 is
`NULL`; tasks stay in the list when they are over, since a reset can start them
again. The parameters of a task are the remote they were created with. Time is
counted in keep alive periods: the loop takes 10 ms, a period is 1 s.

A datagram is `"ka"`, `"q"` or another text; `kack` is a text like any other to
its receiver. Addresses are model values, so the conversions of `IPSocket.c`
are not modelled.

`UdpEndpoint` lets any remote send anything whenever the loop receives. A
task that is due runs before a further period passes; a message may still be
received before it, since a task can come due while the loop waits in
`select`. `sendSocketUdp` does
not change the socket, so a line that is sent is no step here. Where the code
would follow a `NULL` pointer, `alive` becomes `FALSE` and the endpoint stops.
`known`, `doubled` and `silence` are history variables for the properties.

`UdpNetwork` puts such sockets on a network: a bag of datagrams in any order.
Endpoints start, quit (with `q` for every slot, from `cleanUpSocket`, also at
the end of a lifetime), crash and start again; up to `MaxLost` datagrams are
lost. The clocks of the running endpoints are at most one period apart and
a datagram arrives within a period (the endpoints of `main.c` are on
127.0.0.1). `together` counts the periods for which two endpoints were both up.

### SocketTcp and TcpEndpoint

Again the functions of `SocketTcp` take and return a socket, here with the
descriptors of its slots. `TcpEndpoint` adds the kernel's side: `conns` maps each
open descriptor to its connection, which is being made, open, closed by the
remote or failed, with at most one unread message; `backlog` holds the
connections that wait for `accept`. A new connection takes any descriptor that
is not open, also one that was closed a moment before. The remotes may act
between any two steps.

`receiveSocket` is split at its loop: `Select` stores the descriptors that
`selectFdSet` returns, lowest first and at most `selected_fds_max_count`, and
every further step serves the lowest one left. So a descriptor is always served
in a state that may differ from the one in which it was selected.

`protocol` is chosen once. DCCP shares connect, accept and both ends of a
connection with TCP and differs in what starts them: for DCCP the quit
message is the graceful shutdown and an empty receive the loss, for TCP an empty
receive is the graceful shutdown and an error the loss. A check that fails (a
connect that fails at once, a TCP send on a connection that is not up,
`getpeername` after a message of a connection that was reset, a DCCP receive
error) ends the process. One unit of time is the 5 s of a reestablishment. `wanted` is a history variable.

### SocketSctp and SctpEndpoint

A slot holds the descriptor and the id of a peeled off association. The kernel's
side is `pending` (associations being made), `assocs` (those that are up, with the
descriptor they report on) and `queue` (what is to be read from each open
descriptor). An association reports on the descriptor of the socket until it is
peeled off; `sctp_peeloff` moves what is queued for it (`Moved`). It may end
before that: then the peel off fails and the check ends the process.

The loop is split as in `TcpEndpoint`: `Select`, then one step per selected
descriptor, the lowest first. `process` becomes `"crashed"` where `removeAssoc`
passes on the NULL that `findPeerByAssocId` found, and `"ended"` at a failed check
or the end of the loop. A connect to a remote that has an association already
fails (`ConnectTo`); when both ends reestablish, this ends the later one, which
is what the code does. A message, a restart or an address change is one
event, `"other"`, since all of them are only logged. `About`, the events of a queue
about some associations, ranks their positions instead of filtering the sequence, since
the prover has no facts about filters.

### NetworkConfiguration, SocketUnix and UnixNetwork

`createNetworkConfiguration` walks over tokens as the loop of the C function
does, with its index and the list that it fills. `Meaning` says independently
what a command line, written as a sequence of settings, sockets and marks, stands
for; `ConfiguredAsWritten` compares the two in every process. Any list of arguments
can be written like this (`IsCommandLine`): the items are told apart by their first
token, and the last one may lack its second. The loops of the parser
and of `connectSocketUnix` are recursive functions of the number of iterations.

A process of `UnixNetwork` starts from a command line, connects to its remotes
(a slot for each, without a message), receives, sends slot by slot and ends; the
remotes may not be there yet, or any more. `sendSocketUnix` is one step per slot, so
that processes end or their queues fill between two sends. The kernel gives each
socket a new name, so a process is its path. Where a quit message finds no slot the
process crashes; `cause` remembers the sender and `spoken` who has sent whom a line.

### ForkLifecycle

Each process has a program: `initForkedSocket` is the sequence of operations
on names that the set up makes, `killChildOnParentDeath` and `cleanUpGlobals`
are those of the child's start and of every end. The actions carry out one
operation at a time, so any process of any start may be killed, and earlier starts may
clean up, between two of them. A signal is kept only if the process has a handler or
has requested it (`Hears`). `unnoticed` marks the starts whose child died before the
parent had installed its handler: that parent lives on, as in the code.
`overlapped` marks starts that set up at the same time.

### ForkedIpc

The loops of the parent and the child, one step per call on a channel. Streams
hold sets of lines, since lines are numbered in the order of sending and a read
takes the oldest or all of them; the message queue holds copies with
priorities. The shared integer of line *n* is *n*. `taken` and `ordinal` count
announcements for the property. Both processes try both semaphores, so the parent
may take what it has posted, as in the code; `isChild` keeps only the pipes to the
child. The child's `chat` has nothing for it, as nobody types into it.

## Runs

| run | instance | result |
|---|---|---|
| `chat` | 3 threads, 2 lines, one first caller; 10035 states | passes |
| `chat_race` | the same, any first caller, stores seen in program order | `LockIsHeld` is violated |
| `network_tasks` | the 3 tasks of `main.c`, one mortal, 3 lines; 72456 states | passes |
| `udp_endpoint` | one configured remote and a stranger, 4 slots, 2 probes; 458212 states | passes |
| `udp_flap` | the same | `NoFalseAlarm` is violated |
| `udp_pair` | 2 endpoints, 3 starts, 1 loss, 3 slots, 2 probes; 261613 states | passes |
| `udp_quit` | 2 endpoints, 2 starts, no loss | `QuitIsFromAPeer` is violated |
| `tcp_endpoint` | one configured remote and a stranger, TCP and DCCP, 2 slots, 3 descriptors, 2 of them per walk; 34140 states | passes |
| `sctp_endpoint` | one configured remote and a stranger, 2 slots, 3 descriptors, 2 association ids, 3 unread events; 355963 states | passes |
| `fork_lifecycle` | 2 starts; 1031072 states | passes |
| `forked_ipc` | 3 lines, 3 copies each, a queue of 6; 125172 states | passes |
| `unix_pair` | 3 processes, 3 command lines, 2 slots, queues of 2; 1632247 states | passes |

What they check:

* `chat`: at most one thread is in the critical section; the exchange is
  indivisible (refinement); a line is in one place at a time.
* `network_tasks`: the quit message, once posted, is in the slot or with the one
  task that is handing it on; no task ends unasked; lines are sent at most once
  and in order; a typed quit message ends the process.
* `udp_endpoint`: occupied slots own their tasks and no other keep alive task
  is armed; a loss finds its peer; a loss means that a peer was silent for all
  probes and a period (unless the remote had two slots); no known remote is
  forgotten; a lost remote is retried.
* `udp_pair`: endpoints that are both up keep each other, with a lost
  datagram, second slots and reestablishments; and they come to know each other
  after crashes and losses.
* `tcp_endpoint`: open descriptors and slots match one to one, so that none
  leaks and none is closed twice; what the walk has left is open, ready and
  has a slot; there are never more connections to a remote than configured; a
  lost connection is made again, unless the remote closed it or the table is
  full; every ready descriptor is selected, unless lower ones keep the walk busy.

* `sctp_endpoint`: whatever is told about the association of a slot is told on the
  slot's descriptor, descriptors and slots match one to one, and the walk meets
  only descriptors with something to read; a NULL peer is followed only when the
  table is full; a lost or refused association is made again, or the process ends.
* `fork_lifecycle`: a start that sets up alone finds every name free and opens its
  own pipe, whatever earlier starts left or are still removing; names
  stay behind only if both processes were killed; neither process outlives the
  other, but for a parent whose child died before its handler was there.
* `forked_ipc`: who takes the *n*-th announcement of a shared memory then reads the
  *n*-th line's number or a later one, and that line is by then in all other
  channels; every line arrives through every channel unless a process ends.
* `unix_pair`: a process runs with what its command line means; a peer that took
  its leave has no slot any more once its message is read; a crash at a quit
  message needs a full table, a sender that never sent a line, or one that was
  configured with the same peer twice.

The three violations are described under "findings" in `PROJECT.json`.

**Bounds.** Three threads are enough for a lock to be taken from one and given
to another while a third waits. Two lines (and the empty message) tell "once"
from "twice". Three tasks are those of the predefined configuration. Three lines
let two tasks send and one of them again. Four slots give an endpoint its
configured peer, the stranger, a loss with reestablishment and a second slot,
and reach the full table; `SlotsOwnTasks` and the others are proved
for every table. Two probes in place of three keep the order of the delays:
probe, last probe, loss, reestablishment (1, 2, 3, 4 against 1, 3, 4, 5).
Slots are never reused and each loss belongs to a slot, so the task lists are
bounded by the table and no state constraint is needed. Three starts are one
restart of either endpoint; one loss is one less than the probes. In
`UdpNetwork` the user types a line only when nothing else is in flight.
The TCP table has two slots, one for the configured remote and one for a stranger
or the reestablishment, so it is full in many states; three descriptors are
one more than that, so a closed one is soon used again; two per walk make a
walk of several steps, and the listening descriptor, which may be any of
the three, comes before, between or after the others. One connection waits
for `accept`, and one message for each connection. Descriptor ownership and the
walk are proved for every table, set of descriptors and walk.
The SCTP table of two slots is full with the configured remote and the stranger, and
then again after a loss; an id is used again once nothing bears it, so two ids are
enough for an association and the unread end of another one. Two starts let the
second one meet the residue and the late clean up of the first; the safety
properties are proved for any number. Programs of other protocols,
which also call `cleanUpGlobals` when they end, are not among the starts. A queue of
six holds two lines of three copies, so that a third one overflows it; the code has
five copies and a queue of ten, the same proportion, and that instance (987384
states) passes as well. Three processes let one send to two peers of which
the first is gone. The three command lines name no peer, two, and one
twice, with settings in several places, an unknown option and
incomplete ends; the tables hold two slots, so a third peer finds them full.

**Fairness.** The operating system runs every thread that can run, so the steps
of a network task and `PostLine` are weakly fair; so are the launch of due
tasks, the walk over the selected descriptors, the clock and the delivery of
datagrams, and in `ForkLifecycle` any step of any living process or a signal that is on its
way, in `ForkedIpc` the loop of each process. `UnixNetwork` needs none. The remotes of
`TcpEndpoint` and `SctpEndpoint` need not do anything. The user, the end of a lifetime,
failures, starts, quits, crashes and losses are not fair: nothing makes them
happen. `CHECK_DEADLOCK FALSE` stands only where the program may stop: the
process ends, an endpoint has died, nobody is up.

## Proofs

`tlapm` checks all eight proof modules without any omitted step. What is proved
holds for every set of threads, tasks, lines, remotes, descriptors, association ids,
processes and command lines, every table bound, every number of probes and every
reestablishment delay, every length of a queue, every number of starts, lines and copies.

* **`ChatProofs`**: `TypeCorrect`; under `OneFirstCall` also `ExclusionHolds`,
  `DeliveredOnceHolds` and the refinement `ChatImplementsMailbox`. Mutual
  exclusion is not inductive: the invariant adds that before the mutex is ready
  only the first caller is past `idle`, and that a thread in the
  critical section owns the mutex and has no store of `initChatMutex` left.
* **`NetworkTaskProofs`**: `TypeCorrect`, `QuitTokenHolds`, `NoUnaskedExitHolds`,
  `LinesSentOnceInOrderHolds`. The last one needs that the line in the slot, or
  about to be posted, is later than everything any task has handled.
* **`UdpProofs`**, about `UdpEndpoint`, begins with lemmas on what each function of `SocketUdp`
  preserves: the type, `OwnsTasks`, who is watched, which comm lost tasks go on waiting,
  who has which slots. From them `TypeCorrect`, `SlotsOwnTasksHolds`,
  `CommLostFindsPeerHolds` and `NotForgottenHolds` follow with one inductive
  invariant. An armed comm lost task belongs
  to an occupied slot of its own remote, so its callback finds a slot, though
  perhaps another one of the same remote; the second slot, or the
  reestablishment scheduled just before, then keeps the remote watched.
  `LossMeansSilenceHolds` needs a second invariant over the first: for a remote
  that never had two slots, what its task has still to wait and what the
  remote has been silent make up the whole delay (`SilenceCounted`); that such a
  remote has one slot at most; and that no time passes before all remotes are
  connected (`UntouchedAtStart`), because with a full table connecting a remote
  again resets its silence and not its task.
* **`UdpProofs`**, about `UdpNetwork`: `NetworkTypeCorrect` and the action property
  `PeerKeptHolds`, for any number of endpoints, whatever each is configured with, any
  number of starts and losses. That two endpoints keep each other is an argument
  across both ends and the datagrams between them, so `NetworkInv` has parts of three
  kinds. Of each endpoint: the socket is well-formed, and the two timers of every slot run
  together (`InTime`): the probes sent and those left make up the periods for which
  the comm lost task has waited. Of each pair: only periods with both up are counted
  (`TogetherWhileUp`), and a quit message is gone before the first one ends
  (`QuitBeforePeriod`). And what carries the proof, `HeardFrom`: as long as fewer
  datagrams are lost than there are probes, a slot that has waited only while both were
  up has waited at most one period for every lost datagram, and one more only while
  a probe, an answer or a timer is still due (`Answered`). It cannot be said of each
  slot alone. A datagram resets the first slot of its sender, so a second slot may
  wait longer; its comm lost task then takes the first one, which is not the
  slot it was started for, and leaves the second as a spare that no timer can take any
  more. Hence the alternatives in `Answered`: a spare, or the first slot has
  been heard from. The lemmas say what each function of `SocketUdp` does to `InTime`
  and `Answered`, and what sending and taking do to the bag of datagrams.
* **`TcpEndpointProofs`**: `TypeCorrect`, `SlotsOwnDescriptorsHolds`,
  `SelectedAreServableHolds`, `WantedKeptHolds`. The lemmas say what adding,
  removing and losing a peer do to the slots, their descriptors and the remotes
  that are kept. The invariant adds that a slot in use has the address of a
  remote, which the reestablishment needs, and that what is selected is ready.
  That no step of the walk closes a descriptor it has still to serve
  follows because `findPeerByFd` returns the slot of the very descriptor, which
  in turn needs that no two slots share one. `NoSurplusConnectionHolds` counts:
  connections made, reestablishments scheduled and connects still to come at the start
  are together at most the configured ones (`CountInv`). A loss removes one of the
  first kind before it adds one of the second, and a reestablishment is over when it
  connects, which takes that no task runs twice (`SingleRuns`).
* **`SctpEndpointProofs`**: `TypeCorrect`, `SlotsOwnAssociationsHolds`,
  `CrashOnlyIfFullHolds`. The invariant `SctpInv` adds what the kernel's queues hold:
  an association comes up once and on the descriptor of the socket (`UpsOnce`),
  one whose end is still to be read is not there any more (`EndedAreGone`),
  and the id of a slot is that of an association which is there or whose end is
  still to be read (`SlotsHaveIds`); so the kernel cannot give that id to another
  association meanwhile. For `CrashOnlyIfFull`: as long as the table is not full, an
  association without a slot is still to be told to be up, and that before its
  end (`Announced`). The peel off splits a queue in two; lemmas about `About` say that
  both halves keep the order of their events.
* **`UnixNetworkProofs`**: `TypeCorrect`, `ConfiguredAsWrittenHolds`,
  `NoSlotForTheGoneHolds`, `CrashNeedsSilenceHolds`.
  The invariant relates each pair of a sender and a receiver.
  Behind a quit message in a queue come only further ones of a sender that was
  configured with the receiver twice (`InOrder`). A quit message is there only after its
  sender has passed the slot of the receiver (`QuitIsLate`). After a line in
  either direction the receiver knows the sender, has a full table, or has the
  line still to read, until the sender has left (`Acquainted`): this excludes
  the crash. As long as the receiver has a slot for one that has left it, the quit
  message is still unread (`GoneIsTold`). The lemma `Connected` says that the connecting
  loop gives every remote the slot at its place.
  `ConfiguredAsWrittenHolds` rests on `ParsedAsWritten`: the parser makes of any
  command line what it means. After *k* iterations it stands behind item *k*,
  fills the list that the marks so far tell it to, and has made the meaning of the items up to
  there (`ReadUpTo`). For the step, `ParseItem` says what an
  iteration does with each kind of item, `MeaningOfMore` what an item adds to the
  meaning (a setting becomes the greatest position of its option, a socket the last in
  its list), and `Flattened` where the tokens of an item are among the arguments. The
  loop stops with at most one argument left, which means nothing.
  All of these are inductions over the number of iterations. They are done with the
  least iteration that would go wrong (`LeastElement`, from the well-foundedness of
  inclusion on finite sets); `Iterated` says that a function defined by its
  iterations exists, without which nothing is known of it.
* **`ForkedIpcProofs`**: `TypeCorrect`, `AnnouncementIsTrueHolds`. The invariant counts
  the lines that the parent is through with at each place of its loop: for each memory,
  the semaphore and what was taken from it add up to that number, the integer is
  at least as new, and every such line is in a channel or was heard. The order of
  `sendSocketUnixForked` enters exactly there.
* **`ForkLifecycleProofs`**: `TypeCorrect`, `RestartSucceedsHolds`,
  `ResidueOnlyIfBothKilledHolds`. For the restart: while a start sets up alone,
  each name is free, or its own, in a given range of its steps, and nobody else
  creates a name; a late clean up can only free more. For the residue: a name of a start
  whose processes are ending is one that a step still to come removes.

Assumptions: the named ASSUMEs of the modules (distinct constants, finite
natural bounds; for `UnixNetwork` that its command lines are lists of arguments whose
addresses are names of sockets, and that they configure a Unix socket and no more
sockets than the arrays hold), which TLC evaluates on the instances, and
`OneFirstCall` where stated.

**Only model-checked.** Liveness (`QuitEndsTheProcess`, `LostPeerIsRetried`,
`EndpointsMeet`, `LostIsRetried`, `ReadyIsServed`, `LossIsRepaired`, `EndTogether`,
`LinesArrive`) and everything that involves ENABLED. All safety invariants and action
properties of the passing runs are proved. RECURSIVE operators are out of the prover's
reach, and no module under proof uses one. In a CASE whose guards overlap, TLC takes
the first arm and TLA+ any, so the guards of `ParseArg` exclude each other.

## Not modelled

* Log output, the backtrace handlers and the argument log of `main.c`.
* Socket options (`SocketConfiguration.c`): constant calls without state.
* Address formatting (`IPSocket.c`): an address is a model value.
* The computation of `time_to_die`; a lifetime may end at any time.
* The length of messages, and a TCP stream that joins two messages into one or
  starts with a zero byte. A message that fills the buffer is terminated one byte
  behind it (SocketTcp.c:86, SocketSctp.c:241), in `peers[0].assoc_id`, which SCTP
  uses: what is said of SCTP slots is said of shorter messages.
* Running out of descriptors.
* Duplicated datagrams: the endpoints of `main.c` share one host.
* `connectMultihomedSocket`, which nothing calls, and the bind of an SCTP socket.
* The chat mutex and slot that the child of a fork inherits: a line in the slot ends
  the child at its first send, which `End` and `Quit` allow for; a mutex that another
  thread held at the fork would stop the child, whose end is then that of its parent.
* A command line with more than four sockets of a kind: it writes behind the array
  of the configuration, and nothing is defined then (`ConfigurationSuffices`).
* The quit branch of `handleMessageUnixForked`: a quit message ends the loop of
  the parent before it is sent, so nobody receives one.

## Plan

Written, in this order: `Mailbox`, `Chat`, `NetworkTask`, `TaskScheduler`,
`SocketUdp`, `UdpEndpoint`, `UdpNetwork`, `SocketTcp`, `TcpEndpoint`, `SocketSctp`,
`SctpEndpoint`, `ForkLifecycle`, `ForkedIpc`, `NetworkConfiguration`, `SocketUnix`,
`UnixNetwork`, and the proofs about all components. Left:

1. Liveness, which the checks show on the instances only.
2. A refinement from `UdpNetwork` to one `UdpEndpoint` per node. A start of
   `UdpNetwork` connects to all remotes in one step and `UdpEndpoint` in several, so no
   map of states does it; the invariants of the network are proved directly
   instead, from the same lemmas about `SocketUdp`.
