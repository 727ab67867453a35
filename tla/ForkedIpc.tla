------------------------------ MODULE ForkedIpc ------------------------------
(****************************************************************************)
(* The channels between the two processes of a forked endpoint              *)
(* (SocketUnixForked.c): every line of the parent goes into a socket pair,  *)
(* a pipe, a named pipe, several times into a message queue, and as a       *)
(* number into two shared memories, each announced by a semaphore that both *)
(* processes wait on.  When one process ends, so does the other, as         *)
(* ForkLifecycle shows.                                                     *)
(****************************************************************************)

EXTENDS Naturals, FiniteSets

CONSTANTS
    MaxLines,       \* how many lines the parent sends, a bound; line n is the n-th
    Copies,         \* how often a line is put into the message queue: 5
    QueueLimit      \* how much a message queue holds: 10

ASSUME LinesAssumption == MaxLines \in Nat
ASSUME QueueAssumption == Copies \in Nat \ {0} /\ QueueLimit \in Nat

Line == 1 .. MaxLines
Prio == 0 .. Copies - 1
Process == {"parent", "child"}
Stream == {"pair", "pipe", "named_pipe"}
Queue == {"/parent", "/child"}
Memory == {"mmap", "shmat"}     \* the first one is announced by the named semaphore

VARIABLES
    pc,         \* where each process is in its loop
    line,       \* the last line that the parent has taken from its chat slot
    prios,      \* the priorities with which it is still to be queued
    stream,     \* the lines in each stream
    queue,      \* the lines in each message queue, with their priorities
    value,      \* the shared integers; that of a line stands for its length
    sem,        \* the values of the semaphores
    taken,      \* how often each semaphore was taken, a history variable
    ordinal,    \* which of these announcements a process has just taken
    heard,      \* the lines that the child has received from streams and queue
    running     \* FALSE once one of the processes ends

channels == <<stream, queue, heard>>
memories == <<value, sem, taken, ordinal>>
vars == <<pc, line, prios, channels, memories, running>>

------------------------------------------------------------------------------

\* Mutant of OwnQueue: forkChild does not swap the two queues.
OwnQueueUnswapped(p) == "/parent"

\* What socket.forked.mq is once forkChild has swapped it with peer_mq: the queue that a
\* process reads.  The parent's peer_mq is the other one.
OwnQueue(p) == IF p = "parent" THEN "/parent" ELSE "/child"
PeerQueue == "/child"

Init ==
    /\ pc = [p \in Process |-> "select"]
    /\ line = 0
    /\ prios = {}
    /\ stream = [c \in Stream |-> {}]
    /\ queue = [q \in Queue |-> {}]
    /\ value = [m \in Memory |-> 0]
    /\ sem = [m \in Memory |-> 0]
    /\ taken = [m \in Memory |-> 0]
    /\ ordinal = [p \in Process |-> 0]
    /\ heard = [c \in Stream \cup {"mq"} |-> {}]
    /\ running = TRUE

At(p, label) == running /\ pc[p] = label
GoTo(p, label) == pc' = [pc EXCEPT ![p] = label]

Hear(c, lines) == heard' = [heard EXCEPT ![c] = heard[c] \cup lines]

\* selectFds, and handleMessageUnixForked with the oldest line of the socket pair, if
\* there is one.  Nobody sends the parent anything, nor anybody the quit message.
Select(p) ==
    /\ At(p, "select")
    /\ GoTo(p, "try_mmap")
    /\ IF p = "child" /\ stream["pair"] # {}
       THEN \E n \in stream["pair"] :
                /\ \A k \in stream["pair"] : n <= k
                /\ stream' = [stream EXCEPT !["pair"] = stream["pair"] \ {n}]
                /\ Hear("pair", {n})
       ELSE UNCHANGED <<stream, heard>>
    /\ UNCHANGED <<line, prios, queue, memories, running>>

TryLabel == [m \in Memory |-> IF m = "mmap" THEN "try_mmap" ELSE "try_shmat"]
ReadLabel == [m \in Memory |-> IF m = "mmap" THEN "read_mmap" ELSE "read_shmat"]

\* Mutant of After: isChild is not asked.
AfterForAll(p, m) == IF m = "mmap" THEN "try_shmat" ELSE "pipe"

\* Where receiveUnixForked goes on after the memory m: only the child reads the pipes.
After(p, m) ==
    CASE m = "mmap" -> "try_shmat"
      [] m = "shmat" /\ p = "child" -> "pipe"
      [] OTHER -> "mq"

\* isSemaphoreReady takes an announcement, whoever has made it ...
TakeAnnouncement(p, m) ==
    /\ At(p, TryLabel[m]) /\ sem[m] > 0
    /\ sem' = [sem EXCEPT ![m] = sem[m] - 1]
    /\ taken' = [taken EXCEPT ![m] = taken[m] + 1]
    /\ ordinal' = [ordinal EXCEPT ![p] = taken[m] + 1]
    /\ GoTo(p, ReadLabel[m])
    /\ UNCHANGED <<line, prios, channels, value, running>>

NoAnnouncement(p, m) ==
    /\ At(p, TryLabel[m]) /\ sem[m] = 0
    /\ GoTo(p, After(p, m))
    /\ UNCHANGED <<line, prios, channels, memories, running>>

\* ... and then the integer is read.
ReadValue(p, m) ==
    /\ At(p, ReadLabel[m])
    /\ ordinal' = [ordinal EXCEPT ![p] = 0]
    /\ GoTo(p, After(p, m))
    /\ UNCHANGED <<line, prios, channels, value, sem, taken, running>>

\* One read takes all that is in a pipe, joined to one message.
ReceiveFrom(c, label, next) ==
    /\ At("child", label)
    /\ GoTo("child", next)
    /\ stream' = [stream EXCEPT ![c] = {}]
    /\ Hear(c, stream[c])
    /\ UNCHANGED <<line, prios, queue, memories, running>>

receiveFromPipe == ReceiveFrom("pipe", "pipe", "named_pipe")
receiveFromNamedPipe == ReceiveFrom("named_pipe", "named_pipe", "mq")

\* The copy with the highest priority, the oldest one of these.
First(copies) ==
    {c \in copies : \A d \in copies :
        c.prio > d.prio \/ (c.prio = d.prio /\ c.line <= d.line)}

receiveFromMessageQueue(p) ==
    /\ At(p, "mq")
    /\ GoTo(p, "chat")
    /\ queue' = [queue EXCEPT ![OwnQueue(p)] =
                    queue[OwnQueue(p)] \ First(queue[OwnQueue(p)])]
    /\ Hear("mq", {c.line : c \in First(queue[OwnQueue(p)])})
    /\ UNCHANGED <<line, prios, stream, memories, running>>

\* chat has nothing for the process; the user does not type into the child.
ChatNothing(p) ==
    /\ At(p, "chat")
    /\ GoTo(p, "select")
    /\ UNCHANGED <<line, prios, channels, memories, running>>

\* chat has a line for the parent.
ChatLine ==
    /\ At("parent", "chat") /\ line < MaxLines
    /\ line' = line + 1
    /\ prios' = Prio
    /\ GoTo("parent", "send_pair")
    /\ UNCHANGED <<channels, memories, running>>

\* Mutant of AfterSend: each memory is announced before it is set.
AfterSendAnnouncingFirst ==
    [send_pair |-> "send_pipe", send_pipe |-> "send_named_pipe",
     send_named_pipe |-> "send_mq", send_mq |-> "post_mmap",
     post_mmap |-> "set_mmap", set_mmap |-> "post_shmat",
     post_shmat |-> "set_shmat", set_shmat |-> "select"]

\* The order of sendSocketUnixForked.
AfterSend ==
    [send_pair |-> "send_pipe", send_pipe |-> "send_named_pipe",
     send_named_pipe |-> "send_mq", send_mq |-> "set_mmap",
     set_mmap |-> "post_mmap", post_mmap |-> "set_shmat",
     set_shmat |-> "post_shmat", post_shmat |-> "select"]

Sent(label) == GoTo("parent", AfterSend[label])

SendOn(c, label) ==
    /\ At("parent", label)
    /\ stream' = [stream EXCEPT ![c] = stream[c] \cup {line}]
    /\ Sent(label)
    /\ UNCHANGED <<line, prios, queue, heard, memories, running>>

sendOnSocketPair == SendOn("pair", "send_pair")
sendOnPipe == SendOn("pipe", "send_pipe")
sendOnNamedPipe == SendOn("named_pipe", "send_named_pipe")

Overflows == Cardinality(queue[PeerQueue]) >= QueueLimit

\* One of the copies; their priorities come in any order.
sendOnMessageQueue(prio) ==
    /\ At("parent", "send_mq") /\ ~Overflows
    /\ prio \in prios
    /\ queue' = [queue EXCEPT ![PeerQueue] =
                    queue[PeerQueue] \cup {[line |-> line, prio |-> prio]}]
    /\ prios' = prios \ {prio}
    /\ IF prios' = {} THEN Sent("send_mq") ELSE UNCHANGED pc
    /\ UNCHANGED <<line, stream, heard, memories, running>>

\* checkMqSend finds the queue full.
sendOnMessageQueueFails ==
    /\ At("parent", "send_mq") /\ Overflows
    /\ running' = FALSE
    /\ UNCHANGED <<pc, line, prios, channels, memories>>

SetLabel == [m \in Memory |-> IF m = "mmap" THEN "set_mmap" ELSE "set_shmat"]
PostLabel == [m \in Memory |-> IF m = "mmap" THEN "post_mmap" ELSE "post_shmat"]

\* setPosixSharedMemory, setSysVSharedMemory
SetSharedMemory(m) ==
    /\ At("parent", SetLabel[m])
    /\ value' = [value EXCEPT ![m] = line]
    /\ Sent(SetLabel[m])
    /\ UNCHANGED <<line, prios, channels, sem, taken, ordinal, running>>

\* postNamedSemaphore, postUnnamedSemaphore
PostSemaphore(m) ==
    /\ At("parent", PostLabel[m])
    /\ sem' = [sem EXCEPT ![m] = sem[m] + 1]
    /\ Sent(PostLabel[m])
    /\ UNCHANGED <<line, prios, channels, value, taken, ordinal, running>>

\* The user quits, a process is killed, or the child has inherited a line in its chat
\* slot: sending it fails on the reading end of the pipe.
End ==
    /\ running
    /\ running' = FALSE
    /\ UNCHANGED <<pc, line, prios, channels, memories>>

Receive(p) ==
    \/ Select(p)
    \/ \E m \in Memory : TakeAnnouncement(p, m) \/ NoAnnouncement(p, m) \/ ReadValue(p, m)
    \/ receiveFromMessageQueue(p)
    \/ ChatNothing(p)

Send ==
    \/ sendOnSocketPair \/ sendOnPipe \/ sendOnNamedPipe
    \/ \E prio \in Prio : sendOnMessageQueue(prio)
    \/ sendOnMessageQueueFails
    \/ \E m \in Memory : SetSharedMemory(m) \/ PostSemaphore(m)

ChildStep == Receive("child") \/ receiveFromPipe \/ receiveFromNamedPipe
ParentStep == Receive("parent") \/ Send

Next == ChildStep \/ ParentStep \/ ChatLine \/ End

\* Both processes run; the user does not have to type.
Fairness == WF_vars(ChildStep) /\ WF_vars(ParentStep)

Spec == Init /\ [][Next]_vars /\ Fairness

------------------------------------------------------------------------------

Label == {"select", "try_mmap", "read_mmap", "try_shmat", "read_shmat", "mq", "chat"}
ParentLabel ==
    Label \cup {"send_pair", "send_pipe", "send_named_pipe", "send_mq", "set_mmap",
                "post_mmap", "set_shmat", "post_shmat"}
ChildLabel == Label \cup {"pipe", "named_pipe"}

Copy == [line : Line, prio : Prio]

TypeOK ==
    /\ pc \in [Process -> ParentLabel \cup ChildLabel]
    /\ pc["parent"] \in ParentLabel /\ pc["child"] \in ChildLabel
    /\ line \in 0 .. MaxLines
    /\ prios \subseteq Prio
    /\ stream \in [Stream -> SUBSET Line]
    /\ queue \in [Queue -> SUBSET Copy]
    /\ Cardinality(queue[PeerQueue]) <= QueueLimit
    /\ value \in [Memory -> 0 .. MaxLines]
    /\ sem \in [Memory -> Nat] /\ taken \in [Memory -> Nat]
    /\ ordinal \in [Process -> Nat]
    /\ heard \in [Stream \cup {"mq"} -> SUBSET Line]
    /\ running \in BOOLEAN

InStream(c, n) == n \in stream[c] \cup heard[c]
InQueue(n) ==
    n \in heard["mq"] \cup {c.line : c \in queue["/parent"] \cup queue["/child"]}

Read(p, m) == pc[p] = ReadLabel[m]

\* Whoever takes the n-th announcement of a shared memory, be it the parent its own one,
\* then reads the number of the n-th line or of a later one; and by then the line itself
\* has reached the child or is in every stream and in the message queue
\* (SocketUnixForked.c:183-213, 286-308, 355-365).
AnnouncementIsTrue ==
    \A p \in Process, m \in Memory :
        Read(p, m) =>
            /\ ordinal[p] <= value[m]
            /\ \A n \in 1 .. ordinal[p] : InQueue(n) /\ \A c \in Stream : InStream(c, n)

\* Every line reaches the child through every stream and the message queue, unless a
\* process ends: the child reads the queue that the parent fills, and a copy of each line
\* gets through, whatever its priorities are (SocketUnixForked.c:161, 215-251, 274-284).
LinesArrive ==
    \A n \in Line :
        line = n ~> ((\A c \in Stream \cup {"mq"} : n \in heard[c]) \/ ~running)

=============================================================================
