---------------------------- MODULE ForkLifecycle ----------------------------
(****************************************************************************)
(* The life of a forked endpoint (SocketUnixForked.c): the process creates  *)
(* its channels under fixed names, forks, and each of the two processes     *)
(* ends when the other one has.  The program is started several times, also *)
(* while processes of earlier starts are still ending; any process may be   *)
(* killed between any two steps.                                            *)
(****************************************************************************)

EXTENDS Naturals, Sequences

CONSTANT MaxStarts      \* how often the program is started, a bound

ASSUME StartsAssumption == MaxStarts \in Nat

Start == 1 .. MaxStarts
Nobody == 0
Name == {"parent_mq", "child_mq", "shm", "sem", "pipe"}

Process == Start \X {"parent", "child"}
Parent(g) == <<g, "parent">>
Child(g) == <<g, "child">>
Other(p) == IF p[2] = "parent" THEN Child(p[1]) ELSE Parent(p[1])

VARIABLES
    names,      \* the start whose object has the name, if there is one
    doing,      \* what each process is doing
    step,       \* its step of that
    pending,    \* the processes that a signal is on its way to: SIGTERM, SIGCHLD
    abrupt,     \* processes that were killed or ended by a failed check
    unnoticed,  \* starts whose child died before its parent had a handler
    overlapped  \* starts that were setting up while another one did

vars == <<names, doing, step, pending, abrupt, unnoticed, overlapped>>

------------------------------------------------------------------------------

Op(op, name) == [op |-> op, name |-> name]

\* Mutant of cleanUpGlobals: the named pipe is removed as well.
cleanUpAll == <<Op("unlink", "parent_mq"), Op("unlink", "child_mq"),
                Op("unlink", "sem"), Op("unlink", "shm"), Op("unlink", "pipe")>>

cleanUpGlobals == <<Op("unlink", "parent_mq"), Op("unlink", "child_mq"),
                    Op("unlink", "sem"), Op("unlink", "shm")>>

createMessageQueues == <<Op("unlink", "parent_mq"), Op("unlink", "child_mq"),
                         Op("create", "parent_mq"), Op("create", "child_mq")>>

\* Whatever has no name is of no interest here: SysV memory, the unnamed semaphore, the
\* socket pair and the pipe.
createPosixSharedMemory == <<Op("create", "shm")>>
createNamedSemaphore == <<Op("create", "sem")>>

\* remove also succeeds when there is nothing to remove.  The two ends are opened.
createNamedPipe == <<Op("unlink", "pipe"), Op("create", "pipe"),
                     Op("open", "pipe"), Op("open", "pipe")>>

initForkedSocket ==
    cleanUpGlobals \o createMessageQueues \o createPosixSharedMemory
    \o createNamedSemaphore \o createNamedPipe \o <<Op("fork", "pipe")>>

\* Mutant of killChildOnParentDeath: the death signal is requested after the check.
checkBeforeRequest == <<"sigaction", "check", "prctl">>

\* What the child does before anything else.
killChildOnParentDeath == <<"sigaction", "prctl", "check">>

------------------------------------------------------------------------------

Init ==
    /\ names = [n \in Name |-> Nobody]
    /\ doing = [p \in Process |-> "unborn"]
    /\ step = [p \in Process |-> 1]
    /\ pending = {}
    /\ abrupt = {} /\ unnoticed = {} /\ overlapped = {}

Alive(p) == doing[p] \notin {"unborn", "dead"}

\* The process does something else, from its first step on.
Does(p, what) ==
    /\ doing' = [doing EXCEPT ![p] = what]
    /\ step' = [step EXCEPT ![p] = 1]

Proceeds(p) == step' = [step EXCEPT ![p] = step[p] + 1] /\ UNCHANGED doing

\* A signal to p finds its handler, or has been requested: else there is none.
Hears(p) ==
    \/ doing[p] \in {"running", "leaving", "over"}
    \/ /\ doing[p] = "arming"
       /\ \E i \in 1 .. step[p] - 1 : killChildOnParentDeath[i] = "prctl"

Signals(p) == pending' = IF Hears(p) THEN pending \cup {p} ELSE pending

\* The end of a process is told to the other one of its start.
Dies(p) ==
    /\ Does(p, "dead")
    /\ pending' = (IF Hears(Other(p)) THEN pending \cup {Other(p)} ELSE pending) \ {p}
    /\ unnoticed' = IF p[2] = "child" /\ Alive(Other(p)) /\ ~Hears(Other(p))
                    THEN unnoticed \cup {p[1]}
                    ELSE unnoticed

\* A process is killed, or a check fails.
Kill(p) ==
    /\ Alive(p)
    /\ Dies(p)
    /\ abrupt' = abrupt \cup {p}
    /\ UNCHANGED <<names, overlapped>>

\* The user starts the program, or once more.
Begin(g) ==
    LET others == {h \in Start : doing[Parent(h)] = "creating"}
    IN  /\ doing[Parent(g)] = "unborn"
        /\ \A h \in 1 .. g - 1 : doing[Parent(h)] # "unborn"
        /\ Does(Parent(g), "creating")
        /\ overlapped' = IF others = {} THEN overlapped ELSE overlapped \cup {g} \cup others
        /\ UNCHANGED <<names, pending, abrupt, unnoticed>>

\* g is setting up and comes to an operation.
Sets(g, op) == doing[Parent(g)] = "creating" /\ initForkedSocket[step[Parent(g)]] = op

Unlink(g, n) ==
    /\ Sets(g, Op("unlink", n))
    /\ names' = [names EXCEPT ![n] = Nobody]
    /\ Proceeds(Parent(g))
    /\ UNCHANGED <<pending, abrupt, unnoticed, overlapped>>

\* O_EXCL, and mkfifo, ask that there is no such name yet.
Create(g, n) ==
    /\ Sets(g, Op("create", n))
    /\ names[n] = Nobody
    /\ names' = [names EXCEPT ![n] = g]
    /\ Proceeds(Parent(g))
    /\ UNCHANGED <<pending, abrupt, unnoticed, overlapped>>

\* Each end is opened by name.
Open(g) ==
    /\ Sets(g, Op("open", "pipe"))
    /\ names["pipe"] # Nobody
    /\ Proceeds(Parent(g))
    /\ UNCHANGED <<names, pending, abrupt, unnoticed, overlapped>>

\* A name that g creates is taken, or the pipe that it opens is not its own one.
Disturbed(g) ==
    \/ \E n \in Name : Sets(g, Op("create", n)) /\ names[n] # Nobody
    \/ Sets(g, Op("open", "pipe")) /\ names["pipe"] # g

\* A check finds it: always, if the name is taken or there is nothing to open, and for
\* the pipe of another start, if nobody reads it.
SetUpFails(g) ==
    /\ Disturbed(g)
    /\ Dies(Parent(g))
    /\ abrupt' = abrupt \cup {Parent(g)}
    /\ UNCHANGED <<names, overlapped>>

\* Mutant of Fork: the result of fork is tested the wrong way round.
ForkMixedUp(g) ==
    /\ Sets(g, Op("fork", "pipe"))
    /\ doing' = [doing EXCEPT ![Parent(g)] = "arming", ![Child(g)] = "forked"]
    /\ step' = [step EXCEPT ![Parent(g)] = 1]
    /\ UNCHANGED <<names, pending, abrupt, unnoticed, overlapped>>

\* forkSocket: the child is born.
Fork(g) ==
    /\ Sets(g, Op("fork", "pipe"))
    /\ doing' = [doing EXCEPT ![Parent(g)] = "forked", ![Child(g)] = "arming"]
    /\ step' = [step EXCEPT ![Parent(g)] = 1]
    /\ UNCHANGED <<names, pending, abrupt, unnoticed, overlapped>>

\* killParentOnChildDeath: forkParent installs the handler of SIGCHLD.
killParentOnChildDeath(g) ==
    /\ doing[Parent(g)] = "forked"
    /\ Does(Parent(g), "running")
    /\ UNCHANGED <<names, pending, abrupt, unnoticed, overlapped>>

\* The child installs its handler and asks for a signal at the end of its parent ...
Arm(g) ==
    /\ doing[Child(g)] = "arming"
    /\ step[Child(g)] <= Len(killChildOnParentDeath)
    /\ killChildOnParentDeath[step[Child(g)]] # "check"
    /\ Proceeds(Child(g))
    /\ UNCHANGED <<names, pending, abrupt, unnoticed, overlapped>>

\* ... and ends if it has another parent by now: checkParentAlive.
checkParentAlive(g) ==
    /\ doing[Child(g)] = "arming"
    /\ step[Child(g)] <= Len(killChildOnParentDeath)
    /\ killChildOnParentDeath[step[Child(g)]] = "check"
    /\ IF Alive(Parent(g)) THEN Proceeds(Child(g)) ELSE Does(Child(g), "ending")
    /\ UNCHANGED <<names, pending, abrupt, unnoticed, overlapped>>

\* forkChild is over, and the loop of networkTask begins.
Run(g) ==
    /\ doing[Child(g)] = "arming"
    /\ step[Child(g)] > Len(killChildOnParentDeath)
    /\ Does(Child(g), "running")
    /\ UNCHANGED <<names, pending, abrupt, unnoticed, overlapped>>

\* The loop of the parent ends when the user quits; that of the child, if a quit message
\* was in the chat slot when it was forked.  cleanUpSocket of the child tells its parent.
Quit(p) ==
    /\ doing[p] = "running"
    /\ Does(p, "leaving")
    /\ IF p[2] = "child" THEN Signals(Other(p)) ELSE UNCHANGED pending
    /\ UNCHANGED <<names, abrupt, unnoticed, overlapped>>

\* Mutant of HandleSignal: exit without cleanUpGlobals.
ExitOnSignal(p) ==
    /\ p \in pending /\ Hears(p)
    /\ Dies(p)
    /\ UNCHANGED <<names, abrupt, overlapped>>

\* childDied or parentDied interrupts whatever the process does.
HandleSignal(p) ==
    /\ p \in pending /\ Hears(p)
    /\ Does(p, "ending")
    /\ pending' = pending \ {p}
    /\ UNCHANGED <<names, abrupt, unnoticed, overlapped>>

\* One step of cleanUpGlobals, called by a handler, checkParentAlive or cleanUpSocket.
CleanUp(p) ==
    /\ doing[p] \in {"ending", "leaving"} /\ step[p] <= Len(cleanUpGlobals)
    /\ names' = [names EXCEPT ![cleanUpGlobals[step[p]].name] = Nobody]
    /\ Proceeds(p)
    /\ UNCHANGED <<pending, abrupt, unnoticed, overlapped>>

\* The thread of the network task is over: in the child it was the only one, in the
\* parent main has still to join it.  The end of the thread that has forked is what the
\* child gets its signal for.
TaskOver(g) ==
    /\ doing[Parent(g)] = "leaving" /\ step[Parent(g)] > Len(cleanUpGlobals)
    /\ Does(Parent(g), "over")
    /\ Signals(Child(g))
    /\ UNCHANGED <<names, abrupt, unnoticed, overlapped>>

Exit(p) ==
    /\ \/ doing[p] = "ending" /\ step[p] > Len(cleanUpGlobals)
       \/ doing[p] = "leaving" /\ p[2] = "child" /\ step[p] > Len(cleanUpGlobals)
       \/ doing[p] = "over"
    /\ Dies(p)
    /\ UNCHANGED <<names, abrupt, overlapped>>

SetUp(g) ==
    \/ \E n \in Name : Unlink(g, n) \/ Create(g, n)
    \/ Open(g) \/ SetUpFails(g) \/ Fork(g) \/ killParentOnChildDeath(g)

ParentStep(g) ==
    SetUp(g) \/ HandleSignal(Parent(g)) \/ CleanUp(Parent(g)) \/ TaskOver(g) \/ Exit(Parent(g))

ChildStep(g) ==
    \/ Arm(g) \/ checkParentAlive(g) \/ Run(g)
    \/ HandleSignal(Child(g)) \/ CleanUp(Child(g)) \/ Exit(Child(g))

Step == \E g \in Start : ParentStep(g) \/ ChildStep(g)

Next ==
    \/ \E g \in Start : Begin(g)
    \/ Step
    \/ \E p \in Process : Quit(p) \/ Kill(p)

\* As long as a process can run or a signal is on its way, something happens; nobody has
\* to start the program, quit or kill.
Fairness == WF_vars(Step)

Spec == Init /\ [][Next]_vars /\ Fairness

------------------------------------------------------------------------------

TypeOK ==
    /\ names \in [Name -> Start \cup {Nobody}]
    /\ DOMAIN doing = Process
    /\ \A g \in Start :
          /\ doing[Parent(g)] \in {"unborn", "creating", "forked", "running", "leaving",
                                   "ending", "over", "dead"}
          /\ doing[Child(g)] \in {"unborn", "arming", "running", "leaving", "ending",
                                  "dead"}
    /\ step \in [Process -> 1 .. Len(initForkedSocket)]
    /\ pending \subseteq Process /\ abrupt \subseteq Process
    /\ unnoticed \subseteq Start /\ overlapped \subseteq Start

\* Whatever earlier starts have left behind, and while their processes are still
\* removing names, a start sets up all its objects and opens its own pipe, unless
\* another start sets up at the same time (SocketUnixForked.c:16-98, 314-325).
RestartSucceeds == \A g \in Start \ overlapped : ~Disturbed(g)

\* Once both processes are gone, the names of a start are gone as well, but for that of
\* the pipe, unless both were killed: the survivor cleans up, whenever the other one
\* died (SocketUnixForked.c:100-149, 391-397).
ResidueOnlyIfBothKilled ==
    \A g \in Start, n \in Name \ {"pipe"} :
        names[n] = g =>
            \/ Alive(Parent(g)) \/ Alive(Child(g))
            \/ {p \in {Parent(g), Child(g)} : doing[p] = "dead"} \subseteq abrupt

Gone(p) == doing[p] = "dead"

\* The child never outlives its parent, whenever the parent ends; nor the parent its
\* child, unless that one died before its parent had installed the handler of SIGCHLD
\* (SocketUnixForked.c:114-149, 164-181, Socket.c:213-217).
EndTogether ==
    <>[](\A g \in Start :
            /\ Gone(Parent(g)) => ~Alive(Child(g))
            /\ Gone(Child(g)) /\ g \notin unnoticed => Gone(Parent(g)))

=============================================================================
