----------------------------- MODULE NetworkTask -----------------------------
(****************************************************************************)
(* The threads of the process: ioTask (IoTask.c), one networkTask per       *)
(* endpoint (NetworkTask.c) and main, which joins them (main.c).  They      *)
(* share one message slot through chat(), used here as the atomic exchange  *)
(* that Chat is shown to implement.  What the sockets do is left to the     *)
(* modules about the protocols: here a network task sends a line or not.    *)
(****************************************************************************)

EXTENDS Naturals, Sequences, FiniteSets

CONSTANTS
    Task,       \* the network tasks
    Mortal,     \* those with a lifetime (eNB2 of the predefined configuration)
    Io,         \* the io thread
    MaxLines,   \* how many lines the user types, a bound; line n is the n-th
    Empty,      \* the empty message
    Quit        \* quit_msg

ASSUME TaskAssumption == Mortal \subseteq Task /\ Io \notin Task
ASSUME LineAssumption == MaxLines \in Nat /\ {Empty, Quit} \cap Nat = {} /\ Empty # Quit

Line == 1 .. MaxLines
Message == Line \cup {Empty, Quit}
Thread == Task \cup {Io}

VARIABLES
    chat_msg,       \* the slot of chat()
    old_chat_msg,   \* what each thread's last call of chat() returned
    pc,             \* pc[t]: where in networkTask t is
    io,             \* where in ioTask the io thread is
    msg,            \* the last line read into ioTask's buffer
    typed,          \* how many lines were typed so far
    sent,           \* sent[t]: the lines t gave to sendSocket, in order
    main            \* "joining" the threads, "returned", or "exit" of the process

vars == <<chat_msg, old_chat_msg, pc, io, msg, typed, sent, main>>

Box == INSTANCE Mailbox WITH slot <- chat_msg, got <- old_chat_msg

\* Mutant of chat: the call does not take the message it returns.
chatPeeking(t, m) ==
    Box!Exchange(t, IF m = Empty THEN chat_msg ELSE m)

chat(t, m) == Box!Exchange(t, m)

\* The process is alive: a failed check in any thread ends all of them.
Running == main = "joining"

------------------------------------------------------------------------------

\* ioTask compares its buffer with quit_msg before anything was read into it, so
\* the thread may also be over before it began.
Init ==
    /\ Box!Init
    /\ pc = [t \in Task |-> "delayed"]
    /\ io \in {"reading", "done"}
    /\ msg = Empty
    /\ typed = 0
    /\ sent = [t \in Task |-> <<>>]
    /\ main = "joining"

\* readLine: the user types a new line, an empty one or the quit message.
ReadLine ==
    /\ Running /\ io = "reading"
    /\ \/ typed < MaxLines /\ msg' = typed + 1 /\ typed' = typed + 1
       \/ msg' \in {Empty, Quit} /\ UNCHANGED typed
    /\ io' = "posting"
    /\ UNCHANGED <<chat_msg, old_chat_msg, pc, sent, main>>

\* checkFgets finds the end of the input: the process ends at once.
ReadLineFails ==
    /\ Running /\ io = "reading"
    /\ main' = "exit"
    /\ UNCHANGED <<chat_msg, old_chat_msg, pc, io, msg, typed, sent>>

\* chatFromStdin posts the line over whatever nobody has taken yet; what chat
\* returns is dropped.
PostLine ==
    /\ Running /\ io = "posting"
    /\ chat(Io, msg)
    /\ io' = IF msg = Quit THEN "done" ELSE "reading"
    /\ UNCHANGED <<pc, msg, typed, sent, main>>

GoTo(t, label) == pc' = [pc EXCEPT ![t] = label]

\* The start delay passes and the socket is set up.
Start(t) ==
    /\ Running /\ pc[t] = "delayed"
    /\ GoTo(t, "loop")
    /\ UNCHANGED <<chat_msg, old_chat_msg, io, msg, typed, sent, main>>

\* Mutant of Poll: break without chat(quit_msg).
PollKeepsQuit(t) ==
    /\ Running /\ pc[t] = "loop"
    /\ chat(t, Empty)
    /\ GoTo(t, CASE chat_msg = Empty -> "loop"
                 [] chat_msg = Quit -> "clean_up"
                 [] OTHER -> "send")
    /\ UNCHANGED <<io, msg, typed, sent, main>>

\* Mutant of Poll: the test for an empty message is missing.
PollSendsEmpty(t) ==
    /\ Running /\ pc[t] = "loop"
    /\ chat(t, Empty)
    /\ GoTo(t, IF chat_msg = Quit THEN "requit" ELSE "send")
    /\ UNCHANGED <<io, msg, typed, sent, main>>

\* One iteration of the loop up to the branch on what chat(NULL) returned.
Poll(t) ==
    /\ Running /\ pc[t] = "loop"
    /\ chat(t, Empty)
    /\ GoTo(t, CASE chat_msg = Empty -> "loop"
                 [] chat_msg = Quit -> "requit"
                 [] OTHER -> "send")
    /\ UNCHANGED <<io, msg, typed, sent, main>>

\* sendSocket(&socket, send_msg)
Send(t) ==
    /\ Running /\ pc[t] = "send"
    /\ sent' = [sent EXCEPT ![t] = Append(@, old_chat_msg[t])]
    /\ GoTo(t, "loop")
    /\ UNCHANGED <<chat_msg, old_chat_msg, io, msg, typed, main>>

\* Mutant of Requit: chat(NULL) instead of chat(quit_msg).
RequitNothing(t) ==
    /\ Running /\ pc[t] = "requit"
    /\ chat(t, Empty)
    /\ GoTo(t, "clean_up")
    /\ UNCHANGED <<io, msg, typed, sent, main>>

\* chat(quit_msg) hands the quit message to the next task, then break.
Requit(t) ==
    /\ Running /\ pc[t] = "requit"
    /\ chat(t, Quit)
    /\ GoTo(t, "clean_up")
    /\ UNCHANGED <<io, msg, typed, sent, main>>

\* Mutant of Expire: a lifetime of zero is not taken for "forever".
ExpireAnyone(t) ==
    /\ Running /\ pc[t] = "loop"
    /\ GoTo(t, "clean_up")
    /\ UNCHANGED <<chat_msg, old_chat_msg, io, msg, typed, sent, main>>

\* The while condition finds that time_to_die has passed.
Expire(t) ==
    /\ Running /\ pc[t] = "loop" /\ t \in Mortal
    /\ GoTo(t, "clean_up")
    /\ UNCHANGED <<chat_msg, old_chat_msg, io, msg, typed, sent, main>>

\* cleanUpSocket, and the thread ends.
CleanUp(t) ==
    /\ Running /\ pc[t] = "clean_up"
    /\ GoTo(t, "done")
    /\ UNCHANGED <<chat_msg, old_chat_msg, io, msg, typed, sent, main>>

\* A checked call on the socket fails in t: the process ends at once.
SocketFails(t) ==
    /\ Running /\ pc[t] \in {"delayed", "loop", "send", "clean_up"}
    /\ main' = "exit"
    /\ UNCHANGED <<chat_msg, old_chat_msg, pc, io, msg, typed, sent>>

\* join(&tasks) returns once every thread is over, and main with it.
Join ==
    /\ Running
    /\ io = "done" /\ \A t \in Task : pc[t] = "done"
    /\ main' = "returned"
    /\ UNCHANGED <<chat_msg, old_chat_msg, pc, io, msg, typed, sent>>

User == ReadLine \/ ReadLineFails
TaskStep(t) == Start(t) \/ Poll(t) \/ Send(t) \/ Requit(t) \/ CleanUp(t)

Next ==
    \/ User
    \/ PostLine
    \/ \E t \in Task : TaskStep(t) \/ Expire(t) \/ SocketFails(t)
    \/ Join

\* The operating system runs every thread that can run; nothing makes the user
\* type, and nothing is assumed about when a lifetime ends or a socket fails.
Fairness ==
    /\ WF_vars(PostLine)
    /\ \A t \in Task : WF_vars(TaskStep(t))
    /\ WF_vars(Join)

Spec == Init /\ [][Next]_vars /\ Fairness

------------------------------------------------------------------------------

TypeOK ==
    /\ chat_msg \in Message
    /\ old_chat_msg \in [Thread -> Message]
    /\ pc \in [Task -> {"delayed", "loop", "send", "requit", "clean_up", "done"}]
    /\ io \in {"reading", "posting", "done"}
    /\ msg \in Message
    /\ typed \in 0 .. MaxLines
    /\ sent \in [Task -> Seq(Line)]
    /\ main \in {"joining", "returned", "exit"}

\* The user's quit message has been posted (IoTask.c:18).
QuitPosted == io = "done" /\ msg = Quit

\* Once posted, the quit message is in exactly one place: in the slot, or in the
\* hands of the one task that is about to post it again (NetworkTask.c:46-54).  A
\* second copy would overwrite a line, a lost one would leave tasks running.
QuitTokenConserved ==
    /\ \A t, u \in Task : pc[t] = "requit" /\ pc[u] = "requit" => t = u
    /\ (\E t \in Task : pc[t] = "requit") => QuitPosted /\ chat_msg = Empty
    /\ chat_msg = Quit => QuitPosted
    /\ QuitPosted => chat_msg = Quit \/ \E t \in Task : pc[t] = "requit"

\* A task leaves its loop only when its lifetime is over or the user has quit: no
\* line, empty or not, ends a task (NetworkTask.c:41-57).
NoUnaskedExit ==
    \A t \in Task \ Mortal : pc[t] \in {"clean_up", "done"} => QuitPosted

\* The lines of a task that it has sent or is about to send.
Handled(t) == sent[t] \o (IF pc[t] = "send" THEN <<old_chat_msg[t]>> ELSE <<>>)

\* A typed line leaves through at most one socket, and each socket sends its lines
\* in the order in which they were typed; a line may be lost to a later one.
LinesSentOnceInOrder ==
    /\ \A t \in Task : \A i, j \in DOMAIN Handled(t) :
          i < j => Handled(t)[i] < Handled(t)[j]
    /\ \A t, u \in Task : t # u =>
          \A i \in DOMAIN Handled(t), j \in DOMAIN Handled(u) :
              Handled(t)[i] # Handled(u)[j]

\* When the user types the quit message, every network task ends and main returns,
\* unless a failed check ends the process first: the one message in the slot is
\* relayed from task to task, also past tasks that are still delayed or whose
\* lifetime ends meanwhile.
QuitEndsTheProcess == (msg = Quit) ~> ~Running

=============================================================================
