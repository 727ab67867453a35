--------------------------------- MODULE Chat ---------------------------------
(****************************************************************************)
(* Chat.c, one memory access at a time.  Any number of threads call chat(); *)
(* the first calls also create the mutex that the later steps rely on, and  *)
(* nothing but start-up timing keeps two of those first calls apart.        *)
(****************************************************************************)

EXTENDS Naturals

CONSTANTS
    Thread,         \* the io thread and the network threads
    FirstCallers,   \* the threads that may call before the mutex is known to exist
    Line,           \* the lines a user types, each posted at most once (a bound)
    Empty,          \* the empty ChatBuffer, and what the argument NULL posts
    Nobody          \* the owner of an unlocked mutex

ASSUME FirstCallersAssumption == FirstCallers \subseteq Thread
ASSUME DistinctAssumption == Empty \notin Line /\ Nobody \notin Thread

Message == Line \cup {Empty}

VARIABLES
    chat_mtx_init,  \* the static flag of initChatMutex
    chat_mtx,       \* who locked the mutex; a zeroed mutex is unlocked
    chat_msg,       \* the static slot of exchangeChatMessages
    old_chat_msg,   \* old_chat_msg[t]: the thread_local buffer chat() returns
    new_chat_msg,   \* new_chat_msg[t]: the argument of the call t is in
    pc,             \* pc[t]: where in chat() thread t is
    unstored,       \* unstored[t]: stores of initChatMutex others do not see yet
    posted          \* the lines posted so far

mutex == <<chat_mtx_init, chat_mtx, unstored>>
slots == <<chat_msg, old_chat_msg>>
args == <<new_chat_msg, posted>>
vars == <<mutex, slots, args, pc>>

------------------------------------------------------------------------------

\* Mutant of Init: the slot is an automatic buffer and holds garbage.
InitUnzeroed ==
    /\ chat_mtx_init = FALSE
    /\ chat_mtx = Nobody
    /\ chat_msg = "garbage"
    /\ old_chat_msg = [t \in Thread |-> Empty]
    /\ new_chat_msg = [t \in Thread |-> Empty]
    /\ pc = [t \in Thread |-> "idle"]
    /\ unstored = [t \in Thread |-> {}]
    /\ posted = {}

Init ==
    /\ chat_mtx_init = FALSE
    /\ chat_mtx = Nobody
    /\ chat_msg = Empty
    /\ old_chat_msg = [t \in Thread |-> Empty]
    /\ new_chat_msg = [t \in Thread |-> Empty]
    /\ pc = [t \in Thread |-> "idle"]
    /\ unstored = [t \in Thread |-> {}]
    /\ posted = {}

GoTo(t, label) == pc' = [pc EXCEPT ![t] = label]

\* Some call has come back from initChatMutex with both its stores visible.  No code
\* waits for it: as a guard of Call it states what the start-up timing gives a thread
\* that is not in FirstCallers.
MutexReady == chat_mtx_init /\ \A u \in Thread : unstored[u] = {}

\* chat(m) is entered.
Call(t, m) ==
    /\ pc[t] = "idle"
    /\ MutexReady \/ t \in FirstCallers
    /\ m \notin posted
    /\ new_chat_msg' = [new_chat_msg EXCEPT ![t] = m]
    /\ posted' = posted \cup ({m} \cap Line)
    /\ GoTo(t, "check_init")
    /\ UNCHANGED <<mutex, slots>>

\* Mutant of CheckInit: the flag is not looked at.
CheckInitUnconditionally(t) ==
    /\ pc[t] = "check_init"
    /\ unstored' = [unstored EXCEPT ![t] = {"mutex", "flag"}]
    /\ GoTo(t, "lock")
    /\ UNCHANGED <<chat_mtx_init, chat_mtx, slots, args>>

\* initChatMutex reads its flag without a lock; a caller that finds it FALSE
\* goes on to write the mutex and the flag.
CheckInit(t) ==
    /\ pc[t] = "check_init"
    /\ unstored' = [unstored EXCEPT ![t] =
                        IF chat_mtx_init THEN {} ELSE {"mutex", "flag"}]
    /\ GoTo(t, "lock")
    /\ UNCHANGED <<chat_mtx_init, chat_mtx, slots, args>>

\* *chat_mtx = createMutex(): whoever held the mutex no longer does.
StoreMutex(t) ==
    /\ "mutex" \in unstored[t]
    /\ chat_mtx' = Nobody
    /\ unstored' = [unstored EXCEPT ![t] = @ \ {"mutex"}]
    /\ UNCHANGED <<chat_mtx_init, slots, args, pc>>

\* chat_mtx_init = true.  Both stores are plain, so the other threads may see
\* them in either order.
StoreFlag(t) ==
    /\ "flag" \in unstored[t]
    /\ chat_mtx_init' = TRUE
    /\ unstored' = [unstored EXCEPT ![t] = @ \ {"flag"}]
    /\ UNCHANGED <<chat_mtx, slots, args, pc>>

\* Mutant of Lock: the call does not wait for the owner.
LockWithoutWaiting(t) ==
    /\ pc[t] = "lock"
    /\ unstored[t] = {}
    /\ chat_mtx' = t
    /\ GoTo(t, "save")
    /\ UNCHANGED <<chat_mtx_init, unstored, slots, args>>

\* mtx_lock
Lock(t) ==
    /\ pc[t] = "lock"
    /\ unstored[t] = {}
    /\ chat_mtx = Nobody
    /\ chat_mtx' = t
    /\ GoTo(t, "save")
    /\ UNCHANGED <<chat_mtx_init, unstored, slots, args>>

\* strcpy(old_chat_msg, chat_msg)
Save(t) ==
    /\ pc[t] = "save"
    /\ old_chat_msg' = [old_chat_msg EXCEPT ![t] = chat_msg]
    /\ GoTo(t, "store")
    /\ UNCHANGED <<mutex, chat_msg, args>>

\* Mutant of Store: NULL leaves the slot as it is.
StoreUnlessNull(t) ==
    /\ pc[t] = "store"
    /\ chat_msg' = IF new_chat_msg[t] = Empty THEN chat_msg ELSE new_chat_msg[t]
    /\ GoTo(t, "unlock")
    /\ UNCHANGED <<mutex, old_chat_msg, args>>

\* strcpy(chat_msg, new_chat_msg), or chat_msg[0] = 0 for NULL
Store(t) ==
    /\ pc[t] = "store"
    /\ chat_msg' = new_chat_msg[t]
    /\ GoTo(t, "unlock")
    /\ UNCHANGED <<mutex, old_chat_msg, args>>

\* mtx_unlock of a plain mutex does not ask who locked it.
Unlock(t) ==
    /\ pc[t] = "unlock"
    /\ chat_mtx' = Nobody
    /\ GoTo(t, "idle")
    /\ UNCHANGED <<chat_mtx_init, unstored, slots, args>>

Step(t) ==
    \/ \E m \in Message : Call(t, m)
    \/ CheckInit(t)
    \/ StoreMutex(t)
    \/ StoreFlag(t)
    \/ Lock(t)
    \/ Save(t)
    \/ Store(t)
    \/ Unlock(t)

Next == \E t \in Thread : Step(t)

Spec == Init /\ [][Next]_vars

------------------------------------------------------------------------------

\* Every variable holds a value of its C type.
TypeOK ==
    /\ chat_mtx_init \in BOOLEAN
    /\ chat_mtx \in Thread \cup {Nobody}
    /\ chat_msg \in Message
    /\ old_chat_msg \in [Thread -> Message]
    /\ new_chat_msg \in [Thread -> Message]
    /\ pc \in [Thread -> {"idle", "check_init", "lock", "save", "store", "unlock"}]
    /\ unstored \in [Thread -> SUBSET {"mutex", "flag"}]
    /\ posted \subseteq Line

Critical == {"save", "store", "unlock"}

\* At most one thread is between mtx_lock and mtx_unlock (Chat.c:40-42): what
\* initChatMutex does on the first calls must not let a second thread in.
MutualExclusion ==
    \A t, u \in Thread : pc[t] \in Critical /\ pc[u] \in Critical => t = u

\* A thread between mtx_lock and mtx_unlock owns the mutex: nobody initialises a mutex
\* under the thread that has locked it.  That is what an initialiser of the variable,
\* which runs before any call (Chat.c:36), gives, and what initChatMutex in its place
\* (Chat.c:14-22) has to give.
LockIsHeld == \A t \in Thread : pc[t] \in Critical => chat_mtx = t

\* The slot as the next caller will find it: a thread that has saved the old
\* message but not stored the new one has already exchanged them.
Slot ==
    IF \E t \in Thread : pc[t] = "store"
    THEN new_chat_msg[CHOOSE t \in Thread : pc[t] = "store"]
    ELSE chat_msg

Box == INSTANCE Mailbox WITH slot <- Slot, got <- old_chat_msg

\* exchangeChatMessages (Chat.c:24-32) is one indivisible swap for its callers:
\* no call sees half of another, and nothing but a call changes the slot.
ImplementsMailbox == Box!Spec

\* A line is in one place at a time: in the slot or returned to one thread.  Two
\* network tasks never both send the line the user typed once (Chat.c:27-31).
DeliveredOnce ==
    \A line \in Line, t \in Thread : old_chat_msg[t] = line =>
        /\ Slot # line
        /\ \A u \in Thread \ {t} : old_chat_msg[u] # line

=============================================================================
