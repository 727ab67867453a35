------------------------------ MODULE ChatProofs ------------------------------
(****************************************************************************)
(* For any set of threads and lines: chat() is an atomic exchange, provided *)
(* the first calls of two threads never overlap.  MCChat's other instance   *)
(* shows that the proviso is needed.                                        *)
(****************************************************************************)

EXTENDS Chat, TLAPS

\* No two threads race for the first call.
OneFirstCall == \A t, u \in FirstCallers : t = u

\* One step of any thread keeps the types.
LEMMA TypeStep == TypeOK /\ [Next]_vars => TypeOK'
<1> SUFFICES ASSUME TypeOK, [Next]_vars PROVE TypeOK'
  OBVIOUS
<1> USE DEF Message, TypeOK, mutex, slots, args, GoTo
<1>1. ASSUME NEW t \in Thread, NEW m \in Message, Call(t, m) PROVE TypeOK'
  BY <1>1 DEF Call
<1>2. ASSUME NEW t \in Thread, CheckInit(t) PROVE TypeOK'
  BY <1>2 DEF CheckInit
<1>3. ASSUME NEW t \in Thread, StoreMutex(t) PROVE TypeOK'
  BY <1>3 DEF StoreMutex
<1>4. ASSUME NEW t \in Thread, StoreFlag(t) PROVE TypeOK'
  BY <1>4 DEF StoreFlag
<1>5. ASSUME NEW t \in Thread, Lock(t) PROVE TypeOK'
  BY <1>5 DEF Lock
<1>6. ASSUME NEW t \in Thread, Save(t) PROVE TypeOK'
  BY <1>6 DEF Save
<1>7. ASSUME NEW t \in Thread, Store(t) PROVE TypeOK'
  BY <1>7 DEF Store
<1>8. ASSUME NEW t \in Thread, Unlock(t) PROVE TypeOK'
  BY <1>8 DEF Unlock
<1>9. CASE UNCHANGED vars
  BY <1>9 DEF vars
<1> QED
  BY <1>1, <1>2, <1>3, <1>4, <1>5, <1>6, <1>7, <1>8, <1>9 DEF Next, Step

\* Chat.c's variables keep their types, whoever makes the first call.
THEOREM TypeCorrect == Spec => []TypeOK
<1>1. Init => TypeOK
  BY DEF Init, TypeOK, Message
<1> QED
  BY <1>1, TypeStep, PTL DEF Spec

------------------------------------------------------------------------------

\* A thread that may not make the first call is inside chat() only once the
\* mutex is ready; only a first caller on its way to mtx_lock still has stores
\* of initChatMutex to make, and it has set the flag when none is left.
InitInv ==
    /\ \A t \in Thread : pc[t] # "idle" => MutexReady \/ t \in FirstCallers
    /\ \A t \in Thread : unstored[t] # {} => t \in FirstCallers /\ pc[t] = "lock"
    /\ \A t \in Thread : pc[t] = "lock" /\ "flag" \notin unstored[t] => chat_mtx_init
    /\ \A t \in Thread : pc[t] \in Critical => MutexReady

LockInv == TypeOK /\ InitInv /\ LockIsHeld

LEMMA LockInvInductive ==
    ASSUME OneFirstCall
    PROVE  /\ Init => LockInv
           /\ LockInv /\ [Next]_vars => LockInv'
<1> USE DistinctAssumption, FirstCallersAssumption
<1>1. Init => LockInv
  BY DEF Init, LockInv, TypeOK, InitInv, LockIsHeld, Critical, Message
<1>2. ASSUME LockInv, [Next]_vars PROVE LockInv'
  <2>0. TypeOK'
    BY <1>2, TypeStep DEF LockInv
  <2> USE <1>2, <2>0
        DEF LockInv, TypeOK, InitInv, LockIsHeld, Critical, MutexReady, mutex, GoTo
  <2>1. ASSUME NEW t \in Thread, NEW m \in Message, Call(t, m) PROVE LockInv'
    BY <2>1 DEF Call
  <2>2. ASSUME NEW t \in Thread, CheckInit(t) PROVE LockInv'
    BY <2>2 DEF CheckInit
  <2>3. ASSUME NEW t \in Thread, StoreMutex(t) PROVE LockInv'
    BY <2>3, OneFirstCall DEF StoreMutex, OneFirstCall
  <2>4. ASSUME NEW t \in Thread, StoreFlag(t) PROVE LockInv'
    BY <2>4, OneFirstCall DEF StoreFlag, OneFirstCall
  <2>5. ASSUME NEW t \in Thread, Lock(t) PROVE LockInv'
    BY <2>5, OneFirstCall DEF Lock, OneFirstCall
  <2>6. ASSUME NEW t \in Thread, Save(t) PROVE LockInv'
    BY <2>6 DEF Save
  <2>7. ASSUME NEW t \in Thread, Store(t) PROVE LockInv'
    BY <2>7 DEF Store
  <2>8. ASSUME NEW t \in Thread, Unlock(t) PROVE LockInv'
    BY <2>8 DEF Unlock
  <2>9. CASE UNCHANGED vars
    BY <2>9 DEF vars
  <2> QED
    BY <2>1, <2>2, <2>3, <2>4, <2>5, <2>6, <2>7, <2>8, <2>9 DEF Next, Step
<1> QED
  BY <1>1, <1>2

\* At most one thread is between mtx_lock and mtx_unlock, however many threads
\* there are, if no two of them race for the first call.
THEOREM ExclusionHolds ==
    ASSUME OneFirstCall
    PROVE  Spec => []MutualExclusion
<1>1. Init => LockInv
  BY OneFirstCall, LockInvInductive
<1>2. LockInv /\ [Next]_vars => LockInv'
  BY OneFirstCall, LockInvInductive
<1>3. LockInv => MutualExclusion
  BY DEF LockInv, LockIsHeld, MutualExclusion
<1> QED
  BY <1>1, <1>2, <1>3, PTL DEF Spec

------------------------------------------------------------------------------

\* What the next caller finds, by where the thread in the critical section is.
SlotInv ==
    /\ \A t \in Thread : pc[t] = "store" => Slot = new_chat_msg[t]
    /\ (\A t \in Thread : pc[t] # "store") => Slot = chat_msg

LEMMA SlotValue == LockInv => SlotInv
<1> SUFFICES ASSUME LockInv PROVE SlotInv
  OBVIOUS
<1>1. ASSUME NEW t \in Thread, pc[t] = "store"
      PROVE  Slot = new_chat_msg[t]
  <2>1. \A u \in Thread : pc[u] = "store" => u = t
    BY <1>1 DEF LockInv, LockIsHeld, Critical
  <2> QED
    BY <1>1, <2>1 DEF Slot
<1>2. ASSUME \A t \in Thread : pc[t] # "store"
      PROVE  Slot = chat_msg
  BY <1>2 DEF Slot
<1> QED
  BY <1>1, <1>2 DEF SlotInv

\* What Save is to the callers: t gets the message of the slot, and its own
\* message is what the slot now offers.
ExchangeBy(t) ==
    /\ pc[t] = "save"
    /\ pc' = [pc EXCEPT ![t] = "store"]
    /\ old_chat_msg' = [old_chat_msg EXCEPT ![t] = Slot]
    /\ Slot' = new_chat_msg[t]
    /\ UNCHANGED <<new_chat_msg, posted>>

\* Save is the moment of the exchange; every other step leaves the slot and the
\* returned messages alone.
LEMMA ExchangeStep ==
    ASSUME LockInv, LockInv', [Next]_vars
    PROVE  \/ \E t \in Thread : ExchangeBy(t)
           \/ UNCHANGED <<Slot, old_chat_msg>>
<1>p. LockInv' => SlotInv'
  BY SlotValue, PTL
<1>0. SlotInv /\ SlotInv'
  BY <1>p, SlotValue
<1>a. ASSUME NEW t \in Thread, UNCHANGED <<slots, new_chat_msg>>,
             pc[t] # "store", pc'[t] # "store",
             \A u \in Thread \ {t} : pc'[u] = pc[u]
      PROVE  UNCHANGED <<Slot, old_chat_msg>>
  BY <1>0, <1>a DEF SlotInv, slots
<1> USE DEF LockInv, TypeOK, GoTo, slots, args
<1>1. ASSUME NEW t \in Thread, NEW m \in Message, Call(t, m)
      PROVE  UNCHANGED <<Slot, old_chat_msg>>
  <2>1. \A u \in Thread : pc[u] = "store" => pc'[u] = "store" /\ u # t
    BY <1>1 DEF Call
  <2>2. \A u \in Thread : pc'[u] = "store" => pc[u] = "store" /\ u # t
    BY <1>1 DEF Call
  <2>3. \A u \in Thread \ {t} : new_chat_msg'[u] = new_chat_msg[u]
    BY <1>1 DEF Call
  <2> QED
    BY <1>0, <1>1, <2>1, <2>2, <2>3 DEF SlotInv, Call
<1>2. ASSUME NEW t \in Thread, CheckInit(t)
      PROVE  UNCHANGED <<Slot, old_chat_msg>>
  BY <1>2, <1>a DEF CheckInit
<1>3. ASSUME NEW t \in Thread, StoreMutex(t) \/ StoreFlag(t)
      PROVE  UNCHANGED <<Slot, old_chat_msg>>
  BY <1>0, <1>3 DEF SlotInv, StoreMutex, StoreFlag
<1>4. ASSUME NEW t \in Thread, Lock(t)
      PROVE  UNCHANGED <<Slot, old_chat_msg>>
  BY <1>4, <1>a DEF Lock
<1>5. ASSUME NEW t \in Thread, Save(t)
      PROVE  ExchangeBy(t)
  <2>1. Slot = chat_msg
    BY <1>0, <1>5 DEF SlotInv, Save, LockIsHeld, Critical
  <2>2. Slot' = new_chat_msg[t]
    BY <1>0, <1>5 DEF SlotInv, Save
  <2> QED
    BY <1>5, <2>1, <2>2 DEF Save, ExchangeBy
<1>6. ASSUME NEW t \in Thread, Store(t)
      PROVE  UNCHANGED <<Slot, old_chat_msg>>
  <2>1. Slot = new_chat_msg[t]
    BY <1>0, <1>6 DEF SlotInv, Store
  <2>2. Slot' = new_chat_msg[t]
    BY <1>0, <1>6 DEF SlotInv, Store, LockIsHeld, Critical
  <2> QED
    BY <1>6, <2>1, <2>2 DEF Store
<1>7. ASSUME NEW t \in Thread, Unlock(t)
      PROVE  UNCHANGED <<Slot, old_chat_msg>>
  BY <1>7, <1>a DEF Unlock
<1>8. CASE UNCHANGED vars
  BY <1>8 DEF vars, Slot
<1> QED
  BY <1>1, <1>2, <1>3, <1>4, <1>5, <1>6, <1>7, <1>8 DEF Next, Step

\* chat() is an atomic exchange for any number of threads, if no two of them
\* race for the first call.
THEOREM ChatImplementsMailbox ==
    ASSUME OneFirstCall
    PROVE  Spec => ImplementsMailbox
<1>1. Init => LockInv
  BY OneFirstCall, LockInvInductive
<1>2. LockInv /\ [Next]_vars => LockInv'
  BY OneFirstCall, LockInvInductive
<1>3. Init => Box!Init
  BY DEF Init, Box!Init, Slot
<1>4. LockInv /\ LockInv' /\ [Next]_vars => [Box!Next]_(Box!box)
  <2> SUFFICES ASSUME LockInv, LockInv', [Next]_vars
               PROVE  Box!Next \/ UNCHANGED <<Slot, old_chat_msg>>
    BY DEF Box!box
  <2>1. ASSUME NEW t \in Thread, ExchangeBy(t) PROVE Box!Next
    <3>1. Box!Exchange(t, new_chat_msg[t])
      BY <2>1 DEF ExchangeBy, Box!Exchange
    <3>2. new_chat_msg[t] \in Message
      BY DEF LockInv, TypeOK
    <3> QED
      BY <3>1, <3>2 DEF Box!Next
  <2> QED
    BY <2>1, ExchangeStep
<1> QED
  BY <1>1, <1>2, <1>3, <1>4, PTL DEF Spec, ImplementsMailbox, Box!Spec

------------------------------------------------------------------------------

\* t has entered chat() and not exchanged yet.
Offering(t) == pc[t] \in {"check_init", "lock", "save"}

\* The strengthening of DeliveredOnce: a message on offer is nowhere else yet, and
\* whatever is anywhere has been posted, so that a new line is new everywhere.
OnceInv ==
    /\ DeliveredOnce
    /\ Slot \in posted \cup {Empty}
    /\ \A t \in Thread : old_chat_msg[t] \in posted \cup {Empty}
    /\ \A t \in Thread : new_chat_msg[t] \in posted \cup {Empty}
    /\ \A t \in Thread : Offering(t) /\ new_chat_msg[t] \in Line =>
          /\ Slot # new_chat_msg[t]
          /\ \A u \in Thread : old_chat_msg[u] # new_chat_msg[t]
          /\ \A u \in Thread \ {t} : Offering(u) => new_chat_msg[u] # new_chat_msg[t]

\* A line the user typed once is never returned to two threads, nor returned and
\* still in the slot, for any number of threads and lines.
THEOREM DeliveredOnceHolds ==
    ASSUME OneFirstCall
    PROVE  Spec => []DeliveredOnce
<1> USE DistinctAssumption
<1>1. Init => LockInv
  BY OneFirstCall, LockInvInductive
<1>2. LockInv /\ [Next]_vars => LockInv'
  BY OneFirstCall, LockInvInductive
<1>3. Init => OnceInv
  BY DEF Init, OnceInv, DeliveredOnce, Slot, Offering
<1>4. LockInv /\ LockInv' /\ OnceInv /\ [Next]_vars => OnceInv'
  <2> SUFFICES ASSUME LockInv, LockInv', OnceInv, [Next]_vars PROVE OnceInv'
    OBVIOUS
  <2> USE DEF LockInv, TypeOK, Message, OnceInv, DeliveredOnce, Offering
  <2>1. ASSUME NEW t \in Thread, ExchangeBy(t) PROVE OnceInv'
    BY <2>1 DEF ExchangeBy
  <2>2. ASSUME UNCHANGED <<Slot, old_chat_msg>> PROVE OnceInv'
    <3> USE <2>2 DEF mutex, slots, args, GoTo
    <3>1. ASSUME NEW t \in Thread, NEW m \in Message, Call(t, m) PROVE OnceInv'
      BY <3>1 DEF Call
    <3>2. ASSUME NEW t \in Thread, CheckInit(t) PROVE OnceInv'
      BY <3>2 DEF CheckInit
    <3>3. ASSUME NEW t \in Thread, StoreMutex(t) \/ StoreFlag(t) PROVE OnceInv'
      BY <3>3 DEF StoreMutex, StoreFlag
    <3>4. ASSUME NEW t \in Thread, Lock(t) PROVE OnceInv'
      BY <3>4 DEF Lock
    <3>5. ASSUME NEW t \in Thread, Save(t) PROVE OnceInv'
      BY <3>5 DEF Save
    <3>6. ASSUME NEW t \in Thread, Store(t) \/ Unlock(t) PROVE OnceInv'
      BY <3>6 DEF Store, Unlock
    <3>7. CASE UNCHANGED vars
      BY <3>7 DEF vars
    <3> QED
      BY <3>1, <3>2, <3>3, <3>4, <3>5, <3>6, <3>7 DEF Next, Step
  <2> QED
    BY <2>1, <2>2, ExchangeStep
<1>5. OnceInv => DeliveredOnce
  BY DEF OnceInv
<1> QED
  BY <1>1, <1>2, <1>3, <1>4, <1>5, PTL DEF Spec

=============================================================================
