-------------------------- MODULE NetworkTaskProofs --------------------------
(****************************************************************************)
(* For any set of network tasks, mortal or not: the quit message the user   *)
(* types is handed on from task to task without being copied or lost, and   *)
(* every typed line leaves through at most one socket, in order.            *)
(****************************************************************************)

EXTENDS NetworkTask, TLAPS

USE TaskAssumption, LineAssumption

\* A task that is about to send holds a line: networkTask has told the empty and
\* the quit message apart before.
TypeInv ==
    /\ TypeOK
    /\ \A t \in Task : pc[t] = "send" => old_chat_msg[t] \in Line

LEMMA TypeInit == Init => TypeInv
BY DEF Init, Box!Init, TypeInv, TypeOK, Thread, Message, Line

LEMMA TypeStep == TypeInv /\ [Next]_vars => TypeInv'
<1> SUFFICES ASSUME TypeInv, [Next]_vars PROVE TypeInv'
  OBVIOUS
<1> USE DEF TypeInv, TypeOK, Thread, Message, Line, GoTo, chat, Box!Exchange
<1>1. CASE ReadLine
  BY <1>1 DEF ReadLine
<1>2. CASE ReadLineFails \/ Join
  BY <1>2 DEF ReadLineFails, Join
<1>3. CASE PostLine
  BY <1>3 DEF PostLine
<1>4. ASSUME NEW t \in Task, Start(t) \/ Expire(t) \/ CleanUp(t) PROVE TypeInv'
  BY <1>4 DEF Start, Expire, CleanUp
<1>5. ASSUME NEW t \in Task, Poll(t) PROVE TypeInv'
  BY <1>5 DEF Poll
<1>6. ASSUME NEW t \in Task, Send(t) PROVE TypeInv'
  BY <1>6 DEF Send
<1>7. ASSUME NEW t \in Task, Requit(t) PROVE TypeInv'
  BY <1>7 DEF Requit
<1>8. ASSUME NEW t \in Task, SocketFails(t) PROVE TypeInv'
  BY <1>8 DEF SocketFails
<1>9. CASE UNCHANGED vars
  BY <1>9 DEF vars
<1> QED
  BY <1>1, <1>2, <1>3, <1>4, <1>5, <1>6, <1>7, <1>8, <1>9 DEF Next, User, TaskStep

\* The threads' variables keep their types.
THEOREM TypeCorrect == Spec => []TypeOK
<1>1. TypeInv => TypeOK
  BY DEF TypeInv
<1> QED
  BY <1>1, TypeInit, TypeStep, PTL DEF Spec

------------------------------------------------------------------------------

\* QuitTokenConserved is inductive together with the types; it is what
\* NoUnaskedExit rests on.
QuitInv == TypeInv /\ QuitTokenConserved /\ NoUnaskedExit

LEMMA QuitInvInductive ==
    /\ Init => QuitInv
    /\ QuitInv /\ [Next]_vars => QuitInv'
<1>1. Init => QuitInv
  <2> SUFFICES ASSUME Init PROVE QuitTokenConserved /\ NoUnaskedExit
    BY TypeInit DEF QuitInv
  <2> QED
    BY DEF Init, Box!Init, QuitTokenConserved, NoUnaskedExit, QuitPosted
<1>2. ASSUME QuitInv, [Next]_vars PROVE QuitInv'
  <2>0. TypeInv'
    BY <1>2, TypeStep DEF QuitInv
  <2> USE <1>2, <2>0
        DEF QuitInv, QuitTokenConserved, NoUnaskedExit, QuitPosted,
            TypeInv, TypeOK, GoTo, chat, Box!Exchange
  <2>1. CASE ReadLine
    BY <2>1 DEF ReadLine
  <2>2. CASE ReadLineFails \/ Join
    BY <2>2 DEF ReadLineFails, Join
  <2>3. CASE PostLine
    BY <2>3 DEF PostLine
  <2>4. ASSUME NEW t \in Task, Start(t) \/ Expire(t) \/ CleanUp(t) PROVE QuitInv'
    BY <2>4 DEF Start, Expire, CleanUp
  <2>5. ASSUME NEW t \in Task, Poll(t) PROVE QuitInv'
    BY <2>5 DEF Poll
  <2>6. ASSUME NEW t \in Task, Send(t) PROVE QuitInv'
    BY <2>6 DEF Send
  <2>7. ASSUME NEW t \in Task, Requit(t) PROVE QuitInv'
    BY <2>7 DEF Requit
  <2>8. ASSUME NEW t \in Task, SocketFails(t) PROVE QuitInv'
    BY <2>8 DEF SocketFails
  <2>9. CASE UNCHANGED vars
    BY <2>9 DEF vars
  <2> QED
    BY <2>1, <2>2, <2>3, <2>4, <2>5, <2>6, <2>7, <2>8, <2>9
       DEF Next, User, TaskStep
<1> QED
  BY <1>1, <1>2

\* Once posted, the quit message is in exactly one place, however many tasks relay it.
THEOREM QuitTokenHolds == Spec => []QuitTokenConserved
<1>1. QuitInv => QuitTokenConserved
  BY DEF QuitInv
<1> QED
  BY <1>1, QuitInvInductive, PTL DEF Spec

\* No task that lives forever ends before the user has quit.
THEOREM NoUnaskedExitHolds == Spec => []NoUnaskedExit
<1>1. QuitInv => NoUnaskedExit
  BY DEF QuitInv
<1> QED
  BY <1>1, QuitInvInductive, PTL DEF Spec
------------------------------------------------------------------------------

HandledOK == \A t \in Task : Handled(t) \in Seq(Line)

LEMMA HandledType == TypeInv => HandledOK
BY DEF TypeInv, TypeOK, Handled, HandledOK

LEMMA LineFacts == Line \subseteq Nat /\ Empty \notin Line /\ Quit \notin Line
BY DEF Line

LEMMA AppendFacts ==
    ASSUME NEW s \in Seq(Line), NEW e
    PROVE  /\ DOMAIN Append(s, e) = DOMAIN s \cup {Len(s) + 1}
           /\ \A i \in DOMAIN s : Append(s, e)[i] = s[i] /\ i < Len(s) + 1
           /\ Append(s, e)[Len(s) + 1] = e
           /\ DOMAIN s \subseteq Nat
OBVIOUS

\* A task takes on a line only in Poll, and keeps what it handled before.
LEMMA HandledStep ==
    ASSUME TypeInv, TypeInv', [Next]_vars
    PROVE  \/ \E t \in Task :
                /\ Poll(t) /\ chat_msg \in Line
                /\ Handled(t)' = Append(Handled(t), chat_msg)
                /\ \A u \in Task \ {t} : Handled(u)' = Handled(u)
           \/ \A u \in Task : Handled(u)' = Handled(u)
<1> DEFINE Same(u) == Handled(u)' = Handled(u)
<1>0. ASSUME NEW u \in Task, pc'[u] = pc[u], sent'[u] = sent[u],
             old_chat_msg'[u] = old_chat_msg[u]
      PROVE  Same(u)
  BY <1>0 DEF Handled
<1>a. ASSUME NEW u \in Task, pc[u] # "send", pc'[u] # "send", sent'[u] = sent[u]
      PROVE  Same(u)
  BY <1>a DEF Handled
<1> USE DEF TypeInv, TypeOK, Thread, GoTo, chat, Box!Exchange
<1>1. CASE ReadLine \/ ReadLineFails \/ Join
  BY <1>0, <1>1 DEF ReadLine, ReadLineFails, Join
<1>2. CASE PostLine
  BY <1>0, <1>2 DEF PostLine
<1>3. ASSUME NEW t \in Task,
             Start(t) \/ Expire(t) \/ CleanUp(t) \/ SocketFails(t) \/ Requit(t)
      PROVE  \A u \in Task : Same(u)
  <2> SUFFICES ASSUME NEW u \in Task PROVE Same(u)
    OBVIOUS
  <2> HIDE DEF Same
  <2>1. CASE u = t /\ ~SocketFails(t)
    BY <1>3, <1>a, <2>1 DEF Start, Expire, CleanUp, Requit
  <2>2. CASE u # t \/ SocketFails(t)
    BY <1>3, <1>0, <2>2 DEF Start, Expire, CleanUp, Requit, SocketFails
  <2> QED
    BY <2>1, <2>2
<1>4. ASSUME NEW t \in Task, Poll(t)
      PROVE  /\ \A u \in Task \ {t} : Same(u)
             /\ chat_msg \notin Line => Same(t)
             /\ chat_msg \in Line => Handled(t)' = Append(Handled(t), chat_msg)
  <2>1. ASSUME NEW u \in Task \ {t} PROVE Same(u)
    BY <1>4, <1>0 DEF Poll
  <2>2. ASSUME chat_msg \notin Line PROVE Same(t)
    <3>1. /\ pc[t] = "loop" /\ pc'[t] # "send" /\ sent'[t] = sent[t]
      BY <1>4, <2>2 DEF Poll, Message
    <3> QED
      BY <1>a, <3>1
  <2>3. ASSUME chat_msg \in Line
        PROVE  Handled(t)' = Append(Handled(t), chat_msg)
    <3>1. /\ pc[t] = "loop" /\ pc'[t] = "send" /\ sent'[t] = sent[t]
          /\ old_chat_msg'[t] = chat_msg
      BY <1>4, <2>3 DEF Poll, Line
    <3>2. Handled(t) = sent[t]
      BY <3>1 DEF Handled
    <3>3. Handled(t)' = Append(sent[t], chat_msg)
      BY <3>1 DEF Handled
    <3> QED
      BY <3>2, <3>3
  <2> QED
    BY <2>1, <2>2, <2>3
<1>5. ASSUME NEW t \in Task, Send(t)
      PROVE  \A u \in Task : Same(u)
  <2>1. ASSUME NEW u \in Task \ {t} PROVE Same(u)
    BY <1>5, <1>0 DEF Send
  <2>2. Same(t)
    BY <1>5 DEF Send, Handled
  <2> QED
    BY <2>1, <2>2
<1>6. CASE UNCHANGED vars
  BY <1>0, <1>6 DEF vars
<1> QED
  BY <1>1, <1>2, <1>3, <1>4, <1>5, <1>6 DEF Next, User, TaskStep

\* Lines move from the io thread through the slot to the tasks without
\* overtaking: typed so far >= being posted > in the slot > handled.
OrderInv ==
    /\ io = "posting" /\ msg \in Line => msg <= typed
    /\ chat_msg \in Line => chat_msg <= typed
    /\ io = "posting" /\ msg \in Line /\ chat_msg \in Line => chat_msg < msg
    /\ \A t \in Task : \A i \in DOMAIN Handled(t) :
          /\ Handled(t)[i] <= typed
          /\ chat_msg \in Line => Handled(t)[i] < chat_msg
          /\ io = "posting" /\ msg \in Line => Handled(t)[i] < msg

\* Every socket sends its lines in the order they were typed, and no line leaves
\* through two sockets, for any number of tasks and lines.
THEOREM LinesSentOnceInOrderHolds == Spec => []LinesSentOnceInOrder
<1> DEFINE Inv == OrderInv /\ LinesSentOnceInOrder
<1>1. Init => Inv
  <2> SUFFICES ASSUME Init PROVE Inv
    OBVIOUS
  <2>1. \A t \in Task : DOMAIN Handled(t) = {}
    BY DEF Init, Handled
  <2> QED
    BY <2>1, LineFacts DEF Init, Box!Init, OrderInv, LinesSentOnceInOrder
<1>2. TypeInv /\ TypeInv' /\ Inv /\ [Next]_vars => Inv'
  <2> SUFFICES ASSUME TypeInv, TypeInv', Inv, [Next]_vars PROVE Inv'
    OBVIOUS
  <2>0. /\ \A t \in Task : Handled(t) \in Seq(Line)
        /\ \A t \in Task : \A i \in DOMAIN Handled(t) : Handled(t)[i] \in Line
    BY HandledType DEF HandledOK
  <2>1. ASSUME NEW t \in Task, Poll(t), chat_msg \in Line,
               Handled(t)' = Append(Handled(t), chat_msg),
               \A u \in Task \ {t} : Handled(u)' = Handled(u)
        PROVE  Inv'
    <3>1. /\ UNCHANGED <<io, msg, typed>>
          /\ chat_msg' = Empty
      BY <2>1 DEF Poll, chat, Box!Exchange
    <3>2. /\ DOMAIN (Handled(t)') = DOMAIN Handled(t) \cup {Len(Handled(t)) + 1}
          /\ \A i \in DOMAIN Handled(t) :
                Handled(t)'[i] = Handled(t)[i] /\ i < Len(Handled(t)) + 1
          /\ Handled(t)'[Len(Handled(t)) + 1] = chat_msg
          /\ DOMAIN Handled(t) \subseteq Nat /\ Len(Handled(t)) + 1 \in Nat
      BY <2>0, <2>1, AppendFacts
    <3>3. OrderInv'
      <4>1. \A i \in DOMAIN (Handled(t)') : Handled(t)'[i] <= typed
        BY <2>1, <3>2, LineFacts DEF OrderInv
      <4>2. io = "posting" /\ msg \in Line =>
                \A i \in DOMAIN (Handled(t)') : Handled(t)'[i] < msg
        BY <2>1, <3>2, LineFacts DEF OrderInv
      <4> QED
        BY <2>1, <3>1, <4>1, <4>2, LineFacts DEF OrderInv
    <3>4. LinesSentOnceInOrder'
      <4>1. \A i, j \in DOMAIN (Handled(t)') : i < j => Handled(t)'[i] < Handled(t)'[j]
        BY <2>0, <2>1, <3>2, LineFacts DEF OrderInv, LinesSentOnceInOrder
      <4>2. \A u \in Task \ {t} : \A i \in DOMAIN (Handled(t)'), j \in DOMAIN Handled(u) :
                Handled(t)'[i] # Handled(u)[j]
        BY <2>0, <2>1, <3>2, LineFacts DEF OrderInv, LinesSentOnceInOrder
      <4> QED
        BY <2>1, <4>1, <4>2 DEF LinesSentOnceInOrder
    <3> QED
      BY <3>3, <3>4
  <2>2. ASSUME \A u \in Task : Handled(u)' = Handled(u)
        PROVE  Inv'
    <3>0. LinesSentOnceInOrder'
      BY <2>2 DEF LinesSentOnceInOrder
    <3>k. ASSUME \/ UNCHANGED <<io, msg, typed>> /\ chat_msg' \in {chat_msg, Empty, Quit}
                 \/ io' = "posting" /\ msg' \in {Empty, Quit} /\ UNCHANGED <<chat_msg, typed>>
          PROVE  OrderInv'
      BY <2>2, <3>k, LineFacts DEF OrderInv
    <3> USE DEF chat, Box!Exchange
    <3>1. CASE ReadLine
      <4>1. CASE msg' = typed + 1 /\ typed' = typed + 1
        <5>0. /\ typed \in Nat /\ msg' = typed + 1 /\ typed' = typed + 1
              /\ chat_msg' = chat_msg
              /\ chat_msg \in Line => chat_msg \in Nat /\ chat_msg <= typed
          BY <3>1, <4>1, LineFacts DEF ReadLine, OrderInv, TypeInv, TypeOK
        <5>2. \A t \in Task : \A i \in DOMAIN Handled(t) :
                 Handled(t)[i] \in Nat /\ Handled(t)[i] <= typed
          BY <2>0, LineFacts DEF OrderInv
        <5>1. OrderInv'
          <6>1. \A t \in Task : \A i \in DOMAIN (Handled(t)') :
                   /\ Handled(t)'[i] <= typed' /\ Handled(t)'[i] < msg'
                   /\ chat_msg' \in Line => Handled(t)'[i] < chat_msg'
            BY <2>2, <5>0, <5>2 DEF OrderInv
          <6> QED
            BY <5>0, <6>1 DEF OrderInv
        <5> QED
          BY <3>0, <5>1
      <4> QED
        BY <3>0, <3>1, <3>k, <4>1 DEF ReadLine
    <3>2. CASE PostLine
      <4>1. io = "posting" /\ io' # "posting" /\ chat_msg' = msg /\ typed' = typed
        BY <3>2 DEF PostLine
      <4>2. OrderInv'
        BY <2>2, <4>1 DEF OrderInv
      <4> QED
        BY <3>0, <4>2
    <3>3. CASE ReadLineFails \/ Join
      BY <3>0, <3>3, <3>k DEF ReadLineFails, Join
    <3>4. ASSUME NEW t \in Task, TaskStep(t) \/ Expire(t) \/ SocketFails(t)
          PROVE  Inv'
      BY <3>0, <3>4, <3>k
         DEF TaskStep, Start, Poll, Send, Requit, CleanUp, Expire, SocketFails
    <3>5. CASE UNCHANGED vars
      BY <3>0, <3>5, <3>k DEF vars
    <3> QED
      BY <3>1, <3>2, <3>3, <3>4, <3>5 DEF Next, User
  <2> QED
    BY <2>1, <2>2, HandledStep
<1> QED
  BY <1>1, <1>2, TypeInit, TypeStep, PTL DEF Spec

=============================================================================
