--------------------------- MODULE ForkedIpcProofs ---------------------------
(****************************************************************************)
(* For any number of lines and copies and any limit of the queues: whoever  *)
(* takes an announcement of a shared memory finds what it announces.        *)
(****************************************************************************)

EXTENDS ForkedIpc, FiniteSetTheorems, TLAPS

USE LinesAssumption, QueueAssumption

\* Only a finite queue has a cardinality that grows by one with each copy.
TypeInv ==
    /\ TypeOK
    /\ \A q \in Queue : IsFiniteSet(queue[q])
    /\ pc["parent"] \notin Label => line \in Line

LEMMA TypeInit == Init => TypeInv
<1> SUFFICES ASSUME Init PROVE TypeInv
  OBVIOUS
<1>1. IsFiniteSet({}) /\ Cardinality({}) = 0
  BY FS_EmptySet
<1> QED
  BY <1>1 DEF Init, TypeInv, TypeOK, Process, Stream, Queue, Memory, PeerQueue, Label,
              ParentLabel, ChildLabel

\* A step that leaves the queues alone preserves what is said of them.
LEMMA QueueKept ==
    ASSUME TypeInv, UNCHANGED queue
    PROVE  /\ queue' \in [Queue -> SUBSET Copy]
           /\ Cardinality(queue[PeerQueue])' <= QueueLimit
           /\ \A q \in Queue : IsFiniteSet(queue'[q])
BY DEF TypeInv, TypeOK, PeerQueue

LEMMA OneMore ==
    ASSUME NEW S, NEW x, IsFiniteSet(S)
    PROVE  /\ IsFiniteSet(S \cup {x})
           /\ Cardinality(S \cup {x}) <= Cardinality(S) + 1
<1>1. Cardinality(S) \in Nat
  BY FS_CardinalityType
<1>2. Cardinality(S \cup {x}) = IF x \in S THEN Cardinality(S) ELSE Cardinality(S) + 1
  BY FS_AddElement
<1>3. Cardinality(S \cup {x}) <= Cardinality(S) + 1
  BY <1>1, <1>2
<1> QED
  BY <1>3, FS_AddElement

LEMMA TypeStep == TypeInv /\ [Next]_vars => TypeInv'
<1> SUFFICES ASSUME TypeInv, [Next]_vars PROVE TypeInv'
  OBVIOUS
<1>a. /\ pc \in [Process -> ParentLabel \cup ChildLabel]
      /\ line \in 0 .. MaxLines /\ prios \subseteq Prio
      /\ stream \in [Stream -> SUBSET Line]
      /\ value \in [Memory -> 0 .. MaxLines]
      /\ sem \in [Memory -> Nat] /\ taken \in [Memory -> Nat]
      /\ ordinal \in [Process -> Nat]
      /\ heard \in [Stream \cup {"mq"} -> SUBSET Line]
      /\ queue \in [Queue -> SUBSET Copy]
  BY DEF TypeInv, TypeOK
<1> DEFINE Rest ==
      /\ pc' \in [Process -> ParentLabel \cup ChildLabel]
      /\ pc'["parent"] \in ParentLabel /\ pc'["child"] \in ChildLabel
      /\ line' \in 0 .. MaxLines
      /\ prios' \subseteq Prio
      /\ stream' \in [Stream -> SUBSET Line]
      /\ value' \in [Memory -> 0 .. MaxLines]
      /\ sem' \in [Memory -> Nat] /\ taken' \in [Memory -> Nat]
      /\ ordinal' \in [Process -> Nat]
      /\ heard' \in [Stream \cup {"mq"} -> SUBSET Line]
      /\ running' \in BOOLEAN
      /\ pc'["parent"] \notin Label => line' \in Line
<1>b. ASSUME Rest, UNCHANGED queue PROVE TypeInv'
  BY <1>b, QueueKept DEF TypeInv, TypeOK
<1> USE DEF TypeInv, TypeOK, At, GoTo, Process, Label, ParentLabel, ChildLabel
<1>1. ASSUME NEW p \in Process, Select(p) PROVE TypeInv'
  <2>1. stream' \in [Stream -> SUBSET Line] /\ heard' \in [Stream \cup {"mq"} -> SUBSET Line]
    BY <1>1 DEF Select, Hear, Stream
  <2> QED
    BY <1>1, <1>b, <2>1 DEF Select, memories
<1>2. ASSUME NEW p \in Process, NEW m \in Memory,
             TakeAnnouncement(p, m) \/ NoAnnouncement(p, m) \/ ReadValue(p, m)
      PROVE  TypeInv'
  <2> USE DEF TryLabel, ReadLabel, After, Memory, channels, memories
  <2>1. CASE TakeAnnouncement(p, m)
    BY <2>1, <1>b DEF TakeAnnouncement
  <2>2. CASE NoAnnouncement(p, m)
    BY <2>2, <1>b DEF NoAnnouncement
  <2>3. CASE ReadValue(p, m)
    BY <2>3, <1>b DEF ReadValue
  <2> QED
    BY <1>2, <2>1, <2>2, <2>3
<1>3. CASE receiveFromPipe \/ receiveFromNamedPipe
  BY <1>3, <1>b
     DEF receiveFromPipe, receiveFromNamedPipe, ReceiveFrom, Hear, Stream, memories
<1>4. ASSUME NEW p \in Process, receiveFromMessageQueue(p) PROVE TypeInv'
  <2> DEFINE own == OwnQueue(p)
  <2>1. own \in Queue
    BY DEF OwnQueue, Queue
  <2>2. First(queue[own]) \subseteq queue[own] /\ queue[own] \subseteq Copy
    BY <2>1, <1>a DEF First
  <2>3. {c.line : c \in First(queue[own])} \subseteq Line
    BY <2>2 DEF Copy
  <2>4. Rest
    BY <1>4, <2>3 DEF receiveFromMessageQueue, Hear, memories
  <2>5. queue' = [queue EXCEPT ![own] = queue[own] \ First(queue[own])]
    BY <1>4 DEF receiveFromMessageQueue
  <2>6. /\ IsFiniteSet(queue[own] \ First(queue[own]))
        /\ Cardinality(queue[own] \ First(queue[own])) <= Cardinality(queue[own])
    BY <2>1, FS_Subset
  <2>7. \A q \in Queue : Cardinality(queue[q]) \in Nat
    BY FS_CardinalityType
  <2>8. PeerQueue \in Queue /\ Cardinality(queue[own] \ First(queue[own])) \in Nat
    BY <2>6, FS_CardinalityType DEF PeerQueue, Queue
  <2>9. Cardinality(queue'[PeerQueue]) <= QueueLimit
    <3>1. CASE own = PeerQueue
      BY <3>1, <2>1, <2>5, <2>6, <2>7, <2>8
    <3>2. CASE own # PeerQueue
      BY <3>2, <2>5, <2>8
    <3> QED
      BY <3>1, <3>2
  <2> QED
    BY <2>1, <2>4, <2>5, <2>6, <2>9
<1>5. ASSUME NEW p \in Process, ChatNothing(p) PROVE TypeInv'
  BY <1>5, <1>b DEF ChatNothing, channels, memories
<1>6. CASE ChatLine
  BY <1>6, <1>b DEF ChatLine, channels, memories, Line, Prio
<1>7. CASE sendOnSocketPair \/ sendOnPipe \/ sendOnNamedPipe
  BY <1>7, <1>b
     DEF sendOnSocketPair, sendOnPipe, sendOnNamedPipe, SendOn, Sent, AfterSend, memories,
         Stream
<1>8. ASSUME NEW prio \in Prio, sendOnMessageQueue(prio) PROVE TypeInv'
  <2> DEFINE copy == [line |-> line, prio |-> prio]
             old == queue[PeerQueue]
  <2>1. copy \in Copy /\ PeerQueue \in Queue
    BY <1>8 DEF sendOnMessageQueue, Copy, PeerQueue, Queue
  <2>2. Rest
    BY <1>8 DEF sendOnMessageQueue, Sent, AfterSend, memories
  <2>3. queue' = [queue EXCEPT ![PeerQueue] = old \cup {copy}]
    BY <1>8 DEF sendOnMessageQueue
  <2>4. /\ IsFiniteSet(old \cup {copy})
        /\ Cardinality(old \cup {copy}) <= Cardinality(old) + 1
    BY <2>1, OneMore
  <2>5. Cardinality(old) < QueueLimit
    BY <1>8, <2>1, FS_CardinalityType DEF sendOnMessageQueue, Overflows
  <2>6. Cardinality(queue'[PeerQueue]) <= QueueLimit
    BY <2>1, <2>3, <2>4, <2>5, FS_CardinalityType
  <2> QED
    BY <2>1, <2>2, <2>3, <2>4, <2>6
<1>9. CASE sendOnMessageQueueFails \/ End
  BY <1>9, <1>b DEF sendOnMessageQueueFails, End, channels, memories
<1>10. ASSUME NEW m \in Memory, SetSharedMemory(m) \/ PostSemaphore(m) PROVE TypeInv'
  BY <1>10, <1>b
     DEF SetSharedMemory, PostSemaphore, SetLabel, PostLabel, Sent, AfterSend, Memory,
         channels
<1>11. CASE UNCHANGED vars
  BY <1>11, <1>b DEF vars, channels, memories
<1> QED
  BY <1>1, <1>2, <1>3, <1>4, <1>5, <1>6, <1>7, <1>8, <1>9, <1>10, <1>11
     DEF Next, ChildStep, ParentStep, Receive, Send

\* Every variable keeps its type, and the queue that the child reads its limit.
THEOREM TypeCorrect == Spec => []TypeOK
<1>1. TypeInv => TypeOK
  BY DEF TypeInv
<1> QED
  BY <1>1, TypeInit, TypeStep, PTL DEF Spec

------------------------------------------------------------------------------

\* Where the parent is while it has not yet sent its line on a stream, queued a copy of
\* it, set a memory or announced it.
Unsent(c) ==
    CASE c = "pair" -> {"send_pair"}
      [] c = "pipe" -> {"send_pair", "send_pipe"}
      [] OTHER -> {"send_pair", "send_pipe", "send_named_pipe"}
Unqueued == {"send_pair", "send_pipe", "send_named_pipe", "send_mq"}
Unset(m) ==
    IF m = "mmap" THEN Unqueued \cup {"set_mmap"}
    ELSE Unqueued \cup {"set_mmap", "post_mmap", "set_shmat"}
Unposted(m) ==
    IF m = "mmap" THEN Unqueued \cup {"set_mmap", "post_mmap"}
    ELSE Unqueued \cup {"set_mmap", "post_mmap", "set_shmat", "post_shmat"}

\* How many lines the parent is through with, while some of its labels are ahead.
Through(ahead) == IF pc["parent"] \in ahead THEN line - 1 ELSE line

\* All that was sent is in the channels or was heard; a memory was set for each line and
\* announced once for each, and each announcement waits or was taken.
SentInv ==
    /\ \A c \in Stream : \A n \in 1 .. Through(Unsent(c)) : InStream(c, n)
    /\ \A n \in 1 .. Through(Unqueued) : InQueue(n)
    /\ \A m \in Memory : value[m] = Through(Unset(m))
    /\ \A m \in Memory : sem[m] + taken[m] = Through(Unposted(m))
    /\ \A p \in Process, m \in Memory : Read(p, m) => ordinal[p] <= taken[m]

IpcInv == TypeInv /\ SentInv

LEMMA IpcInvImplies == IpcInv => AnnouncementIsTrue
<1> SUFFICES ASSUME IpcInv, NEW p \in Process, NEW m \in Memory, Read(p, m)
             PROVE  /\ ordinal[p] <= value[m]
                    /\ \A n \in 1 .. ordinal[p] :
                          InQueue(n) /\ \A c \in Stream : InStream(c, n)
  BY DEF AnnouncementIsTrue
<1>1. /\ ordinal[p] \in Nat /\ taken[m] \in Nat /\ sem[m] \in Nat /\ line \in Nat
      /\ ordinal[p] <= Through(Unposted(m))
  BY DEF IpcInv, SentInv, TypeInv, TypeOK, Through
<1>2. /\ Through(Unposted(m)) <= Through(Unset(m))
      /\ Through(Unposted(m)) <= Through(Unqueued)
      /\ \A c \in Stream : Through(Unposted(m)) <= Through(Unsent(c))
  BY <1>1 DEF Through, Unposted, Unset, Unqueued, Unsent, Memory, Stream
<1>3. /\ Through(Unset(m)) \in Int /\ Through(Unqueued) \in Int
      /\ Through(Unposted(m)) \in Int /\ \A c \in Stream : Through(Unsent(c)) \in Int
  BY <1>1 DEF Through
<1> QED
  BY <1>1, <1>2, <1>3 DEF IpcInv, SentInv

\* What a step must leave as it is, or extend.
LEMMA SentFrame ==
    ASSUME SentInv, UNCHANGED <<line, value>>,
           \A c \in Stream : pc'["parent"] \in Unsent(c) <=> pc["parent"] \in Unsent(c),
           pc'["parent"] \in Unqueued <=> pc["parent"] \in Unqueued,
           \A m \in Memory : pc'["parent"] \in Unset(m) <=> pc["parent"] \in Unset(m),
           \A c \in Stream : stream[c] \cup heard[c] \subseteq stream'[c] \cup heard'[c],
           \A n \in Nat : InQueue(n) => InQueue(n)'
    PROVE  /\ \A c \in Stream : \A n \in 1 .. Through(Unsent(c))' : InStream(c, n)'
           /\ \A n \in 1 .. Through(Unqueued)' : InQueue(n)'
           /\ \A m \in Memory : value'[m] = Through(Unset(m))'
<1>1. /\ \A c \in Stream : Through(Unsent(c))' = Through(Unsent(c))
      /\ Through(Unqueued)' = Through(Unqueued)
      /\ \A m \in Memory : Through(Unset(m))' = Through(Unset(m))
  BY DEF Through, Unsent, Unqueued, Unset
<1> QED
  BY <1>1 DEF SentInv, InStream

\* What is said of the announcements when neither they nor the parent's place in
\* sending are touched.
LEMMA PostsFrame ==
    ASSUME SentInv, UNCHANGED <<line, sem, taken>>,
           \A m \in Memory : pc'["parent"] \in Unposted(m) <=> pc["parent"] \in Unposted(m),
           \A p \in Process, m \in Memory :
               Read(p, m)' => Read(p, m) /\ ordinal'[p] = ordinal[p]
    PROVE  /\ \A m \in Memory : sem'[m] + taken'[m] = Through(Unposted(m))'
           /\ \A p \in Process, m \in Memory : Read(p, m)' => ordinal'[p] <= taken'[m]
<1>1. \A m \in Memory : Through(Unposted(m))' = Through(Unposted(m))
  BY DEF Through, Unposted
<1> QED
  BY <1>1 DEF SentInv

LEMMA SentStep == IpcInv /\ [Next]_vars => SentInv'
<1> SUFFICES ASSUME IpcInv, [Next]_vars PROVE SentInv'
  OBVIOUS
<1>a. /\ TypeInv /\ SentInv /\ TypeInv'
  BY TypeStep DEF IpcInv
<1>b. /\ pc \in [Process -> ParentLabel \cup ChildLabel]
      /\ line \in Nat /\ stream \in [Stream -> SUBSET Line]
      /\ value \in [Memory -> Nat]
      /\ sem \in [Memory -> Nat] /\ taken \in [Memory -> Nat]
      /\ ordinal \in [Process -> Nat]
      /\ heard \in [Stream \cup {"mq"} -> SUBSET Line]
      /\ queue \in [Queue -> SUBSET Copy]
  BY <1>a DEF TypeInv, TypeOK
<1> DEFINE Sends ==
      /\ \A c \in Stream : \A n \in 1 .. Through(Unsent(c))' : InStream(c, n)'
      /\ \A n \in 1 .. Through(Unqueued)' : InQueue(n)'
      /\ \A m \in Memory : value'[m] = Through(Unset(m))'
    Posts ==
      /\ \A m \in Memory : sem'[m] + taken'[m] = Through(Unposted(m))'
      /\ \A p \in Process, m \in Memory : Read(p, m)' => ordinal'[p] <= taken'[m]
<1>c. ASSUME Sends, Posts PROVE SentInv'
  BY <1>c DEF SentInv
<1>d. ASSUME UNCHANGED <<queue, heard>> PROVE \A n \in Nat : InQueue(n) => InQueue(n)'
  BY <1>d DEF InQueue
<1> HIDE DEF Sends, Posts
<1>e. ASSUME \/ UNCHANGED pc
             \/ \E p \in Process, l \in Label \cup {"pipe", "named_pipe"} :
                   /\ pc[p] \in Label \cup {"pipe", "named_pipe"} /\ GoTo(p, l)
      PROVE  /\ \A c \in Stream :
                    pc'["parent"] \in Unsent(c) <=> pc["parent"] \in Unsent(c)
             /\ pc'["parent"] \in Unqueued <=> pc["parent"] \in Unqueued
             /\ \A m \in Memory : pc'["parent"] \in Unset(m) <=> pc["parent"] \in Unset(m)
             /\ \A m \in Memory :
                    pc'["parent"] \in Unposted(m) <=> pc["parent"] \in Unposted(m)
  <2>1. CASE UNCHANGED pc
    BY <2>1 DEF Unsent, Unqueued, Unset, Unposted
  <2>2. ASSUME NEW p \in Process, NEW l \in Label \cup {"pipe", "named_pipe"},
               pc[p] \in Label \cup {"pipe", "named_pipe"}, GoTo(p, l)
        PROVE  pc'["parent"] = pc["parent"]
               \/ {pc["parent"], pc'["parent"]} \subseteq Label \cup {"pipe", "named_pipe"}
    BY <2>2, <1>b DEF GoTo, Process
  <2>3. CASE pc'["parent"] = pc["parent"]
    BY <2>3 DEF Unsent, Unqueued, Unset, Unposted
  <2>4. CASE {pc["parent"], pc'["parent"]} \subseteq Label \cup {"pipe", "named_pipe"}
    BY <2>4 DEF Unsent, Unqueued, Unset, Unposted, Label
  <2> QED
    BY <1>e, <2>1, <2>2, <2>3, <2>4
\* A step that leaves the memories alone and does not begin to read one.
<1>f. ASSUME UNCHANGED <<line, sem, taken, ordinal>>,
             NEW p \in Process, NEW l \in Label \cup {"pipe", "named_pipe"},
             pc[p] \in Label \cup {"pipe", "named_pipe"}, GoTo(p, l),
             \A m \in Memory : l # ReadLabel[m]
      PROVE  Posts
  <2>1. \A m \in Memory :
            pc'["parent"] \in Unposted(m) <=> pc["parent"] \in Unposted(m)
    BY <1>e, <1>f
  <2>2. \A q \in Process, m \in Memory : Read(q, m)' => Read(q, m)
    BY <1>f, <1>b DEF Read, GoTo
  <2> QED
    BY <1>a, <1>f, <2>1, <2>2, PostsFrame DEF Posts
<1>g. ASSUME UNCHANGED <<line, value, stream, heard, queue>>,
             \/ UNCHANGED pc
             \/ \E p \in Process, l \in Label \cup {"pipe", "named_pipe"} :
                   /\ pc[p] \in Label \cup {"pipe", "named_pipe"} /\ GoTo(p, l)
      PROVE  Sends
  BY <1>a, <1>d, <1>e, <1>g, SentFrame DEF Sends
<1>1. ASSUME NEW p \in Process, Select(p) PROVE SentInv'
  <2>1. \A c \in Stream : stream[c] \cup heard[c] \subseteq stream'[c] \cup heard'[c]
    BY <1>1, <1>b DEF Select, Hear, Stream
  <2>2. \A n \in Nat : InQueue(n) => InQueue(n)'
    BY <1>1, <1>b DEF Select, Hear, InQueue, Stream
  <2>3. pc[p] \in Label /\ GoTo(p, "try_mmap") /\ UNCHANGED <<line, value>>
    BY <1>1 DEF Select, At, Label, memories
  <2>4. Sends
    BY <2>1, <2>2, <2>3, <1>a, <1>e, SentFrame DEF Sends, Label
  <2>5. Posts
    BY <1>1, <2>3, <1>f DEF Select, memories, Label, ReadLabel, Memory
  <2> QED
    BY <2>4, <2>5, <1>c
<1>2. ASSUME NEW p \in Process, NEW m \in Memory, TakeAnnouncement(p, m) PROVE SentInv'
  <2>1. /\ pc[p] \in Label /\ ReadLabel[m] \in Label
        /\ GoTo(p, ReadLabel[m])
    BY <1>2 DEF TakeAnnouncement, At, TryLabel, ReadLabel, Label, Memory
  <2>2. Sends
    BY <1>2, <2>1, <1>g DEF TakeAnnouncement, channels
  <2>3. /\ sem' = [sem EXCEPT ![m] = sem[m] - 1] /\ sem[m] > 0
        /\ taken' = [taken EXCEPT ![m] = taken[m] + 1]
        /\ ordinal' = [ordinal EXCEPT ![p] = taken[m] + 1]
        /\ UNCHANGED line
    BY <1>2 DEF TakeAnnouncement
  <2>4. \A k \in Memory : sem'[k] + taken'[k] = Through(Unposted(k))'
    <3>1. \A k \in Memory : Through(Unposted(k))' = Through(Unposted(k))
      BY <2>1, <2>3, <1>e DEF Through, Unposted
    <3>2. \A k \in Memory : sem'[k] + taken'[k] = sem[k] + taken[k]
      BY <2>3, <1>b
    <3> QED
      BY <3>1, <3>2, <1>a DEF SentInv
  <2>5. ASSUME NEW q \in Process, NEW k \in Memory, Read(q, k)'
        PROVE  ordinal'[q] <= taken'[k]
    <3>1. CASE q = p
      <4>1. k = m
        BY <2>1, <2>5, <3>1, <1>b DEF Read, GoTo, ReadLabel, Memory
      <4> QED
        BY <3>1, <4>1, <2>3, <1>b
    <3>2. CASE q # p
      <4>1. Read(q, k) /\ ordinal'[q] = ordinal[q]
        BY <2>1, <2>3, <2>5, <3>2, <1>b DEF Read, GoTo
      <4> QED
        BY <4>1, <2>3, <1>a, <1>b DEF SentInv
    <3> QED
      BY <3>1, <3>2
  <2> QED
    BY <2>2, <2>4, <2>5, <1>c DEF Posts
<1>3. ASSUME NEW p \in Process, NEW m \in Memory, NoAnnouncement(p, m) PROVE SentInv'
  <2>1. /\ pc[p] \in Label /\ After(p, m) \in Label \cup {"pipe"}
        /\ \A k \in Memory : After(p, m) # ReadLabel[k]
    BY <1>3 DEF NoAnnouncement, At, TryLabel, ReadLabel, After, Label, Memory
  <2>2. Sends
    BY <1>3, <2>1, <1>g DEF NoAnnouncement, channels, memories
  <2>3. Posts
    BY <1>3, <2>1, <1>f DEF NoAnnouncement, memories
  <2> QED
    BY <2>2, <2>3, <1>c
<1>4. ASSUME NEW p \in Process, NEW m \in Memory, ReadValue(p, m) PROVE SentInv'
  <2>1. /\ pc[p] \in Label /\ After(p, m) \in Label \cup {"pipe"}
        /\ \A k \in Memory : After(p, m) # ReadLabel[k]
    BY <1>4 DEF ReadValue, At, ReadLabel, After, Label, Memory
  <2>2. Sends
    BY <1>4, <2>1, <1>g DEF ReadValue, channels
  <2>3. \A q \in Process, k \in Memory :
            Read(q, k)' => Read(q, k) /\ ordinal'[q] = ordinal[q]
    BY <1>4, <2>1, <1>b DEF ReadValue, Read, GoTo
  <2>4. Posts
    BY <1>4, <2>1, <2>3, <1>a, <1>e, PostsFrame DEF ReadValue, Posts
  <2> QED
    BY <2>2, <2>4, <1>c
<1>5. CASE receiveFromPipe \/ receiveFromNamedPipe
  <2> USE DEF receiveFromPipe, receiveFromNamedPipe, ReceiveFrom
  <2>1. \A c \in Stream : stream[c] \cup heard[c] \subseteq stream'[c] \cup heard'[c]
    BY <1>5, <1>b DEF Hear, Stream
  <2>2. \A n \in Nat : InQueue(n) => InQueue(n)'
    BY <1>5, <1>b DEF Hear, InQueue, Stream
  <2>3. PICK l \in {"named_pipe", "mq"} :
            /\ pc["child"] \in {"pipe", "named_pipe"} /\ GoTo("child", l)
            /\ UNCHANGED <<line, value, sem, taken, ordinal>>
    BY <1>5 DEF At, memories
  <2>4. "child" \in Process /\ l \in Label \cup {"pipe", "named_pipe"}
        /\ \A m \in Memory : l # ReadLabel[m]
    BY DEF Process, Label, ReadLabel, Memory
  <2>5. Sends
    BY <2>1, <2>2, <2>3, <2>4, <1>a, <1>e, SentFrame DEF Sends
  <2>6. Posts
    BY <2>3, <2>4, <1>f
  <2> QED
    BY <2>5, <2>6, <1>c
<1>6. ASSUME NEW p \in Process, receiveFromMessageQueue(p) PROVE SentInv'
  <2> DEFINE own == OwnQueue(p)
             first == {c.line : c \in First(queue[own])}
  <2>1. own \in Queue
    BY DEF OwnQueue, Queue
  <2>2. /\ queue' = [queue EXCEPT ![own] = queue[own] \ First(queue[own])]
        /\ heard' = [heard EXCEPT !["mq"] = heard["mq"] \cup first]
    BY <1>6 DEF receiveFromMessageQueue, Hear
  <2>3. heard'["mq"] = heard["mq"] \cup first
    BY <2>2, <1>b
  <2>4. \A q \in Queue : \A c \in queue[q] : c \in queue'[q] \/ c.line \in first
    BY <2>1, <2>2, <1>b
  <2> HIDE DEF first
  <2>5. \A n \in Nat : InQueue(n) => InQueue(n)'
    BY <2>3, <2>4 DEF InQueue, Queue
  <2>6. \A c \in Stream : stream[c] \cup heard[c] \subseteq stream'[c] \cup heard'[c]
    BY <1>6, <2>2, <1>b DEF receiveFromMessageQueue, Stream
  <2>7. /\ pc[p] \in Label /\ GoTo(p, "chat") /\ "chat" \in Label
        /\ \A m \in Memory : "chat" # ReadLabel[m]
        /\ UNCHANGED <<line, value, sem, taken, ordinal>>
    BY <1>6 DEF receiveFromMessageQueue, At, Label, ReadLabel, Memory, memories
  <2>8. Sends
    BY <2>5, <2>6, <2>7, <1>a, <1>e, SentFrame DEF Sends
  <2>9. Posts
    BY <2>7, <1>f
  <2> QED
    BY <2>8, <2>9, <1>c
<1>7. ASSUME NEW p \in Process, ChatNothing(p) PROVE SentInv'
  <2>1. /\ pc[p] \in Label /\ GoTo(p, "select") /\ "select" \in Label
        /\ \A m \in Memory : "select" # ReadLabel[m]
        /\ UNCHANGED <<line, value, stream, heard, queue, sem, taken, ordinal>>
    BY <1>7 DEF ChatNothing, At, Label, ReadLabel, Memory, channels, memories
  <2>2. Sends
    BY <2>1, <1>g
  <2>3. Posts
    BY <2>1, <1>f
  <2> QED
    BY <2>2, <2>3, <1>c
<1>8. CASE ChatLine
  <2>1. /\ pc["parent"] = "chat" /\ pc'["parent"] = "send_pair" /\ line' = line + 1
        /\ UNCHANGED <<stream, queue, heard, value, sem, taken, ordinal>>
        /\ pc' = [pc EXCEPT !["parent"] = "send_pair"]
    BY <1>8, <1>b DEF ChatLine, At, GoTo, Process, channels, memories
  <2>2. /\ \A c \in Stream : Through(Unsent(c))' = Through(Unsent(c))
        /\ Through(Unqueued)' = Through(Unqueued)
        /\ \A m \in Memory : Through(Unset(m))' = Through(Unset(m))
        /\ \A m \in Memory : Through(Unposted(m))' = Through(Unposted(m))
    BY <2>1, <1>b DEF Through, Unsent, Unqueued, Unset, Unposted
  <2>3. Sends
    BY <2>1, <2>2, <1>a DEF Sends, SentInv, InStream, InQueue
  <2>4. \A p \in Process, m \in Memory : Read(p, m)' => Read(p, m)
    BY <2>1, <1>b DEF Read, ReadLabel, Memory
  <2>5. Posts
    BY <2>1, <2>2, <2>4, <1>a DEF Posts, SentInv
  <2> QED
    BY <2>3, <2>5, <1>c
<1>9. CASE sendOnSocketPair \/ sendOnPipe \/ sendOnNamedPipe
  <2>1. PICK c \in Stream, l \in {"send_pair", "send_pipe", "send_named_pipe"} :
            /\ SendOn(c, l)
            /\ <<c, l>> \in {<<"pair", "send_pair">>, <<"pipe", "send_pipe">>,
                             <<"named_pipe", "send_named_pipe">>}
    BY <1>9 DEF sendOnSocketPair, sendOnPipe, sendOnNamedPipe, Stream
  <2>2. /\ pc["parent"] = l /\ pc'["parent"] = AfterSend[l]
        /\ pc' = [pc EXCEPT !["parent"] = AfterSend[l]]
        /\ stream' = [stream EXCEPT ![c] = stream[c] \cup {line}]
        /\ UNCHANGED <<line, queue, heard, value, sem, taken, ordinal>>
    BY <2>1, <1>b DEF SendOn, Sent, At, GoTo, Process, memories
  <2>3. /\ Through(Unqueued)' = Through(Unqueued)
        /\ \A m \in Memory : Through(Unset(m))' = Through(Unset(m))
        /\ \A m \in Memory : Through(Unposted(m))' = Through(Unposted(m))
    BY <2>2 DEF Through, Unqueued, Unset, Unposted, AfterSend
  <2>4. /\ \A d \in Stream \ {c} : Through(Unsent(d))' = Through(Unsent(d))
        /\ Through(Unsent(c)) = line - 1 /\ Through(Unsent(c))' = line
    BY <2>1, <2>2 DEF Through, Unsent, AfterSend, Stream
  <2>5. \A d \in Stream : \A n \in 1 .. Through(Unsent(d))' : InStream(d, n)'
    <3>1. \A d \in Stream, n \in Nat : InStream(d, n) => InStream(d, n)'
      BY <2>2, <1>b DEF InStream
    <3>2. InStream(c, line)'
      BY <2>2, <1>b DEF InStream
    <3>3. \A n \in 1 .. line : n = line \/ n \in 1 .. line - 1
      BY <1>b
    <3> QED
      <4> SUFFICES ASSUME NEW d \in Stream, NEW n \in 1 .. Through(Unsent(d))'
                   PROVE  InStream(d, n)'
        OBVIOUS
      <4>1. CASE d # c
        <5>1. InStream(d, n) /\ n \in Nat
          BY <4>1, <2>4, <1>a, <1>b DEF SentInv, Through
        <5> QED
          BY <5>1, <3>1
      <4>2. CASE d = c /\ n # line
        <5>1. n \in 1 .. line
          BY <4>2, <2>4
        <5>2. n \in 1 .. line - 1
          BY <5>1, <4>2, <3>3
        <5>3. Through(Unsent(d)) = line - 1
          BY <4>2, <2>4
        <5>4. n \in 1 .. Through(Unsent(d)) /\ n \in Nat
          BY <5>1, <5>2, <5>3
        <5> QED
          BY <5>4, <3>1, <1>a DEF SentInv
      <4> QED
        BY <4>1, <4>2, <3>2, <2>2 DEF InStream
  <2>6. Sends
    BY <2>2, <2>3, <2>5, <1>a DEF Sends, SentInv, InQueue
  <2>7. \A p \in Process, m \in Memory : Read(p, m)' => Read(p, m)
    BY <2>2, <1>b DEF Read, ReadLabel, Memory, AfterSend
  <2>8. Posts
    BY <2>2, <2>3, <2>7, <1>a DEF Posts, SentInv
  <2> QED
    BY <2>6, <2>8, <1>c
<1>10. ASSUME NEW prio \in Prio, sendOnMessageQueue(prio) PROVE SentInv'
  <2>1. /\ pc["parent"] = "send_mq"
        /\ \/ pc' = [pc EXCEPT !["parent"] = "set_mmap"]
           \/ pc' = pc
        /\ queue' = [queue EXCEPT !["/child"] =
                         queue["/child"] \cup {[line |-> line, prio |-> prio]}]
        /\ UNCHANGED <<line, stream, heard, value, sem, taken, ordinal>>
    BY <1>10 DEF sendOnMessageQueue, Sent, AfterSend, At, GoTo, PeerQueue, memories
  <2>2. pc'["parent"] \in {"send_mq", "set_mmap"}
    BY <2>1, <1>b DEF Process
  <2>3. /\ \A c \in Stream : Through(Unsent(c))' = Through(Unsent(c))
        /\ \A m \in Memory : Through(Unset(m))' = Through(Unset(m))
        /\ \A m \in Memory : Through(Unposted(m))' = Through(Unposted(m))
    BY <2>1, <2>2 DEF Through, Unsent, Unqueued, Unset, Unposted
  <2>4. Through(Unqueued) = line - 1 /\ Through(Unqueued)' \in {line - 1, line}
    BY <2>1 DEF Through, Unqueued
  <2>5. \A n \in 1 .. Through(Unqueued)' : InQueue(n)'
    <3>1. \A q \in Queue : queue[q] \subseteq queue'[q]
      BY <2>1, <1>b DEF Queue
    <3>2. \A n \in Nat : InQueue(n) => InQueue(n)'
      BY <2>1, <3>1 DEF InQueue, Queue
    <3>3. [line |-> line, prio |-> prio] \in queue'["/child"]
      BY <2>1, <1>b DEF Queue
    <3>4. InQueue(line)'
      BY <2>1, <3>3 DEF InQueue
    <3>5. \A n \in 1 .. line : n = line \/ n \in 1 .. line - 1
      BY <1>b
    <3> QED
      <4> SUFFICES ASSUME NEW n \in 1 .. Through(Unqueued)', n # line
                   PROVE  InQueue(n)'
        BY <3>4, <2>1 DEF InQueue
      <4>1. n \in 1 .. Through(Unqueued) /\ n \in Nat
        <5>1. n \in 1 .. line
          BY <2>4, <1>b
        <5>2. n \in 1 .. line - 1
          BY <5>1, <3>5
        <5> QED
          BY <5>1, <5>2, <2>4
      <4> QED
        BY <4>1, <3>2, <1>a DEF SentInv
  <2>6. Sends
    BY <2>1, <2>3, <2>5, <1>a DEF Sends, SentInv, InStream
  <2>7. \A p \in Process, m \in Memory : Read(p, m)' => Read(p, m)
    BY <2>1, <1>b DEF Read, ReadLabel, Memory
  <2>8. Posts
    BY <2>1, <2>3, <2>7, <1>a DEF Posts, SentInv
  <2> QED
    BY <2>6, <2>8, <1>c
<1>11. ASSUME NEW m \in Memory, SetSharedMemory(m) PROVE SentInv'
  <2>1. /\ pc["parent"] = SetLabel[m] /\ pc'["parent"] = AfterSend[SetLabel[m]]
        /\ pc' = [pc EXCEPT !["parent"] = AfterSend[SetLabel[m]]]
        /\ value' = [value EXCEPT ![m] = line]
        /\ UNCHANGED <<line, stream, queue, heard, sem, taken, ordinal>>
    BY <1>11, <1>b DEF SetSharedMemory, Sent, At, GoTo, Process, channels
  <2>2. /\ \A c \in Stream : Through(Unsent(c))' = Through(Unsent(c))
        /\ Through(Unqueued)' = Through(Unqueued)
        /\ \A k \in Memory \ {m} : Through(Unset(k))' = Through(Unset(k))
        /\ Through(Unset(m))' = line
        /\ \A k \in Memory : Through(Unposted(k))' = Through(Unposted(k))
    BY <2>1 DEF Through, Unsent, Unqueued, Unset, Unposted, SetLabel, AfterSend, Memory
  <2>3. \A k \in Memory : value'[k] = Through(Unset(k))'
    BY <2>1, <2>2, <1>a, <1>b DEF SentInv
  <2>4. Sends
    BY <2>1, <2>2, <2>3, <1>a DEF Sends, SentInv, InStream, InQueue
  <2>5. \A p \in Process, k \in Memory : Read(p, k)' => Read(p, k)
    BY <2>1, <1>b DEF Read, ReadLabel, Memory, SetLabel, AfterSend
  <2>6. Posts
    BY <2>1, <2>2, <2>5, <1>a DEF Posts, SentInv
  <2> QED
    BY <2>4, <2>6, <1>c
<1>12. ASSUME NEW m \in Memory, PostSemaphore(m) PROVE SentInv'
  <2>1. /\ pc["parent"] = PostLabel[m] /\ pc'["parent"] = AfterSend[PostLabel[m]]
        /\ pc' = [pc EXCEPT !["parent"] = AfterSend[PostLabel[m]]]
        /\ sem' = [sem EXCEPT ![m] = sem[m] + 1]
        /\ UNCHANGED <<line, stream, queue, heard, value, taken, ordinal>>
    BY <1>12, <1>b DEF PostSemaphore, Sent, At, GoTo, Process, channels
  <2>2. /\ \A c \in Stream : Through(Unsent(c))' = Through(Unsent(c))
        /\ Through(Unqueued)' = Through(Unqueued)
        /\ \A k \in Memory : Through(Unset(k))' = Through(Unset(k))
        /\ \A k \in Memory \ {m} : Through(Unposted(k))' = Through(Unposted(k))
        /\ Through(Unposted(m)) = line - 1 /\ Through(Unposted(m))' = line
    BY <2>1 DEF Through, Unsent, Unqueued, Unset, Unposted, PostLabel, AfterSend, Memory
  <2>3. Sends
    BY <2>1, <2>2, <1>a DEF Sends, SentInv, InStream, InQueue
  <2>4. \A k \in Memory : sem'[k] + taken'[k] = Through(Unposted(k))'
    <3>1. \A k \in Memory : sem[k] + taken[k] = Through(Unposted(k))
      BY <1>a DEF SentInv
    <3>2. sem[m] \in Nat /\ taken[m] \in Nat /\ sem'[m] = sem[m] + 1
      BY <2>1, <1>b
    <3>3. sem'[m] + taken'[m] = line
      BY <2>1, <2>2, <3>1, <3>2, <1>b
    <3>4. \A k \in Memory \ {m} : sem'[k] = sem[k]
      BY <2>1, <1>b
    <3> QED
      BY <2>1, <2>2, <3>1, <3>3, <3>4
  <2>5. \A p \in Process, k \in Memory : Read(p, k)' => Read(p, k)
    BY <2>1, <1>b DEF Read, ReadLabel, Memory, PostLabel, AfterSend
  <2>6. Posts
    BY <2>1, <2>4, <2>5, <1>a DEF Posts, SentInv
  <2> QED
    BY <2>3, <2>6, <1>c
<1>13. CASE sendOnMessageQueueFails \/ End \/ UNCHANGED vars
  <2>1. UNCHANGED <<pc, line, stream, queue, heard, value, sem, taken, ordinal>>
    BY <1>13 DEF sendOnMessageQueueFails, End, vars, channels, memories
  <2>2. Sends
    BY <2>1, <1>g
  <2>3. Posts
    BY <2>1, <1>a, <1>e, PostsFrame DEF Posts, Read
  <2> QED
    BY <2>2, <2>3, <1>c
<1>14. ASSUME NEW p \in Process, Receive(p) PROVE SentInv'
  BY <1>14, <1>1, <1>2, <1>3, <1>4, <1>6, <1>7 DEF Receive
<1>15. CASE Send
  BY <1>15, <1>9, <1>10, <1>11, <1>12, <1>13 DEF Send
<1>16. "parent" \in Process /\ "child" \in Process
  BY DEF Process
<1> QED
  BY <1>5, <1>8, <1>13, <1>14, <1>15, <1>16 DEF Next, ChildStep, ParentStep

\* An announcement that is taken, by whichever process, is true.
THEOREM AnnouncementIsTrueHolds == Spec => []AnnouncementIsTrue
<1>1. Init => IpcInv
  <2> SUFFICES ASSUME Init PROVE SentInv
    BY TypeInit DEF IpcInv
  <2>1. \A ahead : "select" \notin ahead => Through(ahead) = 0
    BY DEF Init, Through, Process
  <2>2. /\ \A c \in Stream : Through(Unsent(c)) = 0
        /\ Through(Unqueued) = 0
        /\ \A m \in Memory : Through(Unset(m)) = 0 /\ Through(Unposted(m)) = 0
    BY <2>1 DEF Unsent, Unqueued, Unset, Unposted
  <2>3. \A p \in Process, m \in Memory : ~Read(p, m)
    BY DEF Init, Read, ReadLabel, Memory
  <2> QED
    BY <2>2, <2>3 DEF Init, SentInv, Memory
<1>2. IpcInv /\ [Next]_vars => IpcInv'
  BY TypeStep, SentStep DEF IpcInv
<1> QED
  BY <1>1, <1>2, IpcInvImplies, PTL DEF Spec

=============================================================================
