------------------------- MODULE SctpEndpointProofs -------------------------
(****************************************************************************)
(* For any remotes, descriptors, ids and bounds: what the kernel tells      *)
(* about an association reaches the slot of that association, and no        *)
(* association ends without a slot before the table is full.                *)
(****************************************************************************)

EXTENDS SctpEndpoint, FiniteSetTheorems, SequenceTheorems, TLAPS

USE DescriptorAssumption, IdAssumption, BoundAssumption, RemotesAssumption

\* The end of an association.
IsEnd(e) == e.state \in {"shutdown", "lost"}

\* The notification at position i of q tells that the association id is up.
UpAt(q, i, id) == q[i].state = "up" /\ q[i].assoc_id = id

\* A closed slot has no id, and the id of one in use is that of an association which
\* is there or whose end is still to be read.
SlotsHaveIds ==
    /\ \A k \in DOMAIN socket.peers :
          socket.peers[k].fd = Closed <=> socket.peers[k].assoc_id = Closed
    /\ \A k \in Occupied(socket) :
          LET p == socket.peers[k]
          IN  p.assoc_id \in DOMAIN assocs \/ \E e \in EventsOf(p.fd) : IsEnd(e)

\* An association reports on an open descriptor.
AssocsReport == \A id \in DOMAIN assocs : assocs[id].fd \in DOMAIN queue

\* An association comes up once, on the descriptor of all associations.
UpsOnce ==
    \A fd \in DOMAIN queue : \A i \in DOMAIN queue[fd] :
        queue[fd][i].state = "up" =>
            /\ fd = socket.fd
            /\ \A j \in DOMAIN queue[fd] : UpAt(queue[fd], j, queue[fd][i].assoc_id) => j = i

\* An association whose end is to be read is not there any more.
EndedAreGone ==
    \A fd \in DOMAIN queue : \A e \in EventsOf(fd) :
        IsEnd(e) => e.assoc_id \in AssocId \ DOMAIN assocs

\* As long as the table is not full, an association without a slot is still to be told to
\* be up, and that before it is told to have ended.
Announced ==
    ~Full(socket) =>
        LET q == queue[socket.fd]
        IN  /\ \A id \in DOMAIN assocs :
                  assocs[id].fd = socket.fd => \E i \in DOMAIN q : UpAt(q, i, id)
            /\ \A i \in DOMAIN q :
                  IsEnd(q[i]) => \E j \in 1 .. i - 1 : UpAt(q, j, q[i].assoc_id)

\* What every step keeps.  That an id is not given to a new association while a slot or
\* a notification bears it is what SlotsHaveIds and EndedAreGone are for.
SctpInv ==
    /\ TypeOK
    /\ SlotsOwnAssociations
    /\ Running => SlotsHaveIds /\ AssocsReport /\ UpsOnce /\ EndedAreGone /\ Announced
    /\ ~Running => pending = {} /\ assocs = <<>> /\ queue = <<>>
    /\ CrashOnlyIfFull

------------------------------------------------------------------------------

\* The events in sub are those of seq about ids, in their order: at is where they were.
Picks(sub, seq, ids) ==
    /\ sub \in Seq(Event)
    /\ \E at \in [DOMAIN sub -> DOMAIN seq] :
          /\ \A k \in DOMAIN sub : sub[k] = seq[at[k]] /\ sub[k].assoc_id \in ids
          /\ \A i \in DOMAIN seq :
                seq[i].assoc_id \in ids => \E k \in DOMAIN sub : at[k] = i
          /\ \A k, l \in DOMAIN sub : at[k] < at[l] => k < l
          /\ \A k, l \in DOMAIN sub : at[k] = at[l] => k = l


\* About does what its name says.
LEMMA AboutPicks ==
    ASSUME NEW seq \in Seq(Event), NEW ids
    PROVE  Picks(About(seq, ids), seq, ids)
<1> DEFINE S == {i \in DOMAIN seq : seq[i].assoc_id \in ids}
           UpTo(i) == {j \in S : j <= i}
           Rank(i) == Cardinality(UpTo(i))
           n == Cardinality(S)
           rank == [i \in S |-> Rank(i)]
           at == [k \in 1 .. n |-> CHOOSE i \in S : Rank(i) = k]
           sub == About(seq, ids)
<1>1. DOMAIN seq = 1 .. Len(seq) /\ Len(seq) \in Nat
  OBVIOUS
<1>2. S \subseteq DOMAIN seq /\ \A i \in S : i \in Nat
  BY <1>1
<1>3. IsFiniteSet(S) /\ n \in Nat
  <2>1. IsFiniteSet(DOMAIN seq)
    BY <1>1, FS_Interval
  <2> QED
    BY <1>2, <2>1, FS_Subset, FS_CardinalityType
<1>4. sub = [k \in 1 .. n |-> seq[CHOOSE i \in S : Rank(i) = k]]
  BY DEF About
<1>5. \A i \in DOMAIN seq : i \in S <=> seq[i].assoc_id \in ids
  OBVIOUS
<1> HIDE DEF S
<1>6. ASSUME NEW i \in S
      PROVE  /\ UpTo(i) \subseteq S /\ i \in UpTo(i)
             /\ IsFiniteSet(UpTo(i)) /\ Rank(i) \in 1 .. n
  <2>1. UpTo(i) \subseteq S /\ i \in UpTo(i)
    BY <1>2
  <2>2. IsFiniteSet(UpTo(i)) /\ Cardinality(UpTo(i)) <= n
    BY <1>3, <2>1, FS_Subset
  <2>3. Cardinality(UpTo(i)) \in Nat /\ Cardinality(UpTo(i)) # 0
    BY <2>1, <2>2, FS_CardinalityType, FS_EmptySet
  <2> QED
    BY <1>3, <2>1, <2>2, <2>3
<1>7. ASSUME NEW i \in S, NEW j \in S, i < j
      PROVE  Rank(i) < Rank(j)
  <2>1. UpTo(i) \subseteq UpTo(j) /\ j \notin UpTo(i) /\ j \in UpTo(j)
    BY <1>2, <1>7
  <2>2. UpTo(i) # UpTo(j) /\ IsFiniteSet(UpTo(j))
    BY <1>6, <2>1
  <2> HIDE DEF UpTo
  <2>3. Cardinality(UpTo(i)) <= Cardinality(UpTo(j))
        /\ Cardinality(UpTo(j)) # Cardinality(UpTo(i))
    BY <2>1, <2>2, FS_Subset
  <2> QED
    BY <1>6, <2>3
<1> HIDE DEF Rank, n
<1>8. rank \in [S -> 1 .. n] /\ \A i, j \in S : rank[i] = rank[j] => i = j
  <2>1. \A i \in S : rank[i] = Rank(i) /\ Rank(i) \in 1 .. n
    BY <1>6
  <2>2. ASSUME NEW i \in S, NEW j \in S, rank[i] = rank[j]
        PROVE  i = j
    BY <1>2, <1>3, <1>7, <2>1, <2>2
  <2>3. rank \in [S -> 1 .. n]
    BY <2>1
  <2> QED
    BY <2>2, <2>3
<1>9. \A k \in 1 .. n : \E i \in S : Rank(i) = k
  <2> HIDE DEF rank
  <2>1. rank \in Injection(S, 1 .. n)
    BY <1>8 DEF Injection, IsInjective
  <2>2. IsFiniteSet(1 .. n) /\ Cardinality(1 .. n) = n
    BY <1>3, FS_Interval
  <2>3. rank \in Surjection(S, 1 .. n)
    BY <2>1, <2>2, FS_Injection DEF n
  <2> QED
    BY <2>3 DEF Surjection, rank
<1>10. \A k \in 1 .. n : at[k] \in S /\ Rank(at[k]) = k
  BY <1>9
<1>11. DOMAIN sub = 1 .. n /\ \A k \in 1 .. n : sub[k] = seq[at[k]]
  BY <1>4
<1> HIDE DEF at, sub
<1>12. \A k \in 1 .. n : at[k] \in DOMAIN seq /\ sub[k] \in Event
  BY <1>2, <1>10, <1>11
<1>13. sub \in Seq(Event)
  <2>1. sub \in [1 .. n -> Event]
    BY <1>4, <1>11, <1>12
  <2> QED
    BY <1>3, <2>1
<1>14. at \in [DOMAIN sub -> DOMAIN seq]
  BY <1>11, <1>12 DEF at
<1>15. \A k \in DOMAIN sub : sub[k] = seq[at[k]] /\ sub[k].assoc_id \in ids
  BY <1>5, <1>10, <1>11, <1>12
<1>16. ASSUME NEW i \in DOMAIN seq, seq[i].assoc_id \in ids
       PROVE  \E k \in DOMAIN sub : at[k] = i
  <2>1. i \in S
    BY <1>5, <1>16
  <2>2. Rank(i) \in 1 .. n /\ at[Rank(i)] \in S /\ Rank(at[Rank(i)]) = Rank(i)
    BY <1>6, <1>10, <2>1
  <2>3. at[Rank(i)] = i
    BY <1>2, <1>7, <2>1, <2>2
  <2> QED
    BY <1>11, <2>2, <2>3
<1>17. \A k, l \in DOMAIN sub : /\ at[k] < at[l] => k < l
                                /\ at[k] = at[l] => k = l
  BY <1>7, <1>10, <1>11
<1> QED
  BY <1>13, <1>14, <1>15, <1>16, <1>17 DEF sub, Picks

\* Two sockets with the same slots.
SameSlots(s, t) == t.fd = s.fd /\ t.peers = s.peers

\* Scheduling, launching and waiting change only the task list.
LEMMA OnlyTasks ==
    ASSUME NEW s \in Socket
    PROVE  /\ LET t == [s EXCEPT !.tasks = <<>>] IN t \in Socket /\ SameSlots(s, t)
           /\ LET t == [s EXCEPT !.tasks = Elapsed(s.tasks)]
              IN  t \in Socket /\ SameSlots(s, t)
           /\ \A r \in Remote :
                 LET t == scheduleReestablishment(s, r) IN t \in Socket /\ SameSlots(s, t)
           /\ \A i \in DOMAIN s.tasks :
                 LET t == LaunchedTask(s, i) IN t \in Socket /\ SameSlots(s, t)
<1>1. s.tasks \in Seq(Task)
  BY DEF Socket
<1>2. ASSUME NEW tasks \in Seq(Task)
      PROVE  LET t == [s EXCEPT !.tasks = tasks] IN t \in Socket /\ SameSlots(s, t)
  BY DEF Socket, SameSlots
<1>3. Elapsed(s.tasks) \in Seq(Task)
  <2> DEFINE u == Elapsed(s.tasks)
  <2>1. DOMAIN u = DOMAIN s.tasks
    BY DEF Elapsed
  <2>2. ASSUME NEW j \in DOMAIN s.tasks PROVE u[j] \in Task
    <3>1. s.tasks[j] \in Task
      BY <1>1
    <3>2. CASE Armed(s.tasks[j]) /\ s.tasks[j].wait > 0
      <4>1. u[j] = [s.tasks[j] EXCEPT !.wait = s.tasks[j].wait - 1]
        BY <3>2 DEF Elapsed
      <4>2. s.tasks[j].wait \in Nat
        BY <3>1 DEF Task
      <4>3. s.tasks[j].wait - 1 \in Nat
        BY <3>2, <4>2
      <4> QED
        BY <3>1, <4>1, <4>3 DEF Task
    <3>3. CASE ~(Armed(s.tasks[j]) /\ s.tasks[j].wait > 0)
      BY <3>1, <3>3 DEF Elapsed
    <3> QED
      BY <3>2, <3>3
  <2>3. DOMAIN s.tasks = 1 .. Len(s.tasks) /\ Len(s.tasks) \in Nat
    BY <1>1
  <2>4. u = [j \in 1 .. Len(s.tasks) |-> u[j]]
    BY <2>3 DEF Elapsed
  <2> HIDE DEF u
  <2>5. u \in [1 .. Len(s.tasks) -> Task]
    BY <2>1, <2>2, <2>3, <2>4
  <2> QED
    BY <2>3, <2>5 DEF u
<1>4. ASSUME NEW r \in Remote
      PROVE  scheduleTask(s.tasks, createScheduledTask("reestablish", 1, 1, r)) \in Seq(Task)
  <2>1. createScheduledTask("reestablish", 1, 1, r) \in Task
    BY DEF createScheduledTask, Task
  <2> QED
    BY <1>1, <2>1 DEF scheduleTask
<1>5. ASSUME NEW i \in DOMAIN s.tasks
      PROVE  RemoveAt(s.tasks, i) \in Seq(Task)
  <2>1. i \in 1 .. Len(s.tasks) /\ Len(s.tasks) \in Nat
    BY <1>1
  <2>2. SubSeq(s.tasks, 1, i - 1) \in Seq(Task)
    BY <1>1, <2>1, SubSeqProperties
  <2>3. SubSeq(s.tasks, i + 1, Len(s.tasks)) \in Seq(Task)
    BY <1>1, <2>1, SubSeqProperties
  <2> QED
    BY <2>2, <2>3 DEF RemoveAt
<1>6. <<>> \in Seq(Task)
  OBVIOUS
<1> QED
  BY <1>2, <1>3, <1>4, <1>5, <1>6 DEF scheduleReestablishment, LaunchedTask

\* Slots, descriptors and the bound are those of the table, whatever the tasks are.
LEMMA Slots ==
    ASSUME NEW s, NEW t, SameSlots(s, t)
    PROVE  Occupied(t) = Occupied(s) /\ PeerFds(t) = PeerFds(s) /\ Full(t) = Full(s)
BY DEF SameSlots, Occupied, PeerFds, Full

\* A peeled off association gets a slot of its own.
LEMMA NewSlot ==
    ASSUME NEW s \in Socket, ~Full(s), NEW new \in FD, NEW id \in AssocId
    PROVE  LET t == peelOff(s, new, id)
               n == Len(s.peers) + 1
           IN  /\ t \in Socket /\ t.fd = s.fd
               /\ DOMAIN t.peers = DOMAIN s.peers \cup {n} /\ n \notin DOMAIN s.peers
               /\ t.peers[n].fd = new /\ t.peers[n].assoc_id = id
               /\ \A k \in DOMAIN s.peers : t.peers[k] = s.peers[k]
               /\ Occupied(t) = Occupied(s) \cup {n}
               /\ PeerFds(t) = PeerFds(s) \cup {new}
<1> DEFINE p == [fd |-> new, assoc_id |-> id]
           n == Len(s.peers) + 1
           t == peelOff(s, new, id)
<1>1. /\ s = [fd |-> s.fd, peers |-> s.peers, tasks |-> s.tasks]
      /\ s.fd \in FD /\ s.peers \in Seq(Peer) /\ s.tasks \in Seq(Task)
      /\ p \in Peer /\ p.fd # Closed /\ Len(s.peers) < peers_max_count
  BY DEF Socket, Peer, Closed, Full
<1>2. t = [fd |-> s.fd, peers |-> Append(s.peers, p), tasks |-> s.tasks]
  <2>1. t = [s EXCEPT !.peers = Append(s.peers, p)]
    BY DEF peelOff
  <2> HIDE DEF t, p
  <2> QED
    BY <1>1, <2>1
<1> HIDE DEF t, p
<1>3. /\ t.fd = s.fd
      /\ t.peers \in Seq(Peer) /\ Len(t.peers) <= peers_max_count
      /\ DOMAIN t.peers = DOMAIN s.peers \cup {n} /\ n \notin DOMAIN s.peers
      /\ t.peers[n] = p
      /\ \A k \in DOMAIN s.peers : t.peers[k] = s.peers[k]
  BY <1>1, <1>2
<1>4. t \in Socket
  BY <1>1, <1>2, <1>3 DEF Socket
<1> HIDE DEF n
<1>5. Occupied(t) = Occupied(s) \cup {n}
  BY <1>1, <1>3 DEF Occupied
<1>6. PeerFds(t) = PeerFds(s) \cup {new}
  <2>1. \A k \in Occupied(s) : t.peers[k].fd = s.peers[k].fd
    BY <1>3 DEF Occupied
  <2>2. t.peers[n].fd = new
    BY <1>3 DEF p
  <2> QED
    BY <1>5, <2>1, <2>2 DEF PeerFds
<1>7. t.peers[n].fd = new /\ t.peers[n].assoc_id = id
  BY <1>3 DEF p
<1> QED
  BY <1>3, <1>4, <1>5, <1>6, <1>7 DEF t, n

\* removePeer closes one slot.
LEMMA ClosedSlot ==
    ASSUME NEW s \in Socket, NEW k \in Occupied(s),
           \A j \in Occupied(s) : j # k => s.peers[j].fd # s.peers[k].fd
    PROVE  LET t == removePeer(s, k)
           IN  /\ t \in Socket /\ t.fd = s.fd
               /\ DOMAIN t.peers = DOMAIN s.peers
               /\ t.peers[k].fd = Closed /\ t.peers[k].assoc_id = Closed
               /\ \A j \in DOMAIN s.peers \ {k} : t.peers[j] = s.peers[j]
               /\ Occupied(t) = Occupied(s) \ {k}
               /\ PeerFds(t) = PeerFds(s) \ {s.peers[k].fd}
               /\ Full(t) = Full(s)
<1> DEFINE p == [fd |-> Closed, assoc_id |-> Closed]
           t == removePeer(s, k)
<1>1. /\ s = [fd |-> s.fd, peers |-> s.peers, tasks |-> s.tasks]
      /\ s.fd \in FD /\ s.peers \in Seq(Peer) /\ s.tasks \in Seq(Task)
      /\ Len(s.peers) <= peers_max_count
      /\ p \in Peer /\ p.fd = Closed /\ p.assoc_id = Closed /\ k \in DOMAIN s.peers
  BY DEF Socket, Peer, Occupied
<1>2. t = [fd |-> s.fd, peers |-> [s.peers EXCEPT ![k] = p], tasks |-> s.tasks]
  <2>1. t = [s EXCEPT !.peers = [s.peers EXCEPT ![k] = p]]
    BY DEF removePeer
  <2> HIDE DEF t, p
  <2> QED
    BY <1>1, <2>1
<1> HIDE DEF t, p
<1>3. /\ t.fd = s.fd
      /\ t.peers \in Seq(Peer) /\ Len(t.peers) = Len(s.peers)
      /\ DOMAIN t.peers = DOMAIN s.peers
      /\ t.peers[k] = p
      /\ \A j \in DOMAIN s.peers \ {k} : t.peers[j] = s.peers[j]
  BY <1>1, <1>2
<1>4. t \in Socket
  BY <1>1, <1>2, <1>3 DEF Socket
<1>5. Occupied(t) = Occupied(s) \ {k}
  BY <1>1, <1>3 DEF Occupied
<1>6. PeerFds(t) = PeerFds(s) \ {s.peers[k].fd}
  BY <1>3, <1>5 DEF PeerFds, Occupied
<1> QED
  BY <1>1, <1>3, <1>4, <1>5, <1>6 DEF t, Full

\* findPeerByAssocId finds the slot of an association and no other.
LEMMA FindSlot ==
    ASSUME NEW s \in Socket, NEW id \in AssocId,
           \A k \in DOMAIN s.peers : s.peers[k].fd = Closed <=> s.peers[k].assoc_id = Closed,
           \A j, k \in Occupied(s) : j # k => s.peers[j].assoc_id # s.peers[k].assoc_id
    PROVE  LET k == findPeerByAssocId(s, id)
           IN  /\ k # NULL => k \in Occupied(s) /\ s.peers[k].assoc_id = id
               /\ (\E j \in Occupied(s) : s.peers[j].assoc_id = id) => k # NULL
<1> DEFINE S == {j \in DOMAIN s.peers : s.peers[j].assoc_id = id}
           First(k) == s.peers[k].assoc_id = id /\ \A j \in 1 .. k - 1 : s.peers[j].assoc_id # id
<1>1. DOMAIN s.peers = 1 .. Len(s.peers) /\ Len(s.peers) \in Nat /\ id # Closed
  BY DEF Socket, Closed
<1>2. CASE S = {}
  <2>1. findPeerByAssocId(s, id) = NULL
    BY <1>2 DEF findPeerByAssocId
  <2> QED
    BY <1>2, <2>1 DEF Occupied
<1>3. CASE S # {}
  <2>1. PICK m \in S : TRUE
    BY <1>3
  <2>2. \A j \in DOMAIN s.peers : j # m => s.peers[j].assoc_id # id
    BY <1>1 DEF Occupied
  <2>3. m \in DOMAIN s.peers /\ First(m)
    BY <1>1, <2>2
  <2>4. findPeerByAssocId(s, id) = CHOOSE k \in DOMAIN s.peers : First(k)
    BY <2>3 DEF findPeerByAssocId
  <2> DEFINE k == findPeerByAssocId(s, id)
  <2>5. k \in DOMAIN s.peers /\ First(k)
    BY <2>3, <2>4
  <2> HIDE DEF k
  <2>6. k # NULL /\ k \in Occupied(s) /\ s.peers[k].assoc_id = id
    BY <1>1, <2>5 DEF Occupied, NULL
  <2> QED
    BY <2>6 DEF k
<1> QED
  BY <1>2, <1>3

------------------------------------------------------------------------------

\* Slots, associations and notifications fit together.
Fits == SlotsOwnAssociations /\ SlotsHaveIds /\ AssocsReport /\ UpsOnce /\ EndedAreGone
        /\ Announced

\* What the next lemmas need of it, without its definitions.
LEMMA FitsMeans ==
    ASSUME Running, TypeOK, Fits
    PROVE  /\ socket.fd \in FD /\ socket.fd \in DOMAIN queue /\ NULL \notin DOMAIN queue
           /\ DOMAIN queue = PeerFds(socket) \cup {socket.fd}
           /\ \A fd \in DOMAIN queue : fd \in FD /\ queue[fd] \in Seq(Event)
           /\ \A fd \in selected : fd \in DOMAIN queue /\ queue[fd] # <<>>
           /\ \A k \in Occupied(socket) :
                 LET p == socket.peers[k]
                 IN  /\ p.fd \in DOMAIN queue /\ p.fd # socket.fd /\ p.assoc_id \in AssocId
                     /\ \A i \in DOMAIN queue[p.fd] : queue[p.fd][i].assoc_id = p.assoc_id
                     /\ \A i \in DOMAIN queue[socket.fd] :
                           queue[socket.fd][i].assoc_id # p.assoc_id
                     /\ \A id \in DOMAIN assocs : assocs[id].fd = p.fd <=> id = p.assoc_id
                     /\ \/ p.assoc_id \in DOMAIN assocs
                        \/ \E i \in DOMAIN queue[p.fd] : IsEnd(queue[p.fd][i])
           /\ \A j, k \in Occupied(socket) :
                 j # k => /\ socket.peers[j].fd # socket.peers[k].fd
                          /\ socket.peers[j].assoc_id # socket.peers[k].assoc_id
           /\ \A fd \in DOMAIN queue : \A i \in DOMAIN queue[fd] :
                 IsEnd(queue[fd][i]) => queue[fd][i].assoc_id \in AssocId \ DOMAIN assocs
<1>1. /\ socket \in Socket /\ DOMAIN queue \subseteq FD
      /\ queue \in [DOMAIN queue -> Seq(Event)]
  BY DEF TypeOK
<1>2. /\ selected \subseteq Ready
      /\ DOMAIN queue = PeerFds(socket) \cup {socket.fd}
      /\ socket.fd \notin PeerFds(socket)
  BY DEF Fits, SlotsOwnAssociations
<1>3. /\ socket.fd \in FD /\ socket.fd \in DOMAIN queue /\ NULL \notin DOMAIN queue
      /\ \A fd \in DOMAIN queue : fd \in FD /\ queue[fd] \in Seq(Event)
      /\ \A fd \in selected : fd \in DOMAIN queue /\ queue[fd] # <<>>
  BY <1>1, <1>2 DEF Ready, NULL
<1>4. ASSUME NEW k \in Occupied(socket)
      PROVE  LET p == socket.peers[k]
             IN  /\ p.fd \in DOMAIN queue /\ p.fd # socket.fd /\ p.assoc_id \in AssocId
                 /\ \A i \in DOMAIN queue[p.fd] : queue[p.fd][i].assoc_id = p.assoc_id
                 /\ \A i \in DOMAIN queue[socket.fd] :
                       queue[socket.fd][i].assoc_id # p.assoc_id
                 /\ \A id \in DOMAIN assocs : assocs[id].fd = p.fd <=> id = p.assoc_id
                 /\ \/ p.assoc_id \in DOMAIN assocs
                    \/ \E i \in DOMAIN queue[p.fd] : IsEnd(queue[p.fd][i])
  <2> DEFINE p == socket.peers[k]
  <2>1. p.fd \in PeerFds(socket)
    BY DEF PeerFds
  <2>2. p.fd \in DOMAIN queue /\ p.fd # socket.fd
    BY <1>2, <2>1
  <2>3. p \in Peer /\ p.fd # Closed /\ k \in DOMAIN socket.peers
    BY <1>1 DEF Occupied, Socket
  <2>4. p.assoc_id \in AssocId
    BY <2>3 DEF Fits, SlotsHaveIds, Peer
  <2>5. /\ \A e \in EventsOf(p.fd) : e.assoc_id = p.assoc_id
        /\ \A e \in EventsOf(socket.fd) : e.assoc_id # p.assoc_id
        /\ \A id \in DOMAIN assocs : assocs[id].fd = p.fd <=> id = p.assoc_id
    BY DEF Fits, SlotsOwnAssociations
  <2>6. p.assoc_id \in DOMAIN assocs \/ \E e \in EventsOf(p.fd) : IsEnd(e)
    BY DEF Fits, SlotsHaveIds
  <2> QED
    BY <2>2, <2>4, <2>5, <2>6 DEF EventsOf
<1>5. \A fd \in DOMAIN queue : \A i \in DOMAIN queue[fd] :
         IsEnd(queue[fd][i]) => queue[fd][i].assoc_id \in AssocId \ DOMAIN assocs
  BY DEF Fits, EndedAreGone, EventsOf
<1>6. \A j, k \in Occupied(socket) :
         j # k => /\ socket.peers[j].fd # socket.peers[k].fd
                  /\ socket.peers[j].assoc_id # socket.peers[k].assoc_id
  BY DEF Fits, SlotsOwnAssociations
<1> QED
  BY <1>2, <1>3, <1>4, <1>5, <1>6

\* The kernel tells e on fd, and associations come and go accordingly.
Tidings(fd, e) ==
    /\ fd \in DOMAIN queue /\ e \in Event
    /\ queue' = [queue EXCEPT ![fd] = Append(queue[fd], e)]
    /\ \A k \in Occupied(socket) :
          fd = socket.peers[k].fd <=> e.assoc_id = socket.peers[k].assoc_id
    /\ \A id \in DOMAIN assocs \cap DOMAIN assocs' : assocs'[id] = assocs[id]
    /\ \A id \in DOMAIN assocs' \ DOMAIN assocs :
          /\ e.state = "up" /\ e.assoc_id = id /\ id \in FreeIds
          /\ fd = socket.fd /\ assocs'[id].fd = fd
    /\ \A id \in DOMAIN assocs \ DOMAIN assocs' :
          IsEnd(e) /\ e.assoc_id = id /\ fd = assocs[id].fd
    /\ e.state = "up" => e.assoc_id \in DOMAIN assocs' \ DOMAIN assocs
    /\ IsEnd(e) => e.assoc_id \in DOMAIN assocs \ DOMAIN assocs'

LEMMA Told ==
    ASSUME Running, TypeOK, Fits, UNCHANGED <<process, socket, selected>>,
           NEW fd, NEW e, Tidings(fd, e)
    PROVE  Fits'
<1> DEFINE n == Len(queue[fd]) + 1
<1>0. /\ fd \in DOMAIN queue /\ e \in Event
      /\ queue' = [queue EXCEPT ![fd] = Append(queue[fd], e)]
      /\ \A k \in Occupied(socket) :
            fd = socket.peers[k].fd <=> e.assoc_id = socket.peers[k].assoc_id
      /\ \A id \in DOMAIN assocs \cap DOMAIN assocs' : assocs'[id] = assocs[id]
      /\ \A id \in DOMAIN assocs' \ DOMAIN assocs :
            /\ e.state = "up" /\ e.assoc_id = id /\ id \in FreeIds
            /\ fd = socket.fd /\ assocs'[id].fd = fd
      /\ \A id \in DOMAIN assocs \ DOMAIN assocs' :
            IsEnd(e) /\ e.assoc_id = id /\ fd = assocs[id].fd
      /\ e.state = "up" => e.assoc_id \in DOMAIN assocs' \ DOMAIN assocs
      /\ IsEnd(e) => e.assoc_id \in DOMAIN assocs \ DOMAIN assocs'
      /\ DOMAIN assocs \subseteq AssocId
  BY DEF Tidings, TypeOK
<1> USE <1>0
<1>1. queue[fd] \in Seq(Event)
  BY FitsMeans
<1>2. /\ DOMAIN queue' = DOMAIN queue
      /\ \A f \in DOMAIN queue \ {fd} : queue'[f] = queue[f]
      /\ queue'[fd] = Append(queue[fd], e)
  BY DEF TypeOK
<1>3. /\ DOMAIN queue'[fd] = DOMAIN queue[fd] \cup {n} /\ n \notin DOMAIN queue[fd]
      /\ queue'[fd][n] = e
      /\ \A i \in DOMAIN queue[fd] : queue'[fd][i] = queue[fd][i] /\ i < n
      /\ queue'[fd] # <<>> /\ n \in Nat \ {0}
      /\ \A i \in 1 .. n - 1 : i \in DOMAIN queue[fd]
  BY <1>1, <1>2
<1> HIDE DEF n
<1>4. /\ \A f \in DOMAIN queue : EventsOf(f) \subseteq EventsOf(f)'
      /\ \A f \in DOMAIN queue \ {fd} : EventsOf(f)' = EventsOf(f)
      /\ EventsOf(fd)' = EventsOf(fd) \cup {e}
  BY <1>2, <1>3 DEF EventsOf
<1>5. \A id \in FreeIds : \A f \in DOMAIN queue : \A i \in DOMAIN queue[f] :
          queue[f][i].assoc_id # id
  BY DEF FreeIds, Events, EventsOf
<1>6. SlotsOwnAssociations'
  <2>1. selected \subseteq Ready'
    BY <1>2, <1>3, FitsMeans DEF Ready
  <2>2. ASSUME NEW k \in Occupied(socket)
        PROVE  LET p == socket.peers[k]
                   told == queue'[p.fd]
                   q == queue'[socket.fd]
               IN  /\ \A i \in DOMAIN told : told[i].assoc_id = p.assoc_id
                   /\ \A i \in DOMAIN q : q[i].assoc_id # p.assoc_id
                   /\ \A id \in DOMAIN assocs' : assocs'[id].fd = p.fd <=> id = p.assoc_id
    <3> DEFINE p == socket.peers[k]
    <3>1. /\ p.fd \in DOMAIN queue /\ p.fd # socket.fd /\ socket.fd \in DOMAIN queue
          /\ \A i \in DOMAIN queue[p.fd] : queue[p.fd][i].assoc_id = p.assoc_id
          /\ \A i \in DOMAIN queue[socket.fd] : queue[socket.fd][i].assoc_id # p.assoc_id
          /\ \A id \in DOMAIN assocs : assocs[id].fd = p.fd <=> id = p.assoc_id
      BY FitsMeans
    <3>2. fd = p.fd <=> e.assoc_id = p.assoc_id
      OBVIOUS
    <3> HIDE DEF p
    <3>3. \A i \in DOMAIN queue'[p.fd] : queue'[p.fd][i].assoc_id = p.assoc_id
      BY <1>2, <1>3, <3>1, <3>2
    <3>4. \A i \in DOMAIN queue'[socket.fd] : queue'[socket.fd][i].assoc_id # p.assoc_id
      BY <1>2, <1>3, <3>1, <3>2
    <3>5. \A id \in DOMAIN assocs' : assocs'[id].fd = p.fd <=> id = p.assoc_id
      BY <3>1, <3>2
    <3> QED
      BY <3>3, <3>4, <3>5 DEF p
  <2>4. /\ DOMAIN queue' = PeerFds(socket') \cup {socket'.fd}
        /\ socket'.fd \notin PeerFds(socket')
        /\ \A j, k \in Occupied(socket') :
              j # k => /\ socket'.peers[j].fd # socket'.peers[k].fd
                       /\ socket'.peers[j].assoc_id # socket'.peers[k].assoc_id
    BY <1>2 DEF Fits, SlotsOwnAssociations
  <2>5. selected' \subseteq Ready'
    BY <2>1
  <2>6. \A k \in Occupied(socket)' :
            /\ \A x \in EventsOf(socket.peers[k].fd)' : x.assoc_id = socket'.peers[k].assoc_id
            /\ \A x \in EventsOf(socket.fd)' : x.assoc_id # socket'.peers[k].assoc_id
            /\ \A id \in DOMAIN assocs' :
                  assocs'[id].fd = socket'.peers[k].fd <=> id = socket'.peers[k].assoc_id
    <3> HIDE <1>0
    <3>1. socket' = socket
      OBVIOUS
    <3> QED
      BY <2>2, <3>1 DEF EventsOf
  <2> QED
    BY <2>4, <2>5, <2>6 DEF SlotsOwnAssociations
<1>7. SlotsHaveIds'
  <2>1. ASSUME NEW k \in Occupied(socket), NEW f, f = socket.peers[k].fd
        PROVE  \/ socket.peers[k].assoc_id \in DOMAIN assocs'
               \/ \E x \in EventsOf(f)' : IsEnd(x)
    <3>1. CASE socket.peers[k].assoc_id \in DOMAIN assocs \ DOMAIN assocs'
      <4>1. IsEnd(e) /\ e.assoc_id = socket.peers[k].assoc_id
        BY <3>1
      <4>2. fd = f
        BY <2>1, <4>1
      <4> QED
        BY <1>4, <4>1, <4>2
    <3>2. CASE socket.peers[k].assoc_id \notin DOMAIN assocs
      <4>1. f \in DOMAIN queue /\ \E i \in DOMAIN queue[f] : IsEnd(queue[f][i])
        BY <2>1, <3>2, FitsMeans
      <4> QED
        BY <1>4, <4>1 DEF EventsOf
    <3> QED
      BY <3>1, <3>2
  <2>2. \A k \in Occupied(socket) :
            \/ socket.peers[k].assoc_id \in DOMAIN assocs'
            \/ \E i \in DOMAIN queue'[socket.peers[k].fd] :
                  IsEnd(queue'[socket.peers[k].fd][i])
    BY <2>1 DEF EventsOf
  <2> QED
    BY <2>2 DEF Fits, SlotsHaveIds, EventsOf
<1>8. AssocsReport'
  BY <1>2 DEF Fits, AssocsReport
<1>9. UpsOnce'
  <2> SUFFICES ASSUME NEW f \in DOMAIN queue, NEW i \in DOMAIN queue'[f],
                      queue'[f][i].state = "up"
               PROVE  /\ f = socket.fd
                      /\ \A j \in DOMAIN queue'[f] :
                            UpAt(queue'[f], j, queue'[f][i].assoc_id) => j = i
    BY <1>2 DEF UpsOnce, UpAt
  <2>1. CASE f # fd
    BY <1>2, <2>1 DEF Fits, UpsOnce
  <2>2. CASE f = fd /\ i \in DOMAIN queue[fd]
    <3>1. f = socket.fd /\ \A j \in DOMAIN queue[fd] : UpAt(queue[fd], j, queue[fd][i].assoc_id) => j = i
      BY <1>3, <2>2 DEF Fits, UpsOnce
    <3>2. ~UpAt(queue'[fd], n, queue[fd][i].assoc_id)
      BY <1>3, <1>5, <2>2 DEF UpAt
    <3> QED
      BY <1>3, <2>2, <3>1, <3>2 DEF UpAt
  <2>3. CASE f = fd /\ i = n
    <3>1. f = socket.fd /\ e.assoc_id \in FreeIds
      BY <1>3, <2>3
    <3>2. \A j \in DOMAIN queue[fd] : queue[fd][j].assoc_id # e.assoc_id
      BY <1>5, <3>1
    <3> QED
      BY <1>3, <2>3, <3>1, <3>2 DEF UpAt
  <2> QED
    BY <1>3, <2>1, <2>2, <2>3
<1>10. EndedAreGone'
  <2> SUFFICES ASSUME NEW f \in DOMAIN queue, NEW x \in EventsOf(f)', IsEnd(x)
               PROVE  x.assoc_id \in AssocId \ DOMAIN assocs'
    BY <1>2 DEF EndedAreGone
  <2>1. CASE x \in EventsOf(f)
    <3>1. x.assoc_id \in AssocId \ DOMAIN assocs
      BY <2>1, FitsMeans DEF EventsOf
    <3>2. \A id \in FreeIds : x.assoc_id # id
      BY <1>5, <2>1 DEF EventsOf
    <3> QED
      BY <3>1, <3>2
  <2>2. CASE x = e
    BY <2>2
  <2> QED
    BY <1>4, <2>1, <2>2
<1>11. Announced'
  <2> SUFFICES ASSUME ~Full(socket)
               PROVE  /\ \A id \in DOMAIN assocs' : assocs'[id].fd = socket.fd =>
                             \E i \in DOMAIN queue'[socket.fd] : UpAt(queue'[socket.fd], i, id)
                      /\ \A i \in DOMAIN queue'[socket.fd] : IsEnd(queue'[socket.fd][i]) =>
                             \E j \in 1 .. i - 1 :
                                 UpAt(queue'[socket.fd], j, queue'[socket.fd][i].assoc_id)
    BY DEF Announced
  <2> DEFINE q == queue[socket.fd]
  <2>1. /\ \A id \in DOMAIN assocs : assocs[id].fd = socket.fd => \E i \in DOMAIN q : UpAt(q, i, id)
        /\ \A i \in DOMAIN q : IsEnd(q[i]) => \E j \in 1 .. i - 1 : UpAt(q, j, q[i].assoc_id)
    BY DEF Fits, Announced
  <2>2. q \in Seq(Event)
    BY FitsMeans
  <2>3. \A i \in DOMAIN q : \A j \in 1 .. i - 1 : j \in DOMAIN q
    BY <2>2
  <2>4. \A i \in DOMAIN q : i \in DOMAIN queue'[socket.fd] /\ queue'[socket.fd][i] = q[i]
    BY <1>2, <1>3, FitsMeans
  <2> HIDE DEF q
  <2>5. ASSUME NEW id \in DOMAIN assocs', assocs'[id].fd = socket.fd
        PROVE  \E i \in DOMAIN queue'[socket.fd] : UpAt(queue'[socket.fd], i, id)
    <3>1. CASE id \in DOMAIN assocs
      <4>1. assocs[id].fd = socket.fd
        BY <2>5, <3>1
      <4>2. PICK i \in DOMAIN q : UpAt(q, i, id)
        BY <2>1, <3>1, <4>1
      <4> HIDE <1>0
      <4> QED
        BY <2>4, <4>2 DEF UpAt
    <3>2. CASE id \notin DOMAIN assocs
      BY <1>3, <3>2 DEF UpAt
    <3> QED
      BY <3>1, <3>2
  <2>6. ASSUME NEW i \in DOMAIN queue'[socket.fd], IsEnd(queue'[socket.fd][i])
        PROVE  \E j \in 1 .. i - 1 :
                   UpAt(queue'[socket.fd], j, queue'[socket.fd][i].assoc_id)
    <3>1. CASE i \in DOMAIN q
      <4>1. PICK j \in 1 .. i - 1 : UpAt(q, j, q[i].assoc_id)
        BY <2>1, <2>4, <2>6, <3>1
      <4> QED
        BY <2>3, <2>4, <3>1, <4>1 DEF UpAt
    <3>2. CASE i \notin DOMAIN q
      <4>1. fd = socket.fd /\ i = n /\ queue'[socket.fd][i] = e
        BY <1>2, <1>3, <3>2, FitsMeans DEF q
      <4>2. e.assoc_id \in DOMAIN assocs /\ assocs[e.assoc_id].fd = socket.fd
        BY <2>6, <4>1
      <4>3. PICK j \in DOMAIN q : UpAt(q, j, e.assoc_id)
        BY <2>1, <4>2
      <4>4. j \in 1 .. n - 1
        BY <1>3, <2>2, <4>1, <4>3 DEF q
      <4> QED
        BY <2>4, <4>1, <4>3, <4>4 DEF UpAt
    <3> QED
      BY <3>1, <3>2
  <2> QED
    BY <2>5, <2>6
<1> QED
  BY <1>6, <1>7, <1>8, <1>9, <1>10, <1>11 DEF Fits

\* The positions of the tail of a queue.
LEMMA TailOf ==
    ASSUME NEW q \in Seq(Event), q # <<>>
    PROVE  /\ Tail(q) \in Seq(Event)
           /\ \A i \in DOMAIN Tail(q) : i \in Nat \ {0} /\ i + 1 \in DOMAIN q /\ Tail(q)[i] = q[i + 1]
           /\ \A i \in DOMAIN q : i \in Nat \ {0} /\ (i # 1 => i - 1 \in DOMAIN Tail(q))
           /\ 1 \in DOMAIN q /\ Head(q) = q[1]
OBVIOUS

\* The first event of fd is read and tells nothing about a slot.
LEMMA Read ==
    ASSUME Running, TypeOK, Fits, UNCHANGED <<process, assocs>>, SameSlots(socket, socket'),
           NEW fd \in selected, selected' = selected \ {fd}, queue' = Rest(fd, NULL),
           ~IsEnd(Head(queue[fd])), Head(queue[fd]).state = "up" => Full(socket)
    PROVE  Fits'
<1> DEFINE h == Head(queue[fd])
<1>1. /\ queue[fd] \in Seq(Event) /\ queue[fd] # <<>> /\ fd \in DOMAIN queue
      /\ NULL \notin DOMAIN queue
  BY FitsMeans
<1>2. /\ DOMAIN queue' = DOMAIN queue
      /\ \A f \in DOMAIN queue \ {fd} : queue'[f] = queue[f]
      /\ queue'[fd] = Tail(queue[fd])
  BY <1>1 DEF Rest
<1>3. /\ \A i \in DOMAIN queue'[fd] :
            i \in Nat \ {0} /\ i + 1 \in DOMAIN queue[fd] /\ queue'[fd][i] = queue[fd][i + 1]
      /\ \A i \in DOMAIN queue[fd] :
            i \in Nat \ {0} /\ (i # 1 => i - 1 \in DOMAIN queue'[fd])
      /\ queue[fd][1] = h
  BY <1>1, <1>2, TailOf
<1>4. /\ socket'.fd = socket.fd /\ socket'.peers = socket.peers
      /\ Occupied(socket') = Occupied(socket) /\ PeerFds(socket') = PeerFds(socket)
      /\ Full(socket') = Full(socket)
  BY Slots DEF SameSlots
<1> HIDE DEF h
<1>5. SlotsOwnAssociations'
  <2>1. selected' \subseteq Ready'
    BY <1>2, FitsMeans DEF Ready
  <2>2. ASSUME NEW k \in Occupied(socket)
        PROVE  LET p == socket.peers[k]
                   told == queue'[p.fd]
                   q == queue'[socket.fd]
               IN  /\ \A i \in DOMAIN told : told[i].assoc_id = p.assoc_id
                   /\ \A i \in DOMAIN q : q[i].assoc_id # p.assoc_id
                   /\ \A id \in DOMAIN assocs' : assocs'[id].fd = p.fd <=> id = p.assoc_id
    <3> DEFINE p == socket.peers[k]
    <3>1. /\ p.fd \in DOMAIN queue /\ socket.fd \in DOMAIN queue
          /\ \A i \in DOMAIN queue[p.fd] : queue[p.fd][i].assoc_id = p.assoc_id
          /\ \A i \in DOMAIN queue[socket.fd] : queue[socket.fd][i].assoc_id # p.assoc_id
          /\ \A id \in DOMAIN assocs : assocs[id].fd = p.fd <=> id = p.assoc_id
      BY FitsMeans
    <3>2. ASSUME NEW f \in DOMAIN queue, NEW i \in DOMAIN queue'[f]
          PROVE  \E j \in DOMAIN queue[f] : queue'[f][i] = queue[f][j]
      BY <1>2, <1>3
    <3>3. \A i \in DOMAIN queue'[p.fd] : queue'[p.fd][i].assoc_id = p.assoc_id
      BY <3>1, <3>2
    <3>4. \A i \in DOMAIN queue'[socket.fd] : queue'[socket.fd][i].assoc_id # p.assoc_id
      BY <3>1, <3>2
    <3> QED
      BY <3>1, <3>3, <3>4
  <2>3. /\ DOMAIN queue' = PeerFds(socket') \cup {socket'.fd}
        /\ socket'.fd \notin PeerFds(socket')
        /\ \A j, k \in Occupied(socket') :
              j # k => /\ socket'.peers[j].fd # socket'.peers[k].fd
                       /\ socket'.peers[j].assoc_id # socket'.peers[k].assoc_id
    BY <1>2, <1>4 DEF Fits, SlotsOwnAssociations
  <2>4. \A k \in Occupied(socket)' :
            /\ \A x \in EventsOf(socket.peers[k].fd)' : x.assoc_id = socket'.peers[k].assoc_id
            /\ \A x \in EventsOf(socket.fd)' : x.assoc_id # socket'.peers[k].assoc_id
            /\ \A id \in DOMAIN assocs' :
                  assocs'[id].fd = socket'.peers[k].fd <=> id = socket'.peers[k].assoc_id
    BY <1>4, <2>2 DEF EventsOf
  <2> QED
    BY <2>1, <2>3, <2>4 DEF SlotsOwnAssociations
<1>6. SlotsHaveIds'
  <2>1. ASSUME NEW k \in Occupied(socket)
        PROVE  \/ socket.peers[k].assoc_id \in DOMAIN assocs
               \/ \E i \in DOMAIN queue'[socket.peers[k].fd] :
                     IsEnd(queue'[socket.peers[k].fd][i])
    <3> DEFINE f == socket.peers[k].fd
    <3>1. CASE socket.peers[k].assoc_id \notin DOMAIN assocs
      <4>1. f \in DOMAIN queue
        BY FitsMeans
      <4>2. PICK i \in DOMAIN queue[f] : IsEnd(queue[f][i])
        BY <3>1, FitsMeans
      <4> HIDE DEF f
      <4>3. CASE f # fd
        BY <1>2, <4>1, <4>2, <4>3 DEF f
      <4>4. CASE f = fd
        <5>1. i # 1 /\ i \in Nat
          BY <1>3, <4>2, <4>4 DEF h
        <5>2. i - 1 \in DOMAIN queue'[fd] /\ queue'[fd][i - 1] = queue[fd][i]
          BY <1>3, <4>4, <5>1
        <5> QED
          BY <4>2, <4>4, <5>2 DEF f
      <4> QED
        BY <4>3, <4>4
    <3> QED
      BY <3>1
  <2> QED
    BY <1>4, <2>1 DEF Fits, SlotsHaveIds, EventsOf
<1>7. AssocsReport'
  BY <1>2 DEF Fits, AssocsReport
<1>8. UpsOnce'
  <2> SUFFICES ASSUME NEW f \in DOMAIN queue, NEW i \in DOMAIN queue'[f],
                      queue'[f][i].state = "up"
               PROVE  /\ f = socket'.fd
                      /\ \A j \in DOMAIN queue'[f] :
                            UpAt(queue'[f], j, queue'[f][i].assoc_id) => j = i
    BY <1>2 DEF UpsOnce, UpAt
  <2>1. CASE f # fd
    BY <1>2, <1>4, <2>1 DEF Fits, UpsOnce
  <2>2. CASE f = fd
    <3>1. /\ i + 1 \in DOMAIN queue[fd] /\ queue'[fd][i] = queue[fd][i + 1] /\ i \in Nat
      BY <1>3, <2>2
    <3>2. /\ fd = socket.fd
          /\ \A j \in DOMAIN queue[fd] :
                UpAt(queue[fd], j, queue[fd][i + 1].assoc_id) => j = i + 1
      BY <1>1, <2>2, <3>1 DEF Fits, UpsOnce
    <3>3. ASSUME NEW j \in DOMAIN queue'[fd], UpAt(queue'[fd], j, queue'[fd][i].assoc_id)
          PROVE  j = i
      <4>1. j + 1 \in DOMAIN queue[fd] /\ queue'[fd][j] = queue[fd][j + 1] /\ j \in Nat
        BY <1>3
      <4>2. j + 1 = i + 1
        BY <3>1, <3>2, <3>3, <4>1 DEF UpAt
      <4> QED
        BY <3>1, <4>1, <4>2
    <3> QED
      BY <1>4, <2>2, <3>2, <3>3
  <2> QED
    BY <2>1, <2>2
<1>9. EndedAreGone'
  <2> SUFFICES ASSUME NEW f \in DOMAIN queue, NEW i \in DOMAIN queue'[f], IsEnd(queue'[f][i])
               PROVE  queue'[f][i].assoc_id \in AssocId \ DOMAIN assocs
    BY <1>2 DEF EndedAreGone, EventsOf
  <2>1. \A g \in DOMAIN queue : \A j \in DOMAIN queue[g] :
            IsEnd(queue[g][j]) => queue[g][j].assoc_id \in AssocId \ DOMAIN assocs
    BY FitsMeans
  <2>2. PICK j \in DOMAIN queue[f] : queue'[f][i] = queue[f][j]
    <3>1. CASE f = fd
      BY <1>3, <3>1
    <3>2. CASE f # fd
      BY <1>2, <3>2
    <3> QED
      BY <3>1, <3>2
  <2> QED
    BY <2>1, <2>2
<1>10. Announced'
  <2> DEFINE q == queue[socket.fd]
             r == queue'[socket.fd]
  <2> SUFFICES ASSUME ~Full(socket)
               PROVE  /\ \A id \in DOMAIN assocs : assocs[id].fd = socket.fd =>
                             \E i \in DOMAIN r : UpAt(r, i, id)
                      /\ \A i \in DOMAIN r : IsEnd(r[i]) =>
                             \E j \in 1 .. i - 1 : UpAt(r, j, r[i].assoc_id)
    BY <1>4 DEF Announced
  <2>1. /\ \A id \in DOMAIN assocs : assocs[id].fd = socket.fd => \E i \in DOMAIN q : UpAt(q, i, id)
        /\ \A i \in DOMAIN q : IsEnd(q[i]) => \E j \in 1 .. i - 1 : UpAt(q, j, q[i].assoc_id)
    BY DEF Fits, Announced
  <2>2. CASE fd # socket.fd
    <3>1. r = q
      BY <1>2, <2>2, FitsMeans
    <3> QED
      BY <2>1, <3>1
  <2>3. CASE fd = socket.fd
    <3>1. /\ \A i \in DOMAIN r : i \in Nat \ {0} /\ i + 1 \in DOMAIN q /\ r[i] = q[i + 1]
          /\ \A i \in DOMAIN q : i \in Nat \ {0} /\ (i # 1 => i - 1 \in DOMAIN r)
          /\ q[1].state # "up"
      BY <1>3, <2>3 DEF h
    <3> HIDE DEF q, r
    <3>2. ASSUME NEW i \in DOMAIN q, q[i].state = "up"
          PROVE  i - 1 \in DOMAIN r /\ r[i - 1] = q[i] /\ i > 1 /\ i \in Nat
      <4>1. i # 1 /\ i - 1 \in DOMAIN r /\ i \in Nat \ {0}
        BY <3>1, <3>2
      <4>2. r[i - 1] = q[i]
        BY <3>1, <4>1
      <4> QED
        BY <4>1, <4>2
    <3>3. ASSUME NEW id \in DOMAIN assocs, assocs[id].fd = socket.fd
          PROVE  \E i \in DOMAIN r : UpAt(r, i, id)
      <4>1. PICK i \in DOMAIN q : UpAt(q, i, id)
        BY <2>1, <3>3
      <4> QED
        BY <3>2, <4>1 DEF UpAt
    <3>4. ASSUME NEW i \in DOMAIN r, IsEnd(r[i])
          PROVE  \E j \in 1 .. i - 1 : UpAt(r, j, r[i].assoc_id)
      <4>1. i + 1 \in DOMAIN q /\ r[i] = q[i + 1] /\ i \in Nat
        BY <3>1
      <4>2. PICK j \in 1 .. (i + 1) - 1 : UpAt(q, j, q[i + 1].assoc_id)
        BY <2>1, <3>4, <4>1
      <4>3. j \in DOMAIN q
        <5>1. q \in Seq(Event)
          BY FitsMeans DEF q
        <5> QED
          BY <4>1, <5>1
      <4>4. j - 1 \in 1 .. i - 1 /\ r[j - 1] = q[j]
        BY <3>2, <4>1, <4>2, <4>3 DEF UpAt
      <4> QED
        BY <4>1, <4>2, <4>4 DEF UpAt
    <3> QED
      BY <3>3, <3>4 DEF r
  <2> QED
    BY <2>2, <2>3
<1> QED
  BY <1>5, <1>6, <1>7, <1>8, <1>9, <1>10 DEF Fits

\* The slot p, of a socket that listens on fd, and the association of its id belong
\* together.
Owned(p, fd, told, asc) ==
    /\ \A i \in DOMAIN told[p.fd] : told[p.fd][i].assoc_id = p.assoc_id
    /\ \A i \in DOMAIN told[fd] : told[fd][i].assoc_id # p.assoc_id
    /\ \A id \in DOMAIN asc : asc[id].fd = p.fd <=> id = p.assoc_id

\* SlotsOwnAssociations after a step, slot by slot.
LEMMA OwnedSlots ==
    ASSUME selected' \subseteq Ready',
           DOMAIN queue' = PeerFds(socket') \cup {socket'.fd},
           socket'.fd \notin PeerFds(socket'),
           \A i, j \in Occupied(socket') :
               i # j => /\ socket'.peers[i].fd # socket'.peers[j].fd
                        /\ socket'.peers[i].assoc_id # socket'.peers[j].assoc_id,
           \A j \in Occupied(socket') :
               Owned(socket'.peers[j], socket'.fd, queue', assocs')
    PROVE  SlotsOwnAssociations'
<1>1. ASSUME NEW j \in Occupied(socket)'
      PROVE  /\ \A x \in EventsOf(socket.peers[j].fd)' :
                   x.assoc_id = socket'.peers[j].assoc_id
             /\ \A x \in EventsOf(socket.fd)' : x.assoc_id # socket'.peers[j].assoc_id
             /\ \A i \in DOMAIN assocs' :
                   assocs'[i].fd = socket'.peers[j].fd <=> i = socket'.peers[j].assoc_id
  <2>1. Owned(socket'.peers[j], socket'.fd, queue', assocs')
    OBVIOUS
  <2> QED
    BY <2>1 DEF Owned, EventsOf
<1> QED
  BY <1>1 DEF SlotsOwnAssociations

\* The slot of an association that has ended is closed.
LEMMA Removed ==
    ASSUME Running, TypeOK, Fits, UNCHANGED <<process, assocs>>,
           NEW k \in Occupied(socket), NEW fd, fd = socket.peers[k].fd,
           socket.peers[k].assoc_id \notin DOMAIN assocs,
           SameSlots(removePeer(socket, k), socket'),
           selected' = selected \ {fd}, queue' = Rest(fd, fd)
    PROVE  Fits'
<1> DEFINE t == removePeer(socket, k)
<1>1. socket \in Socket
  BY DEF TypeOK
<1>2. /\ t.fd = socket.fd
      /\ DOMAIN t.peers = DOMAIN socket.peers
      /\ t.peers[k].fd = Closed /\ t.peers[k].assoc_id = Closed
      /\ \A j \in DOMAIN socket.peers \ {k} : t.peers[j] = socket.peers[j]
      /\ Occupied(t) = Occupied(socket) \ {k}
      /\ PeerFds(t) = PeerFds(socket) \ {fd}
      /\ Full(t) = Full(socket)
  <2>1. \A j \in Occupied(socket) : j # k => socket.peers[j].fd # socket.peers[k].fd
    BY FitsMeans
  <2> QED
    BY <1>1, <2>1, ClosedSlot
<1> HIDE DEF t
<1>3. SameSlots(t, socket')
  BY DEF t
<1>4. /\ socket'.fd = socket.fd
      /\ DOMAIN socket'.peers = DOMAIN socket.peers
      /\ socket'.peers[k].fd = Closed /\ socket'.peers[k].assoc_id = Closed
      /\ \A j \in DOMAIN socket.peers \ {k} : socket'.peers[j] = socket.peers[j]
      /\ Occupied(socket') = Occupied(socket) \ {k}
      /\ PeerFds(socket') = PeerFds(socket) \ {fd}
      /\ Full(socket') = Full(socket)
  BY <1>2, <1>3, Slots DEF SameSlots
<1>5. fd # socket.fd /\ fd \in DOMAIN queue /\ socket.fd \in DOMAIN queue
  BY FitsMeans
<1>6. /\ DOMAIN queue' = DOMAIN queue \ {fd}
      /\ \A f \in DOMAIN queue \ {fd} : queue'[f] = queue[f]
  BY DEF Rest
<1>7. /\ \A j \in Occupied(socket) \ {k} :
            /\ j \in DOMAIN socket.peers
            /\ socket'.peers[j] = socket.peers[j] /\ socket.peers[j].fd # fd
            /\ queue'[socket.peers[j].fd] = queue[socket.peers[j].fd]
      /\ queue'[socket.fd] = queue[socket.fd]
  <2>1. ASSUME NEW j \in Occupied(socket) \ {k}
        PROVE  /\ socket.peers[j].fd \in DOMAIN queue /\ socket.peers[j].fd # fd
               /\ j \in DOMAIN socket.peers
    BY FitsMeans DEF Occupied
  <2> QED
    BY <1>4, <1>5, <1>6, <2>1
<1>8. SlotsOwnAssociations'
  <2>1. selected' \subseteq Ready'
    <3>1. ASSUME NEW f \in selected'
          PROVE  f \in DOMAIN queue' /\ queue'[f] # <<>>
      <4>1. f # fd /\ f \in DOMAIN queue /\ queue[f] # <<>>
        BY FitsMeans
      <4> QED
        BY <1>6, <4>1
    <3> QED
      BY <3>1 DEF Ready
  <2>2. /\ DOMAIN queue' = PeerFds(socket') \cup {socket'.fd}
        /\ socket'.fd \notin PeerFds(socket')
    BY <1>4, <1>5, <1>6 DEF Fits, SlotsOwnAssociations
  <2>3. ASSUME NEW i \in Occupied(socket'), NEW j \in Occupied(socket'), i # j
        PROVE  /\ socket'.peers[i].fd # socket'.peers[j].fd
               /\ socket'.peers[i].assoc_id # socket'.peers[j].assoc_id
    <3>1. /\ i \in Occupied(socket) /\ socket'.peers[i] = socket.peers[i]
          /\ j \in Occupied(socket) /\ socket'.peers[j] = socket.peers[j]
      BY <1>4, <1>7
    <3> QED
      BY <2>3, <3>1, FitsMeans
  <2>4. ASSUME NEW j \in Occupied(socket')
        PROVE  Owned(socket'.peers[j], socket'.fd, queue', assocs')
    <3>1. /\ j \in Occupied(socket) /\ socket'.peers[j] = socket.peers[j]
          /\ queue'[socket.peers[j].fd] = queue[socket.peers[j].fd]
          /\ queue'[socket.fd] = queue[socket.fd] /\ socket'.fd = socket.fd
      BY <1>4, <1>7
    <3>2. Owned(socket.peers[j], socket.fd, queue, assocs)
      BY <3>1, FitsMeans DEF Owned
    <3>3. Owned(socket.peers[j], socket.fd, queue', assocs)
      BY <3>1, <3>2 DEF Owned
    <3> QED
      BY <3>1, <3>3
  <2> QED
    BY <2>1, <2>2, <2>3, <2>4, OwnedSlots
<1>9. SlotsHaveIds'
  <2>1. \A j \in DOMAIN socket'.peers :
            socket'.peers[j].fd = Closed <=> socket'.peers[j].assoc_id = Closed
    BY <1>4 DEF Fits, SlotsHaveIds
  <2>2. ASSUME NEW j \in Occupied(socket')
        PROVE  \/ socket'.peers[j].assoc_id \in DOMAIN assocs'
               \/ \E i \in DOMAIN queue'[socket'.peers[j].fd] :
                     IsEnd(queue'[socket'.peers[j].fd][i])
    <3>1. /\ j \in Occupied(socket) /\ socket'.peers[j] = socket.peers[j]
          /\ queue'[socket.peers[j].fd] = queue[socket.peers[j].fd]
      BY <1>4, <1>7
    <3>2. \/ socket.peers[j].assoc_id \in DOMAIN assocs
          \/ \E i \in DOMAIN queue[socket.peers[j].fd] : IsEnd(queue[socket.peers[j].fd][i])
      BY <3>1, FitsMeans
    <3> QED
      BY <3>1, <3>2
  <2> QED
    BY <2>1, <2>2 DEF SlotsHaveIds, EventsOf
<1>10. AssocsReport'
  <2>1. ASSUME NEW id \in DOMAIN assocs'
        PROVE  assocs'[id].fd \in DOMAIN queue'
    <3>1. id \in DOMAIN assocs /\ assocs'[id] = assocs[id]
      OBVIOUS
    <3>2. assocs[id].fd # fd
      BY <3>1, FitsMeans
    <3>3. assocs[id].fd \in DOMAIN queue
      BY <3>1 DEF Fits, AssocsReport
    <3> QED
      BY <1>6, <3>1, <3>2, <3>3
  <2> QED
    BY <2>1 DEF AssocsReport
<1>11. UpsOnce'
  <2>1. ASSUME NEW f \in DOMAIN queue', NEW i \in DOMAIN queue'[f],
               queue'[f][i].state = "up"
        PROVE  /\ f = socket'.fd
               /\ \A j \in DOMAIN queue'[f] : UpAt(queue'[f], j, queue'[f][i].assoc_id) => j = i
    <3>1. f \in DOMAIN queue /\ queue'[f] = queue[f] /\ socket'.fd = socket.fd
      BY <1>4, <1>6
    <3>2. UpsOnce
      BY DEF Fits
    <3> QED
      BY <2>1, <3>1, <3>2 DEF UpsOnce
  <2> QED
    BY <2>1 DEF UpsOnce, UpAt
<1>12. EndedAreGone'
  <2>1. ASSUME NEW f \in DOMAIN queue', NEW i \in DOMAIN queue'[f], IsEnd(queue'[f][i])
        PROVE  queue'[f][i].assoc_id \in AssocId \ DOMAIN assocs'
    <3>1. f \in DOMAIN queue /\ queue'[f] = queue[f] /\ assocs' = assocs
      BY <1>6
    <3> QED
      BY <2>1, <3>1, FitsMeans
  <2> QED
    BY <2>1 DEF EndedAreGone, EventsOf
<1>13. Announced'
  <2>1. /\ queue'[socket'.fd] = queue[socket.fd] /\ socket'.fd = socket.fd
        /\ Full(socket') = Full(socket) /\ assocs' = assocs
    BY <1>4, <1>7
  <2>2. Announced
    BY DEF Fits
  <2> QED
    BY <2>1, <2>2 DEF Announced, UpAt
<1> QED
  BY <1>8, <1>9, <1>10, <1>11, <1>12, <1>13 DEF Fits

\* The events in sub are those of q that are not about id, in their order: pos is where
\* they were.
Kept(sub, q, id) ==
    /\ sub \in Seq(Event)
    /\ \E pos \in [DOMAIN sub -> DOMAIN q] :
          /\ \A k \in DOMAIN sub : sub[k] = q[pos[k]] /\ q[pos[k]].assoc_id # id
          /\ \A i \in DOMAIN q : q[i].assoc_id # id => \E k \in DOMAIN sub : pos[k] = i
          /\ \A k, l \in DOMAIN sub : pos[k] < pos[l] => k < l
          /\ \A k, l \in DOMAIN sub : pos[k] = pos[l] => k = l

\* The events in sub are about id, and each is one of q, but not the first.
Later(sub, q, id) ==
    /\ sub \in Seq(Event)
    /\ \A k \in DOMAIN sub :
          sub[k].assoc_id = id /\ \E i \in DOMAIN q : i # 1 /\ sub[k] = q[i]

\* What is left of q once its first event, about id, and all others about id are gone.
LEMMA PickOthers ==
    ASSUME NEW q \in Seq(Event), q # <<>>, NEW id, q[1].assoc_id = id,
           NEW sub, Picks(sub, Tail(q), (AssocId \cup {NULL}) \ {id})
    PROVE  Kept(sub, q, id)
<1> DEFINE others == (AssocId \cup {NULL}) \ {id}
<1>1. /\ \A i \in DOMAIN Tail(q) : i \in Nat \ {0} /\ i + 1 \in DOMAIN q /\ Tail(q)[i] = q[i + 1]
      /\ \A i \in DOMAIN q : i \in Nat \ {0} /\ (i # 1 => i - 1 \in DOMAIN Tail(q))
  BY TailOf
<1>2. PICK to \in [DOMAIN sub -> DOMAIN Tail(q)] :
          /\ \A k \in DOMAIN sub : sub[k] = Tail(q)[to[k]] /\ sub[k].assoc_id \in others
          /\ \A i \in DOMAIN Tail(q) :
                Tail(q)[i].assoc_id \in others => \E k \in DOMAIN sub : to[k] = i
          /\ \A k, l \in DOMAIN sub : to[k] < to[l] => k < l
          /\ \A k, l \in DOMAIN sub : to[k] = to[l] => k = l
  BY DEF Picks
<1> DEFINE pos == [k \in DOMAIN sub |-> to[k] + 1]
<1>3. \A k \in DOMAIN sub : /\ to[k] \in Nat /\ pos[k] = to[k] + 1 /\ pos[k] \in DOMAIN q
                            /\ sub[k] = q[pos[k]] /\ q[pos[k]].assoc_id # id
  BY <1>1, <1>2 DEF others
<1>4. pos \in [DOMAIN sub -> DOMAIN q]
  BY <1>3
<1> HIDE DEF pos
<1>5. ASSUME NEW i \in DOMAIN q, q[i].assoc_id # id
      PROVE  \E k \in DOMAIN sub : pos[k] = i
  <2>1. i # 1 /\ i - 1 \in DOMAIN Tail(q) /\ i \in Nat
    BY <1>1, <1>5
  <2>2. Tail(q)[i - 1] = q[i] /\ q[i] \in Event
    BY <1>1, <2>1
  <2>3. q[i].assoc_id \in others
    BY <1>5, <2>2 DEF Event, others
  <2>4. PICK k \in DOMAIN sub : to[k] = i - 1
    BY <1>2, <2>1, <2>2, <2>3
  <2> QED
    BY <1>3, <2>1, <2>4
<1>6. \A k, l \in DOMAIN sub : /\ pos[k] < pos[l] => k < l
                               /\ pos[k] = pos[l] => k = l
  BY <1>2, <1>3
<1>7. sub \in Seq(Event)
  BY DEF Picks
<1>8. \E at \in [DOMAIN sub -> DOMAIN q] :
          /\ \A k \in DOMAIN sub : sub[k] = q[at[k]] /\ q[at[k]].assoc_id # id
          /\ \A i \in DOMAIN q : q[i].assoc_id # id => \E k \in DOMAIN sub : at[k] = i
          /\ \A k, l \in DOMAIN sub : at[k] < at[l] => k < l
          /\ \A k, l \in DOMAIN sub : at[k] = at[l] => k = l
  <2> WITNESS pos \in [DOMAIN sub -> DOMAIN q]
  <2> QED
    BY <1>3, <1>5, <1>6
<1> QED
  BY <1>7, <1>8 DEF Kept

\* ... and what moves to the new descriptor.
LEMMA PickOwn ==
    ASSUME NEW q \in Seq(Event), q # <<>>, NEW id, NEW sub, Picks(sub, Tail(q), {id})
    PROVE  Later(sub, q, id)
<1>1. sub \in Seq(Event)
  BY DEF Picks
<1>2. ASSUME NEW k \in DOMAIN sub
      PROVE  sub[k].assoc_id \in {id} /\ \E j \in DOMAIN Tail(q) : sub[k] = Tail(q)[j]
  BY DEF Picks
<1>3. ASSUME NEW k \in DOMAIN sub
      PROVE  \E i \in DOMAIN q : i # 1 /\ sub[k] = q[i]
  <2>1. PICK j \in DOMAIN Tail(q) : sub[k] = Tail(q)[j]
    BY <1>2
  <2>2. j + 1 \in DOMAIN q /\ j + 1 # 1 /\ sub[k] = q[j + 1]
    BY <2>1, TailOf
  <2> QED
    BY <2>2
<1> QED
  BY <1>1, <1>2, <1>3 DEF Later

\* An association that is up gets its slot and its descriptor, and what is queued for it
\* moves there.
LEMMA PeeledOff ==
    ASSUME Running, TypeOK, Fits, UNCHANGED process, ~Full(socket),
           NEW fd \in selected, NEW id \in DOMAIN assocs, NEW new \in FD \ DOMAIN queue,
           Head(queue[fd]).state = "up", Head(queue[fd]).assoc_id = id,
           socket' = peelOff(socket, new, id), queue' = Moved(fd, new, id),
           assocs' = [assocs EXCEPT ![id].fd = new], selected' = selected \ {fd}
    PROVE  Fits' /\ queue' \in [DOMAIN queue' -> Seq(Event)]
<1> DEFINE n == Len(socket.peers) + 1
           q == queue[fd]
           others == (AssocId \cup {NULL}) \ {id}
<1>1. /\ q \in Seq(Event) /\ q # <<>> /\ fd \in DOMAIN queue /\ new \notin DOMAIN queue
      /\ new \in FD /\ new # socket.fd
  BY FitsMeans
<1>2. /\ Tail(q) \in Seq(Event)
      /\ \A i \in DOMAIN Tail(q) : i \in Nat \ {0} /\ i + 1 \in DOMAIN q /\ Tail(q)[i] = q[i + 1]
      /\ \A i \in DOMAIN q : i \in Nat \ {0} /\ (i # 1 => i - 1 \in DOMAIN Tail(q))
      /\ 1 \in DOMAIN q /\ q[1].state = "up" /\ q[1].assoc_id = id
  BY <1>1, TailOf
<1>3. /\ fd = socket.fd
      /\ \A j \in DOMAIN q : UpAt(q, j, id) => j = 1
  BY <1>1, <1>2 DEF Fits, UpsOnce
<1>4. id \in AssocId /\ socket \in Socket /\ assocs \in [DOMAIN assocs -> Assoc]
  BY DEF TypeOK
<1>5. /\ socket' \in Socket /\ socket'.fd = socket.fd
      /\ DOMAIN socket'.peers = DOMAIN socket.peers \cup {n} /\ n \notin DOMAIN socket.peers
      /\ socket'.peers[n].fd = new /\ socket'.peers[n].assoc_id = id
      /\ \A k \in DOMAIN socket.peers : socket'.peers[k] = socket.peers[k]
      /\ Occupied(socket') = Occupied(socket) \cup {n}
      /\ PeerFds(socket') = PeerFds(socket) \cup {new}
  BY <1>1, <1>4, NewSlot
<1>6. /\ DOMAIN queue' = DOMAIN queue \cup {new}
      /\ queue'[new] = About(Tail(q), {id})
      /\ queue'[fd] = About(Tail(q), others)
      /\ \A f \in DOMAIN queue \ {fd} : queue'[f] = queue[f]
  BY <1>1 DEF Moved
<1>7. /\ DOMAIN assocs' = DOMAIN assocs /\ assocs'[id].fd = new
      /\ \A i \in DOMAIN assocs \ {id} : assocs'[i] = assocs[i]
  BY <1>4 DEF Assoc
<1> HIDE DEF n, q, others
\* What is left for the other associations is in the order it was in.
<1>8. Kept(queue'[fd], q, id)
  <2>1. Picks(queue'[fd], Tail(q), others)
    BY <1>2, <1>6, AboutPicks
  <2>2. q \in Seq(Event) /\ q # <<>> /\ q[1].assoc_id = id
    BY <1>1, <1>2 DEF q
  <2> QED
    BY <2>1, <2>2, PickOthers DEF others
<1>9. /\ queue'[new] \in Seq(Event)
      /\ \A k \in DOMAIN queue'[new] :
            /\ queue'[new][k].assoc_id = id /\ queue'[new][k].state # "up"
            /\ \E i \in DOMAIN q : queue'[new][k] = q[i]
  <2>1. Picks(queue'[new], Tail(q), {id})
    BY <1>2, <1>6, AboutPicks
  <2>2. q \in Seq(Event) /\ q # <<>>
    BY <1>1 DEF q
  <2>3. Later(queue'[new], q, id)
    BY <2>1, <2>2, PickOwn
  <2>4. \A i \in DOMAIN q : i # 1 => ~(q[i].state = "up" /\ q[i].assoc_id = id)
    BY <1>3 DEF UpAt
  <2>5. \A k \in DOMAIN queue'[new] : queue'[new][k].state # "up"
    BY <2>3, <2>4 DEF Later
  <2> QED
    BY <2>3, <2>5 DEF Later
<1>10. \A f \in DOMAIN queue : f # new
  BY <1>1
<1>11. queue' \in [DOMAIN queue' -> Seq(Event)]
  <2>1. ASSUME NEW f \in DOMAIN queue' PROVE queue'[f] \in Seq(Event)
    <3>1. CASE f = new
      BY <1>9, <3>1
    <3>2. CASE f = fd
      BY <1>8, <3>2 DEF Kept
    <3>3. CASE f # new /\ f # fd
      BY <1>6, <3>3, FitsMeans
    <3> QED
      BY <3>1, <3>2, <3>3
  <2>2. queue' = [f \in DOMAIN queue' |-> queue'[f]]
    BY <1>6 DEF Moved
  <2> QED
    BY <2>1, <2>2
\* No slot had the id, and the slots before keep what they had.
<1>12. \A k \in Occupied(socket) :
          /\ k # n /\ k \in DOMAIN socket.peers
          /\ socket'.peers[k] = socket.peers[k]
          /\ socket.peers[k].fd # new /\ socket.peers[k].assoc_id # id
          /\ queue'[socket.peers[k].fd] = queue[socket.peers[k].fd]
  <2>1. ASSUME NEW k \in Occupied(socket)
        PROVE  /\ socket.peers[k].fd \in DOMAIN queue /\ socket.peers[k].fd # fd
               /\ socket.peers[k].assoc_id # id /\ k \in DOMAIN socket.peers
    <3>1. q[1].assoc_id # socket.peers[k].assoc_id
      BY <1>2, <1>3, FitsMeans DEF q
    <3> QED
      BY <1>2, <1>3, <3>1, FitsMeans DEF Occupied
  <2> QED
    BY <1>5, <1>6, <1>10, <2>1
<1>13. SlotsOwnAssociations'
  <2>1. selected' \subseteq Ready'
    BY <1>6, FitsMeans DEF Ready
  <2>2. /\ DOMAIN queue' = PeerFds(socket') \cup {socket'.fd}
        /\ socket'.fd \notin PeerFds(socket')
    BY <1>1, <1>5, <1>6 DEF Fits, SlotsOwnAssociations
  <2>3. \A i, j \in Occupied(socket') :
            i # j => /\ socket'.peers[i].fd # socket'.peers[j].fd
                     /\ socket'.peers[i].assoc_id # socket'.peers[j].assoc_id
    BY <1>5, <1>12, FitsMeans
  <2>4. ASSUME NEW j \in Occupied(socket)
        PROVE  Owned(socket.peers[j], socket.fd, queue', assocs')
    <3>1. /\ \A i \in DOMAIN queue[socket.peers[j].fd] :
                queue[socket.peers[j].fd][i].assoc_id = socket.peers[j].assoc_id
          /\ \A i \in DOMAIN q : q[i].assoc_id # socket.peers[j].assoc_id
          /\ \A i \in DOMAIN assocs :
                assocs[i].fd = socket.peers[j].fd <=> i = socket.peers[j].assoc_id
      BY <1>3, FitsMeans DEF q
    <3>2. \A i \in DOMAIN queue'[fd] : \E l \in DOMAIN q : queue'[fd][i] = q[l]
      BY <1>8 DEF Kept
    <3> QED
      BY <1>3, <1>7, <1>12, <3>1, <3>2 DEF Owned
  <2>5. /\ \A i \in DOMAIN queue'[new] : queue'[new][i].assoc_id = id
        /\ \A i \in DOMAIN queue'[socket.fd] : queue'[socket.fd][i].assoc_id # id
        /\ \A i \in DOMAIN assocs' : assocs'[i].fd = new <=> i = id
    <3>1. \A i \in DOMAIN queue'[fd] : queue'[fd][i].assoc_id # id
      BY <1>8 DEF Kept
    <3>2. \A i \in DOMAIN assocs : assocs[i].fd # new
      BY <1>10 DEF Fits, AssocsReport
    <3> QED
      BY <1>3, <1>7, <1>9, <3>1, <3>2
  <2>6. ASSUME NEW j \in Occupied(socket')
        PROVE  Owned(socket'.peers[j], socket'.fd, queue', assocs')
    <3>1. CASE j = n
      BY <1>5, <2>5, <3>1 DEF Owned
    <3>2. CASE j # n
      <4>1. j \in Occupied(socket) /\ socket'.peers[j] = socket.peers[j]
        BY <1>5, <1>12, <3>2
      <4> QED
        BY <1>5, <2>4, <4>1
    <3> QED
      BY <3>1, <3>2
  <2> QED
    BY <2>1, <2>2, <2>3, <2>6, OwnedSlots
<1>14. SlotsHaveIds'
  <2>1. \A j \in DOMAIN socket'.peers :
            socket'.peers[j].fd = Closed <=> socket'.peers[j].assoc_id = Closed
    <3>1. new # Closed /\ id # Closed
      BY <1>1, <1>4 DEF Closed
    <3> QED
      BY <1>5, <3>1 DEF Fits, SlotsHaveIds
  <2>2. \A j \in Occupied(socket) :
            \/ socket.peers[j].assoc_id \in DOMAIN assocs
            \/ \E i \in DOMAIN queue[socket.peers[j].fd] : IsEnd(queue[socket.peers[j].fd][i])
    BY FitsMeans
  <2>3. ASSUME NEW j \in Occupied(socket')
        PROVE  \/ socket'.peers[j].assoc_id \in DOMAIN assocs'
               \/ \E i \in DOMAIN queue'[socket'.peers[j].fd] :
                     IsEnd(queue'[socket'.peers[j].fd][i])
    <3>1. CASE j = n
      BY <1>5, <1>7, <3>1
    <3>2. CASE j # n
      <4>1. /\ j \in Occupied(socket) /\ socket'.peers[j] = socket.peers[j]
            /\ queue'[socket.peers[j].fd] = queue[socket.peers[j].fd]
        BY <1>5, <1>12, <3>2
      <4> QED
        BY <1>7, <2>2, <4>1
    <3> QED
      BY <3>1, <3>2
  <2> QED
    BY <2>1, <2>3 DEF SlotsHaveIds, EventsOf
<1>15. AssocsReport'
  BY <1>6, <1>7 DEF Fits, AssocsReport
<1>16. UpsOnce'
  <2> SUFFICES ASSUME NEW f \in DOMAIN queue', NEW i \in DOMAIN queue'[f],
                      queue'[f][i].state = "up"
               PROVE  /\ f = socket'.fd
                      /\ \A j \in DOMAIN queue'[f] :
                            UpAt(queue'[f], j, queue'[f][i].assoc_id) => j = i
    BY DEF UpsOnce, UpAt
  <2>1. f # new
    BY <1>9
  <2>2. CASE f # fd
    <3>1. f \in DOMAIN queue /\ queue'[f] = queue[f]
      BY <1>6, <2>1, <2>2
    <3> QED
      BY <1>5, <3>1 DEF Fits, UpsOnce
  <2>3. CASE f = fd
    <3>1. PICK pos \in [DOMAIN queue'[fd] -> DOMAIN q] :
              /\ \A k \in DOMAIN queue'[fd] : queue'[fd][k] = q[pos[k]]
              /\ \A k, l \in DOMAIN queue'[fd] : pos[k] = pos[l] => k = l
      BY <1>8 DEF Kept
    <3>2. \A k, l \in DOMAIN q : q[k].state = "up" /\ UpAt(q, l, q[k].assoc_id) => l = k
      BY <1>1 DEF Fits, UpsOnce, q
    <3>3. ASSUME NEW j \in DOMAIN queue'[fd], UpAt(queue'[fd], j, queue'[fd][i].assoc_id)
          PROVE  j = i
      <4>1. /\ i \in DOMAIN queue'[fd] /\ pos[i] \in DOMAIN q /\ pos[j] \in DOMAIN q
            /\ queue'[fd][i] = q[pos[i]] /\ queue'[fd][j] = q[pos[j]]
        BY <2>3, <3>1
      <4>2. pos[j] = pos[i]
        BY <2>3, <3>2, <3>3, <4>1 DEF UpAt
      <4> QED
        BY <3>1, <4>1, <4>2
    <3> QED
      BY <1>3, <1>5, <2>3, <3>3
  <2> QED
    BY <2>2, <2>3
<1>17. EndedAreGone'
  <2> SUFFICES ASSUME NEW f \in DOMAIN queue', NEW i \in DOMAIN queue'[f], IsEnd(queue'[f][i])
               PROVE  queue'[f][i].assoc_id \in AssocId \ DOMAIN assocs
    BY <1>7 DEF EndedAreGone, EventsOf
  <2>1. \E g \in DOMAIN queue : \E j \in DOMAIN queue[g] : queue'[f][i] = queue[g][j]
    <3>1. CASE f = new
      BY <1>1, <1>9, <3>1 DEF q
    <3>2. CASE f = fd
      BY <1>1, <1>8, <3>2 DEF q, Kept
    <3>3. CASE f # new /\ f # fd
      BY <1>6, <3>3
    <3> QED
      BY <3>1, <3>2, <3>3
  <2> QED
    BY <2>1, FitsMeans
<1>18. Announced'
  <2> DEFINE r == queue'[fd]
  <2> SUFFICES /\ \A i \in DOMAIN assocs' : assocs'[i].fd = fd => \E k \in DOMAIN r : UpAt(r, k, i)
               /\ \A i \in DOMAIN r :
                     IsEnd(r[i]) => \E j \in 1 .. i - 1 : UpAt(r, j, r[i].assoc_id)
    BY <1>3, <1>5 DEF Announced
  <2>1. /\ \A i \in DOMAIN assocs : assocs[i].fd = fd => \E k \in DOMAIN q : UpAt(q, k, i)
        /\ \A i \in DOMAIN q : IsEnd(q[i]) => \E j \in 1 .. i - 1 : UpAt(q, j, q[i].assoc_id)
    BY <1>3 DEF Fits, Announced, q
  <2>2. PICK pos \in [DOMAIN r -> DOMAIN q] :
            /\ \A k \in DOMAIN r : r[k] = q[pos[k]] /\ q[pos[k]].assoc_id # id
            /\ \A i \in DOMAIN q : q[i].assoc_id # id => \E k \in DOMAIN r : pos[k] = i
            /\ \A k, l \in DOMAIN r : pos[k] < pos[l] => k < l
    BY <1>8 DEF Kept
  <2>3. \A i \in DOMAIN r : i \in Nat \ {0}
    BY <1>8 DEF Kept
  <2> HIDE DEF r
  <2>4. ASSUME NEW i \in DOMAIN assocs', assocs'[i].fd = fd
        PROVE  \E k \in DOMAIN r : UpAt(r, k, i)
    <3>1. i # id /\ i \in DOMAIN assocs /\ assocs[i].fd = fd
      BY <1>1, <1>3, <1>7, <2>4
    <3>2. PICK l \in DOMAIN q : UpAt(q, l, i)
      BY <2>1, <3>1
    <3>3. PICK k \in DOMAIN r : pos[k] = l
      BY <2>2, <3>1, <3>2 DEF UpAt
    <3> QED
      BY <2>2, <3>2, <3>3 DEF UpAt
  <2>5. ASSUME NEW i \in DOMAIN r, IsEnd(r[i])
        PROVE  \E j \in 1 .. i - 1 : UpAt(r, j, r[i].assoc_id)
    <3>1. r[i] = q[pos[i]] /\ pos[i] \in DOMAIN q /\ r[i].assoc_id # id
      BY <2>2
    <3>2. PICK l \in 1 .. pos[i] - 1 : UpAt(q, l, r[i].assoc_id)
      BY <2>1, <2>5, <3>1
    <3>3. l \in DOMAIN q /\ l < pos[i]
      BY <1>1, <3>1, <3>2
    <3>4. PICK k \in DOMAIN r : pos[k] = l
      BY <2>2, <3>1, <3>2, <3>3 DEF UpAt
    <3>5. k < i /\ k \in 1 .. i - 1
      BY <2>2, <2>3, <3>3, <3>4
    <3>6. UpAt(r, k, r[i].assoc_id)
      BY <2>2, <3>2, <3>4 DEF UpAt
    <3> QED
      BY <3>5, <3>6
  <2> QED
    BY <2>4, <2>5 DEF r
<1> QED
  BY <1>11, <1>13, <1>14, <1>15, <1>16, <1>17, <1>18 DEF Fits

------------------------------------------------------------------------------

\* A task that runs keeps the invariant when its parts fit together.
LEMMA Goes ==
    ASSUME Running', TypeOK', Fits'
    PROVE  SctpInv'
BY DEF SctpInv, Fits, Running, CrashOnlyIfFull

LEMMA Initially == Init => SctpInv
<1> SUFFICES ASSUME Init PROVE SctpInv
  OBVIOUS
<1>1. PICK fd \in FD : socket = createSocket(fd) /\ queue = [f \in {fd} |-> <<>>]
  BY DEF Init
<1>2. /\ socket = [fd |-> fd, peers |-> <<>>, tasks |-> <<>>]
      /\ connecting = Remotes /\ selected = {} /\ process = "running"
      /\ pending = {} /\ assocs = <<>>
  BY <1>1 DEF Init, createSocket
<1>3. socket \in Socket /\ socket.fd = fd /\ DOMAIN socket.peers = {}
  BY <1>2 DEF Socket
<1>4. Occupied(socket) = {} /\ PeerFds(socket) = {}
  BY <1>3 DEF Occupied, PeerFds
<1>5. DOMAIN queue = {fd} /\ queue[fd] = <<>> /\ EventsOf(fd) = {} /\ DOMAIN assocs = {}
  BY <1>1, <1>2 DEF EventsOf
<1>6. TypeOK
  <2>1. queue \in [DOMAIN queue -> Seq(Event)]
    BY <1>1
  <2>2. assocs \in [DOMAIN assocs -> Assoc]
    BY <1>2
  <2> QED
    BY <1>2, <1>3, <1>5, <2>1, <2>2 DEF TypeOK
<1>7. Fits
  BY <1>2, <1>3, <1>4, <1>5 DEF Fits, SlotsOwnAssociations, SlotsHaveIds, AssocsReport,
     UpsOnce, EndedAreGone, Announced
<1> QED
  BY <1>2, <1>6, <1>7 DEF SctpInv, Fits, Running, CrashOnlyIfFull

\* A process that is gone has nothing left that could be wrong.
LEMMA Stopped ==
    ASSUME TypeOK, NEW how \in {"ended", "crashed"}, Gone(how),
           how = "crashed" => Full(socket)
    PROVE  SctpInv'
<1>1. socket' \in Socket /\ SameSlots(socket, socket')
  BY OnlyTasks DEF TypeOK, Gone
<1>2. Full(socket') = Full(socket)
  BY <1>1, Slots
<1>3. /\ process' = how /\ pending' = {} /\ assocs' = <<>> /\ queue' = <<>>
      /\ selected' = {} /\ connecting' = <<>>
  BY DEF Gone
<1>4. /\ DOMAIN assocs' = {} /\ assocs' \in [DOMAIN assocs' -> Assoc]
      /\ DOMAIN queue' = {} /\ queue' \in [DOMAIN queue' -> Seq(Event)]
  BY <1>3
<1>5. TypeOK'
  BY <1>1, <1>3, <1>4 DEF TypeOK
<1>6. ~Running' /\ CrashOnlyIfFull'
  BY <1>2, <1>3 DEF Running, CrashOnlyIfFull
<1> QED
  BY <1>3, <1>5, <1>6 DEF SctpInv, SlotsOwnAssociations

\* Slots, associations and notifications are as they were.
LEMMA Undisturbed ==
    ASSUME Running, TypeOK, Fits, UNCHANGED <<process, assocs, queue>>,
           SameSlots(socket, socket'), selected' \subseteq Ready
    PROVE  Fits'
<1>1. /\ socket'.fd = socket.fd /\ socket'.peers = socket.peers
      /\ Occupied(socket') = Occupied(socket) /\ PeerFds(socket') = PeerFds(socket)
      /\ Full(socket') = Full(socket)
  BY Slots DEF SameSlots
<1>2. EventsOf(socket.fd)' = EventsOf(socket.fd)
  BY <1>1 DEF EventsOf
<1>3. \A k \in Occupied(socket) :
          EventsOf(socket.peers[k].fd)' = EventsOf(socket.peers[k].fd)
  BY <1>1 DEF EventsOf
<1>4. SlotsOwnAssociations'
  BY <1>1, <1>2, <1>3 DEF Fits, SlotsOwnAssociations, Ready
<1>5. SlotsHaveIds'
  BY <1>1, <1>3 DEF Fits, SlotsHaveIds
<1>6. EndedAreGone'
  BY DEF Fits, EndedAreGone, EventsOf
<1> QED
  BY <1>1, <1>4, <1>5, <1>6 DEF Fits, AssocsReport, UpsOnce, Announced, UpAt

\* The queues once one event was told or read.
LEMMA QueueTypes ==
    ASSUME TypeOK, NEW fd \in DOMAIN queue
    PROVE  /\ \A e \in Event : LET q == [queue EXCEPT ![fd] = Append(queue[fd], e)]
                               IN  DOMAIN q = DOMAIN queue /\ q \in [DOMAIN q -> Seq(Event)]
           /\ queue[fd] # <<>> =>
                 \A closing : LET q == Rest(fd, closing)
                              IN  DOMAIN q \subseteq DOMAIN queue /\ q \in [DOMAIN q -> Seq(Event)]
<1>1. queue \in [DOMAIN queue -> Seq(Event)]
  BY DEF TypeOK
<1>2. ASSUME NEW e \in Event
      PROVE  LET q == [queue EXCEPT ![fd] = Append(queue[fd], e)]
             IN  DOMAIN q = DOMAIN queue /\ q \in [DOMAIN q -> Seq(Event)]
  <2>1. Append(queue[fd], e) \in Seq(Event)
    BY <1>1
  <2> QED
    BY <1>1, <2>1
<1>3. ASSUME queue[fd] # <<>>, NEW closing
      PROVE  LET q == Rest(fd, closing)
             IN  DOMAIN q \subseteq DOMAIN queue /\ q \in [DOMAIN q -> Seq(Event)]
  <2>1. Tail(queue[fd]) \in Seq(Event)
    BY <1>1, <1>3, TailOf
  <2> QED
    BY <1>1, <2>1 DEF Rest
<1> QED
  BY <1>2, <1>3

\* The kernel tells something, and the task has not noticed yet.
LEMMA KernelTells ==
    ASSUME Running, TypeOK, Fits, UNCHANGED <<socket, connecting, selected, process>>,
           pending' \subseteq Remote,
           DOMAIN assocs' \subseteq AssocId, assocs' \in [DOMAIN assocs' -> Assoc],
           NEW fd, NEW e, Tidings(fd, e)
    PROVE  SctpInv'
<1>0. Fits'
  BY Told
<1>1. DOMAIN queue' = DOMAIN queue /\ queue' \in [DOMAIN queue' -> Seq(Event)]
  BY QueueTypes DEF Tidings
<1>2. TypeOK'
  BY <1>1 DEF TypeOK
<1> QED
  BY <1>0, <1>2, Goes DEF Running

LEMMA UpKeeps ==
    ASSUME Running, TypeOK, Fits, NEW r \in Remote, Up(r),
           UNCHANGED <<socket, connecting, selected, process>>, pending' \subseteq Remote
    PROVE  SctpInv'
<1>1. PICK id \in FreeIds :
          /\ assocs' = [i \in DOMAIN assocs \cup {id} |->
                           IF i = id THEN [remote |-> r, fd |-> socket.fd] ELSE assocs[i]]
          /\ Notify(socket.fd, "up", id, r)
  BY DEF Up
<1> DEFINE e == [state |-> "up", assoc_id |-> id, from |-> r]
<1>2. /\ id \in AssocId \ DOMAIN assocs
      /\ \A f \in DOMAIN queue : \A i \in DOMAIN queue[f] : queue[f][i].assoc_id # id
  BY DEF FreeIds, Events, EventsOf
<1>3. e \in Event
  BY <1>2 DEF Event
<1>4. queue' = [queue EXCEPT ![socket.fd] = Append(queue[socket.fd], e)]
  BY <1>1 DEF Notify
<1>5. e.state = "up" /\ e.assoc_id = id /\ ~IsEnd(e)
  BY DEF IsEnd
<1> HIDE DEF e
<1>6. socket.fd \in DOMAIN queue /\ socket.fd \in FD
  BY FitsMeans
<1>7. /\ DOMAIN assocs' = DOMAIN assocs \cup {id}
      /\ assocs'[id] = [remote |-> r, fd |-> socket.fd]
      /\ \A i \in DOMAIN assocs : assocs'[i] = assocs[i]
  BY <1>1, <1>2
<1>8. DOMAIN assocs' \subseteq AssocId /\ assocs' \in [DOMAIN assocs' -> Assoc]
  <2>1. assocs \in [DOMAIN assocs -> Assoc] /\ DOMAIN assocs \subseteq AssocId
    BY DEF TypeOK
  <2>2. [remote |-> r, fd |-> socket.fd] \in Assoc
    BY <1>6 DEF Assoc
  <2>3. assocs' \in [DOMAIN assocs \cup {id} -> Assoc]
    BY <1>1, <2>1, <2>2
  <2> QED
    BY <1>2, <1>7, <2>1, <2>3
<1>9. \A k \in Occupied(socket) :
          socket.fd = socket.peers[k].fd <=> e.assoc_id = socket.peers[k].assoc_id
  <2>1. ASSUME NEW k \in Occupied(socket)
        PROVE  socket.peers[k].fd # socket.fd /\ socket.peers[k].assoc_id # id
    <3>1. socket.peers[k].assoc_id \in DOMAIN assocs => socket.peers[k].assoc_id # id
      BY <1>2
    <3>2. /\ socket.peers[k].fd # socket.fd /\ socket.peers[k].fd \in DOMAIN queue
          /\ \A i \in DOMAIN queue[socket.peers[k].fd] :
                queue[socket.peers[k].fd][i].assoc_id = socket.peers[k].assoc_id
          /\ \/ socket.peers[k].assoc_id \in DOMAIN assocs
             \/ \E i \in DOMAIN queue[socket.peers[k].fd] : IsEnd(queue[socket.peers[k].fd][i])
      BY FitsMeans
    <3> QED
      BY <1>2, <3>1, <3>2
  <2> QED
    BY <1>5, <2>1
<1>10. Tidings(socket.fd, e)
  <2>1. \A i \in DOMAIN assocs' \ DOMAIN assocs : e.state = "up" /\ e.assoc_id = i /\ i \in FreeIds
    BY <1>5, <1>7
  <2>2. DOMAIN assocs \ DOMAIN assocs' = {} /\ id \in DOMAIN assocs' \ DOMAIN assocs
    BY <1>2, <1>7
  <2> QED
    BY <1>3, <1>4, <1>5, <1>6, <1>7, <1>9, <2>1, <2>2 DEF Tidings
<1> QED
  BY <1>8, <1>10, KernelTells

LEMMA CannotStartKeeps ==
    ASSUME Running, TypeOK, Fits, NEW r \in Remote, CannotStart(r)
    PROVE  SctpInv'
<1> DEFINE e == [state |-> "cant_start", assoc_id |-> NULL, from |-> r]
<1>1. e \in Event
  BY DEF Event
<1>2. /\ queue' = [queue EXCEPT ![socket.fd] = Append(queue[socket.fd], e)]
      /\ UNCHANGED <<socket, connecting, selected, process, assocs>> /\ pending' \subseteq pending
  BY DEF CannotStart, Notify
<1>3. e.state # "up" /\ e.assoc_id = NULL /\ ~IsEnd(e)
  BY DEF IsEnd
<1> HIDE DEF e
<1>4. socket.fd \in DOMAIN queue
  BY FitsMeans
<1>5. \A k \in Occupied(socket) :
          socket.fd = socket.peers[k].fd <=> e.assoc_id = socket.peers[k].assoc_id
  <2>1. \A k \in Occupied(socket) :
            socket.peers[k].fd # socket.fd /\ socket.peers[k].assoc_id \in AssocId
    BY FitsMeans
  <2> QED
    BY <1>3, <2>1 DEF NULL
<1>6. /\ pending' \subseteq Remote /\ DOMAIN assocs' \subseteq AssocId
      /\ assocs' \in [DOMAIN assocs' -> Assoc] /\ DOMAIN assocs \subseteq AssocId
  BY <1>2 DEF TypeOK
<1>7. Tidings(socket.fd, e)
  BY <1>1, <1>2, <1>3, <1>4, <1>5 DEF Tidings
<1> QED
  BY <1>2, <1>6, <1>7, KernelTells

LEMMA EndsKeeps ==
    ASSUME Running, TypeOK, Fits, NEW id \in AssocId, NEW how \in {"shutdown", "lost"},
           Ends(id, how)
    PROVE  SctpInv'
<1> DEFINE fd == assocs[id].fd
           e == [state |-> how, assoc_id |-> id, from |-> assocs[id].remote]
<1>1. /\ id \in DOMAIN assocs /\ DOMAIN assocs \subseteq AssocId
      /\ assocs \in [DOMAIN assocs -> Assoc]
  BY DEF Ends, TypeOK
<1>2. assocs[id].remote \in Remote /\ e \in Event
  BY <1>1 DEF Assoc, Event
<1>3. /\ queue' = [queue EXCEPT ![fd] = Append(queue[fd], e)]
      /\ UNCHANGED <<socket, connecting, selected, process, pending>>
      /\ assocs' = [i \in DOMAIN assocs \ {id} |-> assocs[i]]
  BY DEF Ends, Notify
<1>4. IsEnd(e) /\ e.assoc_id = id /\ e.state # "up"
  BY DEF IsEnd
<1>5. /\ fd \in DOMAIN queue
      /\ \A k \in Occupied(socket) :
            fd = socket.peers[k].fd <=> e.assoc_id = socket.peers[k].assoc_id
  <2>1. \A k \in Occupied(socket) :
            fd = socket.peers[k].fd <=> id = socket.peers[k].assoc_id
    BY <1>1, FitsMeans
  <2> QED
    BY <1>1, <1>4, <2>1 DEF Fits, AssocsReport
<1>6. /\ DOMAIN assocs' = DOMAIN assocs \ {id}
      /\ \A i \in DOMAIN assocs' : assocs'[i] = assocs[i]
  BY <1>3
<1>7. DOMAIN assocs' \subseteq AssocId /\ assocs' \in [DOMAIN assocs' -> Assoc]
  BY <1>1, <1>3
<1>8. /\ \A i \in DOMAIN assocs \ DOMAIN assocs' :
            IsEnd(e) /\ e.assoc_id = i /\ fd = assocs[i].fd
      /\ IsEnd(e) => e.assoc_id \in DOMAIN assocs \ DOMAIN assocs'
  BY <1>1, <1>4, <1>6
<1> HIDE DEF e, fd
<1>9. Tidings(fd, e)
  <2>1. DOMAIN assocs' \ DOMAIN assocs = {}
    BY <1>6
  <2>2. \A i \in DOMAIN assocs \cap DOMAIN assocs' : assocs'[i] = assocs[i]
    BY <1>6
  <2>3. e \in Event /\ queue' = [queue EXCEPT ![fd] = Append(queue[fd], e)]
    BY <1>2, <1>3
  <2> QED
    BY <1>4, <1>5, <1>8, <2>1, <2>2, <2>3 DEF Tidings
<1>10. pending' \subseteq Remote
  BY <1>3 DEF TypeOK
<1> QED
  BY <1>3, <1>7, <1>9, <1>10, KernelTells

LEMMA TellsKeeps ==
    ASSUME Running, TypeOK, Fits, NEW id \in AssocId, Tells(id)
    PROVE  SctpInv'
<1> DEFINE fd == assocs[id].fd
           e == [state |-> "other", assoc_id |-> id, from |-> assocs[id].remote]
<1>1. /\ id \in DOMAIN assocs /\ DOMAIN assocs \subseteq AssocId
      /\ assocs \in [DOMAIN assocs -> Assoc]
  BY DEF Tells, TypeOK
<1>2. assocs[id].remote \in Remote /\ e \in Event
  BY <1>1 DEF Assoc, Event
<1>3. /\ queue' = [queue EXCEPT ![fd] = Append(queue[fd], e)]
      /\ UNCHANGED <<socket, connecting, selected, process, pending, assocs>>
  BY DEF Tells, Notify
<1>4. ~IsEnd(e) /\ e.assoc_id = id /\ e.state # "up"
  BY DEF IsEnd
<1>5. /\ fd \in DOMAIN queue
      /\ \A k \in Occupied(socket) :
            fd = socket.peers[k].fd <=> e.assoc_id = socket.peers[k].assoc_id
  <2>1. \A k \in Occupied(socket) :
            fd = socket.peers[k].fd <=> id = socket.peers[k].assoc_id
    BY <1>1, FitsMeans
  <2> QED
    BY <1>1, <1>4, <2>1 DEF Fits, AssocsReport
<1>6. pending' \subseteq Remote
  BY <1>3 DEF TypeOK
<1> HIDE DEF e, fd
<1>7. Tidings(fd, e)
  BY <1>2, <1>3, <1>4, <1>5 DEF Tidings
<1> QED
  BY <1>1, <1>3, <1>6, <1>7, KernelTells

------------------------------------------------------------------------------

\* Steps of the task that read nothing.
LEMMA QuietKeeps ==
    ASSUME Running, TypeOK, Fits, UNCHANGED <<process, assocs, queue>>,
           SameSlots(socket, socket'), socket' \in Socket, connecting' \in Seq(Remote),
           selected' \subseteq Ready, pending' \subseteq Remote
    PROVE  SctpInv'
<1>1. Fits'
  BY Undisturbed
<1>2. Ready \subseteq FD
  BY DEF TypeOK, Ready
<1>3. TypeOK'
  BY <1>2 DEF TypeOK
<1> QED
  BY <1>1, <1>3, Goes DEF Running

LEMMA SelectedReady ==
    ASSUME Running, Fits
    PROVE  selected \subseteq Ready
BY DEF Fits, SlotsOwnAssociations

LEMMA ConnectKeeps ==
    ASSUME Running, TypeOK, Fits, Connect
    PROVE  SctpInv'
<1>1. ASSUME ConnectTo(Head(connecting)), connecting' = Tail(connecting),
             UNCHANGED <<socket, selected>>
      PROVE  SctpInv'
  <2>1. connecting \in Seq(Remote) /\ connecting # <<>>
    BY DEF Connect, TypeOK
  <2>2. Head(connecting) \in Remote /\ connecting' \in Seq(Remote)
    BY <1>1, <2>1
  <2>3. pending' \subseteq Remote /\ UNCHANGED <<process, assocs, queue>>
    BY <1>1, <2>2 DEF ConnectTo, TypeOK
  <2>4. SameSlots(socket, socket') /\ socket' \in Socket
    BY <1>1 DEF SameSlots, TypeOK
  <2>5. selected' \subseteq Ready
    BY <1>1, SelectedReady
  <2> QED
    BY <2>2, <2>3, <2>4, <2>5, QuietKeeps
<1>2. CASE Gone("ended")
  BY <1>2, Stopped
<1> QED
  BY <1>1, <1>2 DEF Connect

LEMMA LaunchKeeps ==
    ASSUME Running, TypeOK, Fits, NEW i \in DOMAIN socket.tasks, Launch(i)
    PROVE  SctpInv'
<1>1. ASSUME ConnectTo(socket.tasks[i].params), socket' = LaunchedTask(socket, i),
             UNCHANGED <<connecting, selected>>
      PROVE  SctpInv'
  <2>1. SameSlots(socket, socket') /\ socket' \in Socket
    BY <1>1, OnlyTasks DEF TypeOK
  <2>2. socket.tasks[i].params \in Remote
    <3>1. socket.tasks \in Seq(Task)
      BY DEF TypeOK, Socket
    <3>2. socket.tasks[i] \in Task
      BY <3>1
    <3> QED
      BY <3>2 DEF Task
  <2>3. pending' \subseteq Remote /\ UNCHANGED <<process, assocs, queue>>
    BY <1>1, <2>2 DEF ConnectTo, TypeOK
  <2>4. selected' \subseteq Ready /\ connecting' \in Seq(Remote)
    BY <1>1, SelectedReady DEF TypeOK
  <2> QED
    BY <2>1, <2>3, <2>4, QuietKeeps
<1>2. CASE Gone("ended")
  BY <1>2, Stopped
<1> QED
  BY <1>1, <1>2 DEF Launch

LEMMA SelectKeeps ==
    ASSUME Running, TypeOK, Fits, Select
    PROVE  SctpInv'
<1>1. selected' \subseteq Ready
  BY DEF Select, selectFds
<1>2. SameSlots(socket, socket')
  BY DEF Select, SameSlots
<1> QED
  BY <1>1, <1>2, QuietKeeps DEF Select, TypeOK, kernel

LEMMA TickKeeps ==
    ASSUME Running, TypeOK, Fits, Tick
    PROVE  SctpInv'
<1>1. SameSlots(socket, socket') /\ socket' \in Socket
  BY OnlyTasks DEF Tick, TypeOK
<1>2. selected' \subseteq Ready
  BY SelectedReady DEF Tick
<1> QED
  BY <1>1, <1>2, QuietKeeps DEF Tick, TypeOK, kernel

\* What the walk reads.
LEMMA ReadEvent ==
    ASSUME Running, TypeOK, Fits, NEW fd \in selected, NEW event, Reads(fd, event)
    PROVE  /\ fd \in DOMAIN queue /\ queue[fd] \in Seq(Event) /\ queue[fd] # <<>>
           /\ event \in Event /\ event = Head(queue[fd]) /\ event = queue[fd][1]
           /\ 1 \in DOMAIN queue[fd]
<1>1. fd \in DOMAIN queue /\ queue[fd] \in Seq(Event) /\ queue[fd] # <<>>
  BY FitsMeans
<1>2. event = Head(queue[fd])
  BY DEF Reads
<1>3. 1 \in DOMAIN queue[fd] /\ Head(queue[fd]) = queue[fd][1] /\ queue[fd][1] \in Event
  BY <1>1
<1> QED
  BY <1>1, <1>2, <1>3

\* Steps of the walk after which the task still runs.
LEMMA ServedKeeps ==
    ASSUME Running, TypeOK, NEW fd \in selected, Served(fd), Fits', socket' \in Socket,
           DOMAIN assocs' \subseteq AssocId, assocs' \in [DOMAIN assocs' -> Assoc],
           DOMAIN queue' \subseteq FD, queue' \in [DOMAIN queue' -> Seq(Event)]
    PROVE  SctpInv'
<1>1. TypeOK'
  BY DEF TypeOK, Served
<1> QED
  BY <1>1, Goes DEF Running, Served

LEMMA PeelOffKeeps ==
    ASSUME Running, TypeOK, Fits, NEW fd \in selected, NEW event, PeelOff(fd, event)
    PROVE  SctpInv'
<1>1. PICK new \in FD \ DOMAIN queue :
          /\ socket' = peelOff(socket, new, event.assoc_id)
          /\ queue' = Moved(fd, new, event.assoc_id)
          /\ assocs' = [assocs EXCEPT ![event.assoc_id].fd = new]
  BY DEF PeelOff
<1>2. /\ event = Head(queue[fd]) /\ event.state = "up" /\ ~Full(socket)
      /\ event.assoc_id \in DOMAIN assocs
      /\ Served(fd)
  BY DEF PeelOff, Reads
<1>3. /\ socket \in Socket /\ assocs \in [DOMAIN assocs -> Assoc]
      /\ DOMAIN assocs \subseteq AssocId /\ DOMAIN queue \subseteq FD
  BY DEF TypeOK
<1>4. Fits' /\ queue' \in [DOMAIN queue' -> Seq(Event)]
  BY <1>1, <1>2, PeeledOff DEF Served
<1>5. socket' \in Socket
  BY <1>1, <1>2, <1>3, NewSlot
<1>6. DOMAIN assocs' \subseteq AssocId /\ assocs' \in [DOMAIN assocs' -> Assoc]
  <2>1. assocs' = [assocs EXCEPT ![event.assoc_id] =
                      [assocs[event.assoc_id] EXCEPT !.fd = new]]
    BY <1>1
  <2>2. [assocs[event.assoc_id] EXCEPT !.fd = new] \in Assoc
    BY <1>2, <1>3 DEF Assoc
  <2> QED
    BY <1>3, <2>1, <2>2
<1>7. DOMAIN queue' \subseteq FD
  BY <1>1, <1>3, FitsMeans DEF Moved
<1> QED
  BY <1>2, <1>4, <1>5, <1>6, <1>7, ServedKeeps

\* An event that is read and tells nothing about a slot.
LEMMA ReadKeeps ==
    ASSUME Running, TypeOK, Fits, NEW fd \in selected, NEW event, Reads(fd, event),
           event.state \in {"other", "cant_start"} \/ (event.state = "up" /\ Full(socket)),
           queue' = Rest(fd, NULL), Served(fd), UNCHANGED assocs,
           SameSlots(socket, socket'), socket' \in Socket
    PROVE  SctpInv'
<1>1. fd \in DOMAIN queue /\ queue[fd] # <<>> /\ event = Head(queue[fd])
  BY ReadEvent
<1>2. Fits'
  BY <1>1, Read DEF Served, IsEnd
<1>3. DOMAIN queue' \subseteq FD /\ queue' \in [DOMAIN queue' -> Seq(Event)]
  BY <1>1, QueueTypes DEF TypeOK
<1>4. DOMAIN assocs' \subseteq AssocId /\ assocs' \in [DOMAIN assocs' -> Assoc]
  BY DEF TypeOK
<1> QED
  BY <1>2, <1>3, <1>4, ServedKeeps

LEMMA IgnoreKeeps ==
    ASSUME Running, TypeOK, Fits, NEW fd \in selected, NEW event, Ignore(fd, event)
    PROVE  SctpInv'
<1>1. SameSlots(socket, socket') /\ socket' \in Socket
  BY DEF Ignore, SameSlots, TypeOK
<1> QED
  BY <1>1, ReadKeeps DEF Ignore

LEMMA EstablishmentFailureKeeps ==
    ASSUME Running, TypeOK, Fits, NEW fd \in selected, NEW event,
           EstablishmentFailure(fd, event)
    PROVE  SctpInv'
<1>1. Reads(fd, event) /\ event.state = "cant_start"
  BY DEF EstablishmentFailure
<1>2. event.from \in Remote
  BY <1>1, ReadEvent DEF Event
<1>3. SameSlots(socket, socket') /\ socket' \in Socket
  BY <1>2, OnlyTasks DEF EstablishmentFailure, handleEstablishmentFailure, TypeOK
<1> QED
  BY <1>1, <1>3, ReadKeeps DEF EstablishmentFailure

\* The slot that the end of an association is told to.
LEMMA SlotOf ==
    ASSUME Running, TypeOK, Fits, NEW fd \in selected, NEW event, Reads(fd, event), IsEnd(event)
    PROVE  LET k == findPeerByAssocId(socket, event.assoc_id)
           IN  /\ event.assoc_id \notin DOMAIN assocs
               /\ k # NULL => /\ k \in Occupied(socket)
                              /\ socket.peers[k].fd = fd
                              /\ socket.peers[k].assoc_id = event.assoc_id
               /\ k = NULL => Full(socket)
<1> DEFINE id == event.assoc_id
           k == findPeerByAssocId(socket, id)
<1>1. /\ fd \in DOMAIN queue /\ queue[fd] \in Seq(Event)
      /\ event = queue[fd][1] /\ 1 \in DOMAIN queue[fd]
  BY ReadEvent
<1>2. id \in AssocId \ DOMAIN assocs
  BY <1>1, FitsMeans
<1>3. socket \in Socket
  BY DEF TypeOK
<1> HIDE DEF id
<1>4. /\ k # NULL => k \in Occupied(socket) /\ socket.peers[k].assoc_id = id
      /\ (\E j \in Occupied(socket) : socket.peers[j].assoc_id = id) => k # NULL
  <2>1. \A j \in DOMAIN socket.peers :
            socket.peers[j].fd = Closed <=> socket.peers[j].assoc_id = Closed
    BY DEF Fits, SlotsHaveIds
  <2>2. \A i, j \in Occupied(socket) :
            i # j => socket.peers[i].assoc_id # socket.peers[j].assoc_id
    BY FitsMeans
  <2> QED
    BY <1>2, <1>3, <2>1, <2>2, FindSlot
<1> HIDE DEF k
\* The descriptor of a slot tells only of its association, that of all others never.
<1>5. ASSUME NEW j \in Occupied(socket), fd = socket.peers[j].fd
      PROVE  socket.peers[j].assoc_id = id
  BY <1>1, <1>5, FitsMeans DEF id
<1>6. ASSUME NEW j \in Occupied(socket), fd = socket.fd
      PROVE  socket.peers[j].assoc_id # id
  BY <1>1, <1>6, FitsMeans DEF id
<1>7. fd = socket.fd \/ \E j \in Occupied(socket) : fd = socket.peers[j].fd
  BY <1>1, FitsMeans DEF PeerFds
<1>8. ASSUME k # NULL
      PROVE  k \in Occupied(socket) /\ socket.peers[k].fd = fd /\ socket.peers[k].assoc_id = id
  <2>1. k \in Occupied(socket) /\ socket.peers[k].assoc_id = id
    BY <1>4, <1>8
  <2>2. PICK j \in Occupied(socket) : fd = socket.peers[j].fd
    BY <1>6, <1>7, <2>1
  <2>3. j = k
    BY <1>5, <2>1, <2>2, FitsMeans
  <2> QED
    BY <2>1, <2>2, <2>3
<1>9. ASSUME k = NULL, ~Full(socket)
      PROVE  FALSE
  <2>1. fd = socket.fd
    BY <1>4, <1>5, <1>7, <1>9
  <2>2. \A i \in DOMAIN queue[fd] :
            IsEnd(queue[fd][i]) => \E j \in 1 .. i - 1 : UpAt(queue[fd], j, queue[fd][i].assoc_id)
    BY <1>9, <2>1 DEF Fits, Announced
  <2>3. \E j \in 1 .. 1 - 1 : UpAt(queue[fd], j, queue[fd][1].assoc_id)
    BY <1>1, <2>2
  <2> QED
    BY <2>3
<1> QED
  BY <1>2, <1>8, <1>9 DEF k, id

LEMMA RemovesKeeps ==
    ASSUME Running, TypeOK, Fits, NEW fd \in selected, NEW event,
           NEW how \in {"shutdown", "lost"}, Removes(fd, event, how),
           SameSlots(removeAssoc(socket, event.assoc_id), socket'), socket' \in Socket
    PROVE  SctpInv'
<1> DEFINE k == findPeerByAssocId(socket, event.assoc_id)
<1>1. Reads(fd, event) /\ IsEnd(event) /\ k # NULL /\ Served(fd) /\ UNCHANGED assocs
  BY DEF Removes, IsEnd
<1>2. /\ k \in Occupied(socket) /\ socket.peers[k].fd = fd
      /\ socket.peers[k].assoc_id \notin DOMAIN assocs
  BY <1>1, SlotOf
<1>3. queue' = Rest(fd, fd)
  BY <1>2 DEF Removes
<1>4. SameSlots(removePeer(socket, k), socket')
  BY DEF removeAssoc
<1> HIDE DEF k
<1>5. Fits'
  BY <1>1, <1>2, <1>3, <1>4, Removed DEF Served
<1>6. fd \in DOMAIN queue /\ queue[fd] # <<>>
  BY <1>1, ReadEvent
<1>7. DOMAIN queue' \subseteq FD /\ queue' \in [DOMAIN queue' -> Seq(Event)]
  BY <1>3, <1>6, QueueTypes DEF TypeOK
<1>8. DOMAIN assocs' \subseteq AssocId /\ assocs' \in [DOMAIN assocs' -> Assoc]
  BY <1>1 DEF TypeOK
<1> QED
  BY <1>1, <1>5, <1>7, <1>8, ServedKeeps

\* What removeAssoc makes of the socket, when there is a slot to remove.
LEMMA RemovedType ==
    ASSUME Running, TypeOK, Fits, NEW fd \in selected, NEW event,
           NEW how \in {"shutdown", "lost"}, Removes(fd, event, how)
    PROVE  removeAssoc(socket, event.assoc_id) \in Socket /\ event.from \in Remote
<1> DEFINE k == findPeerByAssocId(socket, event.assoc_id)
<1>1. Reads(fd, event) /\ IsEnd(event) /\ k # NULL
  BY DEF Removes, IsEnd
<1>2. k \in Occupied(socket)
  BY <1>1, SlotOf
<1> HIDE DEF k
<1>3. socket \in Socket /\ \A j \in Occupied(socket) :
                              j # k => socket.peers[j].fd # socket.peers[k].fd
  BY <1>2, FitsMeans DEF TypeOK
<1>4. removePeer(socket, k) \in Socket
  BY <1>2, <1>3, ClosedSlot
<1>5. event.from \in Remote
  BY <1>1, ReadEvent DEF Event
<1> QED
  BY <1>4, <1>5 DEF removeAssoc, k

LEMMA GracefulShutdownKeeps ==
    ASSUME Running, TypeOK, Fits, NEW fd \in selected, NEW event, GracefulShutdown(fd, event)
    PROVE  SctpInv'
<1>1. Removes(fd, event, "shutdown") /\ socket' = removeAssoc(socket, event.assoc_id)
  BY DEF GracefulShutdown, handleGracefulShutdown
<1>2. socket' \in Socket
  BY <1>1, RemovedType
<1>3. SameSlots(removeAssoc(socket, event.assoc_id), socket')
  BY <1>1 DEF SameSlots
<1> QED
  BY <1>1, <1>2, <1>3, RemovesKeeps

LEMMA CommLostKeeps ==
    ASSUME Running, TypeOK, Fits, NEW fd \in selected, NEW event, CommLost(fd, event)
    PROVE  SctpInv'
<1> DEFINE s == removeAssoc(socket, event.assoc_id)
<1>1. Removes(fd, event, "lost") /\ socket' = scheduleReestablishment(s, event.from)
  BY DEF CommLost, handleCommLost
<1>2. s \in Socket /\ event.from \in Remote
  BY <1>1, RemovedType
<1> HIDE DEF s
<1>3. socket' \in Socket /\ SameSlots(s, socket')
  BY <1>1, <1>2, OnlyTasks
<1>4. SameSlots(removeAssoc(socket, event.assoc_id), socket')
  BY <1>3 DEF s
<1> QED
  BY <1>1, <1>3, <1>4, RemovesKeeps

LEMMA RemovesNothingKeeps ==
    ASSUME Running, TypeOK, Fits, NEW fd \in selected, NEW event, RemovesNothing(fd, event)
    PROVE  SctpInv'
<1>1. /\ Reads(fd, event) /\ IsEnd(event) /\ Gone("crashed")
      /\ findPeerByAssocId(socket, event.assoc_id) = NULL
  BY DEF RemovesNothing, IsEnd
<1>2. Full(socket)
  BY <1>1, SlotOf
<1> QED
  BY <1>1, <1>2, Stopped

LEMMA ServeKeeps ==
    ASSUME Running, TypeOK, Fits, Serve
    PROVE  SctpInv'
<1>1. PICK fd \in selected, event \in Events :
          \/ PeelOff(fd, event) \/ PeelOffFails(fd, event) \/ Ignore(fd, event)
          \/ EstablishmentFailure(fd, event)
          \/ GracefulShutdown(fd, event) \/ CommLost(fd, event)
          \/ RemovesNothing(fd, event)
  BY DEF Serve
<1>2. CASE PeelOffFails(fd, event)
  BY <1>2, Stopped DEF PeelOffFails
<1> QED
  BY <1>1, <1>2, PeelOffKeeps, IgnoreKeeps, EstablishmentFailureKeeps,
     GracefulShutdownKeeps, CommLostKeeps, RemovesNothingKeeps

LEMMA EnvironmentKeeps ==
    ASSUME Running, TypeOK, Fits, Environment
    PROVE  SctpInv'
<1>1. ASSUME NEW r \in Remote, RemoteConnects(r)
      PROVE  SctpInv'
  BY <1>1, UpKeeps DEF RemoteConnects, TypeOK
<1>2. ASSUME NEW r \in Remote, ComesUp(r)
      PROVE  SctpInv'
  BY <1>2, UpKeeps DEF ComesUp, TypeOK
<1> QED
  BY <1>1, <1>2, CannotStartKeeps, EndsKeeps, TellsKeeps DEF Environment

LEMMA Steps == SctpInv /\ [Next]_vars => SctpInv'
<1> SUFFICES ASSUME SctpInv, [Next]_vars
             PROVE  SctpInv'
  OBVIOUS
<1>1. TypeOK /\ (Running => Fits)
  BY DEF SctpInv, Fits
<1>2. CASE UNCHANGED vars
  <2>1. UNCHANGED <<socket, connecting, selected, process, pending, assocs, queue>>
    BY <1>2 DEF vars, kernel
  <2>2. CASE Running
    <3>1. SameSlots(socket, socket')
      BY <2>1 DEF SameSlots
    <3>2. selected' \subseteq Ready
      BY <1>1, <2>1, <2>2, SelectedReady
    <3> QED
      BY <1>1, <2>1, <2>2, <3>1, <3>2, QuietKeeps DEF TypeOK
  <2>3. CASE ~Running
    <3>1. ~Running' /\ SlotsOwnAssociations'
      BY <2>1, <2>3 DEF Running, SlotsOwnAssociations
    <3>2. TypeOK'
      BY <1>1, <2>1 DEF TypeOK
    <3>3. CrashOnlyIfFull'
      BY <2>1 DEF SctpInv, CrashOnlyIfFull, Full
    <3> QED
      BY <2>1, <2>3, <3>1, <3>2, <3>3 DEF SctpInv
  <2> QED
    BY <2>2, <2>3
<1>3. ASSUME Next PROVE Running
  <2> SUFFICES ASSUME ~Running PROVE FALSE
    OBVIOUS
  <2>1. pending = {} /\ assocs = <<>> /\ DOMAIN assocs = {}
    BY DEF SctpInv
  <2>2. ~Environment
    BY <2>1 DEF Environment, RemoteConnects, ComesUp, CannotStart, Ends, Tells
  <2>3. ~Serve
    BY DEF Serve, PeelOff, PeelOffFails, Ignore, EstablishmentFailure, GracefulShutdown,
       CommLost, Removes, RemovesNothing, Reads
  <2> QED
    BY <1>3, <2>2, <2>3 DEF Next, Connect, LaunchAny, Launch, ConnectFails, Select, SendFails,
       Quit, Tick, Looping
<1>4. ASSUME Next PROVE SctpInv'
  <2>1. Running /\ TypeOK /\ Fits
    BY <1>1, <1>3, <1>4
  <2>2. CASE LaunchAny
    BY <2>1, <2>2, LaunchKeeps DEF LaunchAny
  <2>3. CASE ConnectFails \/ SendFails \/ Quit
    BY <2>1, <2>3, Stopped DEF ConnectFails, SendFails, Quit
  <2> QED
    BY <1>4, <2>1, <2>2, <2>3, ConnectKeeps, SelectKeeps, ServeKeeps, TickKeeps,
       EnvironmentKeeps DEF Next
<1> QED
  BY <1>2, <1>4

\* Every state of the endpoint is as the parts of SctpInv say: descriptors, ids and what
\* the kernel still has to tell fit the slots (SocketSctp.c:94-143).
THEOREM Invariance == Spec => []SctpInv
<1> QED
  BY Initially, Steps, PTL DEF Spec

------------------------------------------------------------------------------

\* Whatever the remotes do, the socket, the associations and the queues keep their types,
\* and the table its bound.
THEOREM TypeCorrect == Spec => []TypeOK
<1>1. SctpInv => TypeOK
  BY DEF SctpInv
<1> QED
  BY <1>1, Invariance, PTL

\* The slots and the peeled off descriptors match one to one, and what the kernel tells of
\* an association reaches its slot, whenever associations come up, end and come back while
\* the walk over the selected descriptors goes on (SocketSctp.c:94-132).
THEOREM SlotsOwnAssociationsHolds == Spec => []SlotsOwnAssociations
<1>1. SctpInv => SlotsOwnAssociations
  BY DEF SctpInv
<1> QED
  BY <1>1, Invariance, PTL

\* The NULL peer of removeAssoc is reached only with a full table: before, the end of an
\* association is read after its start, and on the descriptor of its slot
\* (SocketSctp.c:96-100, 128-143).
THEOREM CrashOnlyIfFullHolds == Spec => []CrashOnlyIfFull
<1>1. SctpInv => CrashOnlyIfFull
  BY DEF SctpInv
<1> QED
  BY <1>1, Invariance, PTL

=============================================================================
