------------------------------ MODULE UdpProofs ------------------------------
(****************************************************************************)
(* For any remotes, table size and probe count: a UDP endpoint's slots and  *)
(* tasks stay together, commLost always finds a peer, no remote is          *)
(* forgotten while the table has room, and only silence loses a peer that   *)
(* never had two slots.  For any number of endpoints and any configurations *)
(* of them: two that stay up keep each other as long as fewer datagrams are *)
(* lost than there are probes.                                              *)
(****************************************************************************)

EXTENDS UdpEndpoint, UdpNetwork, FiniteSetTheorems, TLAPS

USE RemoteAssumption, BoundAssumption

------------------------------------------------------------------------------
\* Lemmas about the functions of SocketUdp: each keeps a well-formed socket well-formed,
\* and says which remotes it leaves watched.

\* The comm lost tasks that are armed.
Losses(s) == {i \in DOMAIN s.tasks : Armed(s.tasks[i]) /\ s.tasks[i].callback = "commLost"}

\* Whenever a comm lost task starts, it waits for all the probes.
LossDelays(s) ==
    \A i \in DOMAIN s.tasks : s.tasks[i].callback = "commLost" => s.tasks[i].delay = LostDelay

\* A socket whose slots and tasks belong together.
SocketOK(s) == s \in Socket /\ OwnsTasks(s) /\ LossDelays(s)

\* What s watches t watches, except perhaps r.
KeepsWatched(s, t, r) == \A q \in Remote \ {r} : Watched(s, q) => Watched(t, q)
KeepsAllWatched(s, t) == \A q \in Remote : Watched(s, q) => Watched(t, q)

\* An armed comm lost task of t goes on waiting as in s, or has just started.
LossesKept(s, t) ==
    \A i \in Losses(t) :
        \/ t.tasks[i].wait = LostDelay
        \/ /\ i \in Losses(s)
           /\ t.tasks[i].params = s.tasks[i].params /\ t.tasks[i].wait = s.tasks[i].wait

\* t has no slot for a remote that s has not, except perhaps for r.
SlotsKept(s, t, r) == \A q \in Remote \ {r} : Slots(t, q) \subseteq Slots(s, q)
AllSlotsKept(s, t) == \A q \in Remote : Slots(t, q) \subseteq Slots(s, q)

\* All comm lost tasks of r have just started, and r has one slot at most.
Fresh(s, r) == \A i \in Losses(s) : s.tasks[i].params = r => s.tasks[i].wait = LostDelay
Single(s, r) == \A j, k \in Slots(s, r) : j = k

------------------------------------------------------------------------------

\* Initial segments of the naturals are finite, and strict inclusion of finite sets
\* is well-founded: the library states no least-number principle for sets.
LEMMA LeastElement ==
    ASSUME NEW S \in SUBSET Nat, S # {}
    PROVE  \E m \in S : \A n \in S : m <= n
<1> DEFINE T == {1 .. k : k \in S}
<1> DEFINE R == StrictSubsetOrdering(Nat)
<1>1. T \subseteq FiniteSubsetsOf(Nat) /\ T # {}
  <2>1. ASSUME NEW k \in S PROVE 1 .. k \in FiniteSubsetsOf(Nat)
    <3>1. 1 \in Int /\ k \in Int
      OBVIOUS
    <3>2. IsFiniteSet(1 .. k)
      BY <3>1, FS_Interval
    <3> QED
      BY <3>2 DEF FiniteSubsetsOf
  <2> QED
    BY <2>1
<1>w. IsWellFoundedOn(R, FiniteSubsetsOf(Nat))
  BY FS_StrictSubsetOrderingWellFounded
<1>2. PICK x \in T : \A y \in T : <<y, x>> \notin R
  <2> HIDE DEF T, R
  <2> QED
    BY <1>1, <1>w, WFMin
<1>3. PICK m \in S : x = 1 .. m
  OBVIOUS
<1>4. ASSUME NEW n \in S, ~(m <= n) PROVE FALSE
  <2>1. 1 .. n \subseteq 1 .. m /\ 1 .. n # 1 .. m
    <3>1. m \in 1 .. m /\ m \notin 1 .. n
      BY <1>4
    <3> QED
      BY <1>4, <3>1
  <2>2. <<1 .. n, 1 .. m>> \in R
    BY <2>1 DEF StrictSubsetOrdering
  <2> QED
    BY <1>2, <1>3, <2>2
<1> QED
  BY <1>4

\* findPeerByRemote finds a slot of r exactly when there is one.
LEMMA FindPeer ==
    ASSUME NEW s \in Socket, NEW r \in Remote
    PROVE  /\ findPeerByRemote(s, r) # NULL => findPeerByRemote(s, r) \in Slots(s, r)
           /\ findPeerByRemote(s, r) = NULL <=> Slots(s, r) = {}
           /\ Slots(s, r) \subseteq Occupied(s)
<1>1. Slots(s, r) \subseteq Nat \ {0} /\ Slots(s, r) \subseteq Occupied(s)
  BY DEF Slots, Occupied, Socket
<1>2. CASE Slots(s, r) = {}
  BY <1>1, <1>2 DEF Slots, findPeerByRemote, NULL
<1>3. CASE Slots(s, r) # {}
  <2> DEFINE First(k) == /\ k \in DOMAIN s.peers /\ s.peers[k].remote = r
                         /\ \A j \in 1 .. k - 1 : s.peers[j].remote # r
  <2>1. PICK m \in Slots(s, r) : \A n \in Slots(s, r) : m <= n
    BY <1>1, <1>3, LeastElement
  <2>2. First(m)
    BY <1>1, <2>1 DEF Slots, Socket
  <2>3. findPeerByRemote(s, r) = CHOOSE k \in DOMAIN s.peers :
            s.peers[k].remote = r /\ \A j \in 1 .. k - 1 : s.peers[j].remote # r
    BY <1>3 DEF Slots, findPeerByRemote
  <2>4. findPeerByRemote(s, r) \in Slots(s, r)
    BY <2>2, <2>3 DEF Slots
  <2> QED
    BY <1>1, <1>3, <2>4 DEF NULL
<1> QED
  BY <1>2, <1>3
------------------------------------------------------------------------------

\* Two task lists with the same tasks, whatever remains of each.
SameTasks(t, u) ==
    /\ DOMAIN u = DOMAIN t
    /\ \A i \in DOMAIN t : /\ u[i].callback = t[i].callback /\ u[i].params = t[i].params
                           /\ u[i].delay = t[i].delay

LEMMA ChangeTask ==
    ASSUME NEW t \in Seq(Task), NEW i \in DOMAIN t, NEW task \in Task,
           task.callback = t[i].callback, task.params = t[i].params, task.delay = t[i].delay
    PROVE  /\ [t EXCEPT ![i] = task] \in Seq(Task)
           /\ SameTasks(t, [t EXCEPT ![i] = task])
           /\ \A j \in DOMAIN t \ {i} : [t EXCEPT ![i] = task][j] = t[j]
           /\ [t EXCEPT ![i] = task][i] = task
BY DEF SameTasks

LEMMA DisableTask ==
    ASSUME NEW t \in Seq(Task), NEW i \in DOMAIN t
    PROVE  /\ disableTask(t, i) \in Seq(Task)
           /\ SameTasks(t, disableTask(t, i))
           /\ \A j \in DOMAIN t \ {i} : disableTask(t, i)[j] = t[j]
           /\ ~Armed(disableTask(t, i)[i])
<1> DEFINE task == [t[i] EXCEPT !.wait = 0, !.left = 0]
<1>1. t[i] \in Task
  OBVIOUS
<1>2. /\ task \in Task /\ task.left = 0
      /\ task.callback = t[i].callback /\ task.params = t[i].params
      /\ task.delay = t[i].delay
  BY <1>1 DEF Task, Due
<1>3. disableTask(t, i) = [t EXCEPT ![i] = task]
  BY DEF disableTask
<1> HIDE DEF task
<1>4. /\ [t EXCEPT ![i] = task] \in Seq(Task)
      /\ SameTasks(t, [t EXCEPT ![i] = task])
      /\ \A j \in DOMAIN t \ {i} : [t EXCEPT ![i] = task][j] = t[j]
      /\ [t EXCEPT ![i] = task][i] = task
  BY <1>2, ChangeTask
<1>5. t[i].repetitions > 0
  BY <1>1 DEF Task
<1> QED
  BY <1>2, <1>3, <1>4, <1>5 DEF Armed

LEMMA ResetTask ==
    ASSUME NEW t \in Seq(Task), NEW i \in DOMAIN t
    PROVE  /\ resetTask(t, i) \in Seq(Task)
           /\ SameTasks(t, resetTask(t, i))
           /\ \A j \in DOMAIN t \ {i} : resetTask(t, i)[j] = t[j]
           /\ Armed(resetTask(t, i)[i]) /\ resetTask(t, i)[i].wait = t[i].delay
<1> DEFINE task == [t[i] EXCEPT !.wait = t[i].delay, !.left = t[i].repetitions]
<1>1. t[i] \in Task
  OBVIOUS
<1>2. /\ task \in Task /\ task.left = t[i].repetitions /\ task.wait = t[i].delay
      /\ task.callback = t[i].callback /\ task.params = t[i].params
      /\ task.delay = t[i].delay
  BY <1>1 DEF Task, Due
<1>3. resetTask(t, i) = [t EXCEPT ![i] = task]
  BY DEF resetTask
<1> HIDE DEF task
<1>4. /\ [t EXCEPT ![i] = task] \in Seq(Task)
      /\ SameTasks(t, [t EXCEPT ![i] = task])
      /\ \A j \in DOMAIN t \ {i} : [t EXCEPT ![i] = task][j] = t[j]
      /\ [t EXCEPT ![i] = task][i] = task
  BY <1>2, ChangeTask
<1>5. t[i].repetitions > 0
  BY <1>1 DEF Task
<1> QED
  BY <1>2, <1>3, <1>4, <1>5 DEF Armed

LEMMA LaunchedTask ==
    ASSUME NEW t \in Seq(Task), NEW i \in DOMAIN t, Due(t[i])
    PROVE  /\ Launched(t, i) \in Seq(Task)
           /\ SameTasks(t, Launched(t, i))
           /\ \A j \in DOMAIN t \ {i} : Launched(t, i)[j] = t[j]
           /\ Launched(t, i)[i].wait = t[i].delay
<1> DEFINE task == [t[i] EXCEPT !.wait = t[i].delay, !.left = t[i].left - 1]
<1>1. t[i] \in Task
  OBVIOUS
<1>a. t[i].left - 1 \in Nat
  <2>1. t[i].left \in Nat /\ t[i].left > 0
    BY <1>1 DEF Task, Due
  <2> QED
    BY <2>1
<1>2. /\ task \in Task /\ task.left = t[i].left - 1 /\ task.wait = t[i].delay
      /\ task.callback = t[i].callback /\ task.params = t[i].params
      /\ task.delay = t[i].delay
  BY <1>1, <1>a DEF Task
<1>3. Launched(t, i) = [t EXCEPT ![i] = task]
  BY DEF Launched
<1> HIDE DEF task
<1>4. /\ [t EXCEPT ![i] = task] \in Seq(Task)
      /\ SameTasks(t, [t EXCEPT ![i] = task])
      /\ \A j \in DOMAIN t \ {i} : [t EXCEPT ![i] = task][j] = t[j]
      /\ [t EXCEPT ![i] = task][i] = task
  BY <1>2, ChangeTask
<1>5. t[i].repetitions > 0
  BY <1>1 DEF Task
<1> QED
  BY <1>2, <1>3, <1>4, <1>5 DEF Armed

LEMMA ElapsedTasks ==
    ASSUME NEW t \in Seq(Task)
    PROVE  /\ Elapsed(t) \in Seq(Task)
           /\ SameTasks(t, Elapsed(t))
           /\ \A j \in DOMAIN t : /\ Elapsed(t)[j].left = t[j].left
                                  /\ Armed(t[j]) /\ t[j].wait > 0 =>
                                        Elapsed(t)[j].wait = t[j].wait - 1
<1>1. ASSUME NEW i \in DOMAIN t
      PROVE  /\ Elapsed(t)[i] \in Task /\ Elapsed(t)[i].left = t[i].left
             /\ Elapsed(t)[i].callback = t[i].callback
             /\ Elapsed(t)[i].params = t[i].params
             /\ Elapsed(t)[i].delay = t[i].delay
             /\ Armed(t[i]) /\ t[i].wait > 0 => Elapsed(t)[i].wait = t[i].wait - 1
  <2>1. t[i] \in Task
    OBVIOUS
  <2>2. CASE Armed(t[i]) /\ t[i].wait > 0
    <3>1. Elapsed(t)[i] = [t[i] EXCEPT !.wait = t[i].wait - 1]
      BY <2>2 DEF Elapsed
    <3>2. t[i].wait - 1 \in Nat
      BY <2>1, <2>2 DEF Task
    <3> QED
      BY <2>1, <3>1, <3>2 DEF Task
  <2>3. CASE ~(Armed(t[i]) /\ t[i].wait > 0)
    BY <2>1, <2>3 DEF Elapsed
  <2> QED
    BY <2>2, <2>3
<1>2. DOMAIN Elapsed(t) = 1 .. Len(t) /\ DOMAIN t = 1 .. Len(t) /\ Len(t) \in Nat
  BY DEF Elapsed
<1>3. Elapsed(t) \in [1 .. Len(t) -> Task]
  <2>1. Elapsed(t) = [i \in 1 .. Len(t) |-> Elapsed(t)[i]]
    BY <1>2 DEF Elapsed
  <2> QED
    BY <1>1, <1>2, <2>1
<1> QED
  BY <1>1, <1>2, <1>3 DEF SameTasks

LEMMA ScheduleTask ==
    ASSUME NEW t \in Seq(Task), NEW task \in Task
    PROVE  /\ scheduleTask(t, task) \in Seq(Task)
           /\ DOMAIN scheduleTask(t, task) = DOMAIN t \cup {Len(t) + 1}
           /\ \A i \in DOMAIN t : scheduleTask(t, task)[i] = t[i]
           /\ scheduleTask(t, task)[Len(t) + 1] = task
           /\ Len(scheduleTask(t, task)) = Len(t) + 1
           /\ Len(t) + 1 \notin DOMAIN t /\ DOMAIN t \subseteq Nat \ {0}
BY DEF scheduleTask

\* v is t with one task more: the same fact as one predicate, for the proofs that
\* schedule twice.
IsScheduled(v, t, task) ==
    /\ v \in Seq(Task)
    /\ DOMAIN v = DOMAIN t \cup {Len(t) + 1}
    /\ \A i \in DOMAIN t : v[i] = t[i]
    /\ v[Len(t) + 1] = task
    /\ Len(t) + 1 \notin DOMAIN t

LEMMA Scheduled ==
    ASSUME NEW t \in Seq(Task), NEW task \in Task
    PROVE  IsScheduled(scheduleTask(t, task), t, task)
BY ScheduleTask DEF IsScheduled

LEMMA NewTasks ==
    ASSUME NEW r \in Remote
    PROVE  /\ {PingTask(r), CommLostTask(r), ReestablishTask(r)} \subseteq Task
           /\ PingTask(r).callback = "ping" /\ PingTask(r).params = r
           /\ CommLostTask(r).callback = "commLost" /\ CommLostTask(r).params = r
           /\ ReestablishTask(r).callback = "reestablish" /\ ReestablishTask(r).params = r
           /\ Armed(PingTask(r)) /\ Armed(CommLostTask(r)) /\ Armed(ReestablishTask(r))
           /\ CommLostTask(r).delay = LostDelay /\ CommLostTask(r).wait = LostDelay
BY DEF PingTask, CommLostTask, ReestablishTask, createScheduledTask, Task, Armed,
       LostDelay, keep_alive_period

------------------------------------------------------------------------------

\* With the slots as they are, the ownership of tasks survives as long as no task
\* without a slot is armed.
LEMMA OwnsKept ==
    ASSUME NEW s \in Socket, NEW t \in Socket, OwnsTasks(s),
           t.peers = s.peers, SameTasks(s.tasks, t.tasks),
           \A i \in DOMAIN s.tasks :
               Armed(t.tasks[i]) /\ s.tasks[i].callback # "reestablish" =>
                   \/ Armed(s.tasks[i])
                   \/ \E k \in Occupied(s) :
                          i \in {s.peers[k].ping_task, s.peers[k].comm_lost_task}
    PROVE  OwnsTasks(t)
<1>1. Occupied(t) = Occupied(s)
  BY DEF Occupied
<1>2. \A k \in Occupied(t) : PointsToTasks(t, k)
  BY <1>1 DEF OwnsTasks, PointsToTasks, SameTasks
<1> QED
  BY <1>1, <1>2 DEF OwnsTasks, SameTasks

\* With the tasks as they are, comm lost tasks keep their delay.
LEMMA DelaysKept ==
    ASSUME NEW s, NEW t, LossDelays(s), SameTasks(s.tasks, t.tasks)
    PROVE  LossDelays(t)
BY DEF LossDelays, SameTasks

\* With the slots as they are, no remote has another slot than before.
LEMMA SlotsSame ==
    ASSUME NEW s, NEW t, t.peers = s.peers
    PROVE  AllSlotsKept(s, t) /\ \A r : Slots(t, r) = Slots(s, r)
BY DEF AllSlotsKept, Slots

\* Comm lost tasks that were kept twice were kept.
LEMMA KeptTwice ==
    ASSUME NEW s, NEW t, NEW u, LossesKept(s, t), LossesKept(t, u)
    PROVE  LossesKept(s, u)
BY DEF LossesKept

\* An armed comm lost task is that of a slot of its remote.
LEMMA LossHasSlot ==
    ASSUME NEW s, SocketOK(s), NEW i \in Losses(s)
    PROVE  /\ s.tasks[i].params \in Remote
           /\ \E k \in Slots(s, s.tasks[i].params) : i = s.peers[k].comm_lost_task
<1>1. s.tasks[i] \in Task /\ OwnsTasks(s)
  BY DEF SocketOK, Socket, Losses
<1>2. PICK k \in Occupied(s) : i \in {s.peers[k].ping_task, s.peers[k].comm_lost_task}
  BY <1>1 DEF OwnsTasks, Losses
<1>3. PointsToTasks(s, k) /\ s.tasks[i].callback = "commLost"
  BY <1>1, <1>2 DEF OwnsTasks, Losses
<1>4. i = s.peers[k].comm_lost_task /\ s.tasks[i].params = s.peers[k].remote
  BY <1>2, <1>3 DEF PointsToTasks
<1>5. k \in Slots(s, s.tasks[i].params)
  BY <1>2, <1>4 DEF Slots, Occupied
<1> QED
  BY <1>1, <1>4, <1>5 DEF Task

\* removePeer for an occupied slot k forgets nothing of the other remotes, nor a
\* reestablishment.
LEMMA RemovePeer ==
    ASSUME NEW s, SocketOK(s), NEW k \in Occupied(s)
    PROVE  LET t == removePeer(s, k)
               r == s.peers[k].remote
           IN  /\ SocketOK(t)
               /\ KeepsWatched(s, t, r)
               /\ \A q \in Remote : Pending(s, q, {"reestablish"}) =>
                                      Pending(t, q, {"reestablish"})
               /\ LossesKept(s, t) /\ AllSlotsKept(s, t)
<1> DEFINE p == s.peers[k]
           u == disableTask(s.tasks, p.ping_task)
           v == disableTask(u, p.comm_lost_task)
           t == removePeer(s, k)
<1>1. /\ s \in Socket /\ s.tasks \in Seq(Task) /\ s.peers \in Seq(Peer)
      /\ k \in DOMAIN s.peers /\ OwnsTasks(s) /\ PointsToTasks(s, k)
  BY DEF SocketOK, Socket, Occupied, OwnsTasks
<1>2. /\ p.ping_task \in DOMAIN s.tasks /\ p.comm_lost_task \in DOMAIN s.tasks
      /\ p.ping_task # p.comm_lost_task
  BY <1>1 DEF PointsToTasks
<1>3. /\ u \in Seq(Task) /\ SameTasks(s.tasks, u)
      /\ \A j \in DOMAIN s.tasks \ {p.ping_task} : u[j] = s.tasks[j]
      /\ ~Armed(u[p.ping_task])
  BY <1>1, <1>2, DisableTask
<1>4. /\ v \in Seq(Task) /\ SameTasks(s.tasks, v)
      /\ \A j \in DOMAIN s.tasks \ {p.ping_task, p.comm_lost_task} : v[j] = s.tasks[j]
      /\ ~Armed(v[p.ping_task]) /\ ~Armed(v[p.comm_lost_task])
  <2>1. p.comm_lost_task \in DOMAIN u
    BY <1>2, <1>3 DEF SameTasks
  <2>2. /\ v \in Seq(Task) /\ SameTasks(u, v)
        /\ \A j \in DOMAIN u \ {p.comm_lost_task} : v[j] = u[j]
        /\ ~Armed(v[p.comm_lost_task])
    BY <1>3, <2>1, DisableTask
  <2> QED
    BY <1>2, <1>3, <2>2 DEF SameTasks
<1>5. /\ t.tasks = v /\ t \in Socket /\ DOMAIN t.peers = DOMAIN s.peers
      /\ \A j \in DOMAIN s.peers \ {k} : t.peers[j] = s.peers[j]
      /\ t.peers[k].remote = NoRemote
      /\ Len(t.peers) = Len(s.peers)
  <2> HIDE DEF v
  <2>1. t = [peers |-> [s.peers EXCEPT ![k] =
                [remote |-> NoRemote, ping_task |-> NULL, comm_lost_task |-> NULL]],
             tasks |-> v]
    BY DEF removePeer, v
  <2>2. [remote |-> NoRemote, ping_task |-> NULL, comm_lost_task |-> NULL] \in Peer
    BY DEF Peer, NULL
  <2>3. t.peers \in Seq(Peer) /\ Len(t.peers) = Len(s.peers)
    BY <1>1, <2>1, <2>2
  <2> QED
    BY <1>1, <1>4, <2>1, <2>3 DEF Socket
<1> HIDE DEF t, u, v
<1>6. Occupied(t) = Occupied(s) \ {k}
  BY <1>5 DEF Occupied
<1>7. OwnsTasks(t)
  <2>1. \A j \in Occupied(t) : PointsToTasks(t, j)
    <3> SUFFICES ASSUME NEW j \in Occupied(t) PROVE PointsToTasks(t, j)
      OBVIOUS
    <3>1. /\ PointsToTasks(s, j) /\ t.peers[j] = s.peers[j]
      BY <1>1, <1>5, <1>6 DEF OwnsTasks, Occupied
    <3> QED
      BY <1>4, <1>5, <3>1 DEF PointsToTasks, SameTasks
  <2>2. \A i \in DOMAIN t.tasks :
          Armed(t.tasks[i]) /\ t.tasks[i].callback # "reestablish" =>
              \E j \in Occupied(t) :
                  i \in {t.peers[j].ping_task, t.peers[j].comm_lost_task}
    <3> SUFFICES ASSUME NEW i \in DOMAIN t.tasks, Armed(t.tasks[i]),
                        t.tasks[i].callback # "reestablish"
                 PROVE  \E j \in Occupied(t) :
                            i \in {t.peers[j].ping_task, t.peers[j].comm_lost_task}
      OBVIOUS
    <3>1. i \in DOMAIN s.tasks \ {p.ping_task, p.comm_lost_task}
      BY <1>4, <1>5 DEF SameTasks
    <3>2. Armed(s.tasks[i]) /\ s.tasks[i].callback # "reestablish"
      BY <1>4, <1>5, <3>1
    <3>3. PICK j \in Occupied(s) :
              i \in {s.peers[j].ping_task, s.peers[j].comm_lost_task}
      BY <1>1, <3>1, <3>2 DEF OwnsTasks
    <3>4. j # k
      BY <3>1, <3>3
    <3>5. j \in Occupied(t) /\ t.peers[j] = s.peers[j]
      BY <1>5, <1>6, <3>3, <3>4 DEF Occupied
    <3> QED
      BY <3>3, <3>5
  <2> QED
    BY <1>1, <1>5, <1>6, <2>1, <2>2 DEF OwnsTasks, Occupied
<1>8. ASSUME NEW q \in Remote, NEW callbacks, Pending(s, q, callbacks),
             q # p.remote \/ callbacks = {"reestablish"}
      PROVE  Pending(t, q, callbacks)
  BY <1>1, <1>2, <1>4, <1>5, <1>8 DEF Pending, PointsToTasks, SameTasks
<1>9. KeepsWatched(s, t, p.remote)
  BY <1>5, <1>8 DEF KeepsWatched, Watched, Full
<1>10. LossesKept(s, t)
  <2>1. ASSUME NEW i \in Losses(t)
        PROVE  i \in Losses(s) /\ t.tasks[i] = s.tasks[i]
    <3>1. i \in DOMAIN s.tasks /\ Armed(v[i]) /\ v[i].callback = "commLost"
      BY <1>4, <1>5 DEF Losses, SameTasks
    <3>2. v[i] = s.tasks[i]
      BY <1>4, <3>1
    <3> QED
      BY <1>5, <3>1, <3>2 DEF Losses
  <2> QED
    BY <2>1 DEF LossesKept
<1>11. AllSlotsKept(s, t)
  BY <1>5 DEF AllSlotsKept, Slots
<1>12. LossDelays(t)
  BY <1>4, <1>5, DelaysKept DEF SocketOK
<1> QED
  BY <1>5, <1>7, <1>8, <1>9, <1>10, <1>11, <1>12 DEF SocketOK, t

\* A task that stays armed keeps its remote watched.
LEMMA WatchedKept ==
    ASSUME NEW s, NEW t, t.peers = s.peers, SameTasks(s.tasks, t.tasks),
           NEW r \in Remote,
           \A i \in DOMAIN s.tasks :
               Armed(s.tasks[i]) /\ s.tasks[i].params = r /\
               s.tasks[i].callback \in {"commLost", "reestablish"} => Armed(t.tasks[i])
    PROVE  Watched(s, r) => Watched(t, r)
BY DEF Watched, Pending, Full, SameTasks

\* resetTasks arms the tasks of slot k and leaves the others alone.
LEMMA ResetTasks ==
    ASSUME NEW s, SocketOK(s), NEW k \in Occupied(s)
    PROVE  /\ SocketOK(resetTasks(s, k))
           /\ KeepsAllWatched(s, resetTasks(s, k))
           /\ Watched(resetTasks(s, k), s.peers[k].remote)
           /\ LossesKept(s, resetTasks(s, k)) /\ AllSlotsKept(s, resetTasks(s, k))
           /\ Single(s, s.peers[k].remote) => Fresh(resetTasks(s, k), s.peers[k].remote)
<1> DEFINE p == s.peers[k]
           u == resetTask(s.tasks, p.ping_task)
           v == resetTask(u, p.comm_lost_task)
           t == resetTasks(s, k)
<1>1. /\ s \in Socket /\ s.tasks \in Seq(Task) /\ OwnsTasks(s) /\ PointsToTasks(s, k)
  BY DEF SocketOK, Socket, OwnsTasks
<1>2. /\ p.ping_task \in DOMAIN s.tasks /\ p.comm_lost_task \in DOMAIN s.tasks
      /\ p.ping_task # p.comm_lost_task
  BY <1>1 DEF PointsToTasks
<1>3. /\ u \in Seq(Task) /\ SameTasks(s.tasks, u)
      /\ \A j \in DOMAIN s.tasks \ {p.ping_task} : u[j] = s.tasks[j]
  BY <1>1, <1>2, ResetTask
<1>4. /\ v \in Seq(Task) /\ SameTasks(s.tasks, v)
      /\ \A j \in DOMAIN s.tasks \ {p.ping_task, p.comm_lost_task} : v[j] = s.tasks[j]
      /\ Armed(v[p.comm_lost_task])
      /\ v[p.comm_lost_task].wait = s.tasks[p.comm_lost_task].delay
  <2>1. p.comm_lost_task \in DOMAIN u
    BY <1>2, <1>3 DEF SameTasks
  <2>2. /\ v \in Seq(Task) /\ SameTasks(u, v)
        /\ \A j \in DOMAIN u \ {p.comm_lost_task} : v[j] = u[j]
        /\ Armed(v[p.comm_lost_task])
        /\ v[p.comm_lost_task].wait = u[p.comm_lost_task].delay
    BY <1>3, <2>1, ResetTask
  <2> QED
    BY <1>2, <1>3, <2>2 DEF SameTasks
<1>5. /\ t.tasks = v /\ t.peers = s.peers /\ t \in Socket
  <2>1. t = [s EXCEPT !.tasks = v]
    BY DEF resetTasks
  <2> HIDE DEF v
  <2> QED
    BY <1>1, <1>4, <2>1 DEF Socket
<1> HIDE DEF t, u, v
<1>6. OwnsTasks(t)
  BY <1>1, <1>4, <1>5, OwnsKept
<1>7. Watched(t, p.remote)
  BY <1>1, <1>2, <1>4, <1>5 DEF Watched, Pending, PointsToTasks, SameTasks
<1>8. \A i \in DOMAIN s.tasks :
         Armed(s.tasks[i]) /\ s.tasks[i].callback \in {"commLost", "reestablish"} =>
             Armed(t.tasks[i])
  BY <1>1, <1>4, <1>5 DEF PointsToTasks
<1>9. KeepsAllWatched(s, t)
  BY <1>4, <1>5, <1>8, WatchedKept DEF KeepsAllWatched
<1>10. LossDelays(t)
  BY <1>4, <1>5, DelaysKept DEF SocketOK
<1>11. t.tasks[p.comm_lost_task].wait = LostDelay
  BY <1>1, <1>2, <1>4, <1>5 DEF SocketOK, LossDelays, PointsToTasks
<1>12. ASSUME NEW i \in Losses(t), i # p.comm_lost_task
       PROVE  i \in Losses(s) /\ t.tasks[i] = s.tasks[i]
  <2>1. i \in DOMAIN s.tasks /\ s.tasks[i].callback = "commLost"
    BY <1>4, <1>5 DEF Losses, SameTasks
  <2>2. i # p.ping_task
    BY <1>1, <2>1 DEF PointsToTasks
  <2>3. t.tasks[i] = s.tasks[i]
    BY <1>4, <1>5, <1>12, <2>1, <2>2
  <2> QED
    BY <2>1, <2>3 DEF Losses
<1>13. LossesKept(s, t)
  BY <1>11, <1>12 DEF LossesKept
<1>14. AllSlotsKept(s, t)
  BY <1>5, SlotsSame
\* All comm lost tasks of a single slot are its own.
<1>15. ASSUME Single(s, p.remote) PROVE Fresh(t, p.remote)
  <2>1. SUFFICES ASSUME NEW i \in Losses(t), t.tasks[i].params = p.remote,
                        i # p.comm_lost_task
                 PROVE  FALSE
    BY <1>11 DEF Fresh
  <2>2. i \in Losses(s) /\ s.tasks[i].params = p.remote
    BY <1>12, <2>1
  <2>3. PICK j \in Slots(s, p.remote) : i = s.peers[j].comm_lost_task
    BY <2>2, LossHasSlot
  <2>4. k \in Slots(s, p.remote)
    BY DEF Slots, Occupied
  <2>5. j = k
    BY <1>15, <2>3, <2>4 DEF Single
  <2> QED
    BY <2>1, <2>3, <2>5
<1> QED
  BY <1>5, <1>6, <1>7, <1>9, <1>10, <1>13, <1>14, <1>15 DEF SocketOK, t

\* handleCommUpUdp makes a slot with armed tasks, or finds the table full.
LEMMA CommUp ==
    ASSUME NEW s, SocketOK(s), NEW r \in Remote
    PROVE  /\ SocketOK(handleCommUpUdp(s, r))
           /\ KeepsAllWatched(s, handleCommUpUdp(s, r))
           /\ Watched(handleCommUpUdp(s, r), r)
           /\ LossesKept(s, handleCommUpUdp(s, r)) /\ SlotsKept(s, handleCommUpUdp(s, r), r)
           /\ Full(s) => handleCommUpUdp(s, r) = s
           /\ Slots(s, r) = {} \/ ~Full(s) =>
                 (Single(handleCommUpUdp(s, r), r) => Fresh(handleCommUpUdp(s, r), r))
<1>0. Slots(s, r) = {} => Fresh(s, r)
  BY LossHasSlot DEF Fresh
<1>1. CASE Full(s)
  <2>1. handleCommUpUdp(s, r) = s
    BY <1>1 DEF handleCommUpUdp, Full
  <2> QED
    BY <1>0, <1>1, <2>1 DEF KeepsAllWatched, Watched, LossesKept, SlotsKept
<1>2. CASE ~Full(s)
  <2> DEFINE n == Len(s.tasks)
             p == [remote |-> r, ping_task |-> n + 1, comm_lost_task |-> n + 2]
             u == scheduleTask(s.tasks, PingTask(r))
             v == scheduleTask(u, CommLostTask(r))
             t == handleCommUpUdp(s, r)
  <2>1. /\ s \in Socket /\ s.tasks \in Seq(Task) /\ s.peers \in Seq(Peer) /\ n \in Nat
        /\ OwnsTasks(s)
    BY DEF SocketOK, Socket
  <2>2. /\ u \in Seq(Task) /\ DOMAIN u = DOMAIN s.tasks \cup {n + 1} /\ Len(u) = n + 1
        /\ \A i \in DOMAIN s.tasks : u[i] = s.tasks[i]
        /\ u[n + 1] = PingTask(r) /\ n + 1 \notin DOMAIN s.tasks
    <3>1. PingTask(r) \in Task
      BY NewTasks
    <3> QED
      BY <2>1, <3>1, ScheduleTask
  <2>3. /\ v \in Seq(Task) /\ DOMAIN v = DOMAIN s.tasks \cup {n + 1, n + 2}
        /\ \A i \in DOMAIN s.tasks : v[i] = s.tasks[i]
        /\ v[n + 1] = PingTask(r) /\ v[n + 2] = CommLostTask(r)
        /\ {n + 1, n + 2} \cap DOMAIN s.tasks = {} /\ n + 1 # n + 2
    <3>0. CommLostTask(r) \in Task
      BY NewTasks
    <3>1. /\ v \in Seq(Task) /\ DOMAIN v = DOMAIN u \cup {Len(u) + 1}
          /\ \A i \in DOMAIN u : v[i] = u[i]
          /\ v[Len(u) + 1] = CommLostTask(r) /\ Len(u) + 1 \notin DOMAIN u
      <4>1. u \in Seq(Task)
        BY <2>2
      <4> HIDE DEF u
      <4>2. IsScheduled(scheduleTask(u, CommLostTask(r)), u, CommLostTask(r))
        BY <4>1, <3>0, Scheduled
      <4> QED
        BY <4>2 DEF IsScheduled
    <3>2. Len(u) + 1 = n + 2
      BY <2>1, <2>2
    <3> QED
      BY <2>1, <2>2, <3>1, <3>2
  <2>4. t.peers = Append(s.peers, p) /\ t.tasks = v
        /\ t = [peers |-> Append(s.peers, p), tasks |-> v]
    BY <1>2 DEF handleCommUpUdp, Full
  <2>5. p \in Peer
    BY <2>1 DEF Peer
  <2> HIDE DEF u, v, t
  <2> DEFINE m == Len(s.peers) + 1
  <2>6. /\ t.peers \in Seq(Peer) /\ Len(t.peers) = m /\ m \notin DOMAIN s.peers
        /\ DOMAIN t.peers = DOMAIN s.peers \cup {m} /\ t.peers[m] = p
        /\ \A k \in DOMAIN s.peers : t.peers[k] = s.peers[k]
        /\ Len(s.peers) \in Nat
    BY <2>1, <2>4, <2>5
  <2> HIDE DEF m
  <2>7. t \in Socket
    <3>1. Len(t.peers) <= peers_max_count
      BY <1>2, <2>6 DEF Full, m
    <3> QED
      BY <2>3, <2>4, <2>6, <3>1 DEF Socket
  <2>8. /\ Occupied(t) = Occupied(s) \cup {m} /\ m \notin Occupied(s)
        /\ \A k \in Occupied(s) : t.peers[k] = s.peers[k]
    <3>1. p.remote # NoRemote
      OBVIOUS
    <3> QED
      BY <2>6, <3>1 DEF Occupied
  <2>9. \A k \in Occupied(s) : PointsToTasks(s, k) /\ PointsToTasks(t, k)
    <3>1. \A k \in Occupied(s) : PointsToTasks(s, k)
      BY <2>1 DEF OwnsTasks
    <3> QED
      <4> SUFFICES ASSUME NEW k \in Occupied(s) PROVE PointsToTasks(t, k)
        BY <3>1
      <4>1. PointsToTasks(s, k) /\ t.peers[k] = s.peers[k]
        BY <2>8, <3>1
      <4> QED
        BY <2>3, <2>4, <4>1 DEF PointsToTasks
  <2>10. PointsToTasks(t, m)
    BY <2>3, <2>4, <2>6, NewTasks DEF PointsToTasks
  <2>11. \A j, k \in Occupied(t) : j # k =>
            /\ t.peers[j].ping_task # t.peers[k].ping_task
            /\ t.peers[j].comm_lost_task # t.peers[k].comm_lost_task
    <3>1. \A k \in Occupied(s) : /\ t.peers[k].ping_task # n + 1
                                 /\ t.peers[k].comm_lost_task # n + 2
      BY <2>3, <2>8, <2>9 DEF PointsToTasks
    <3> QED
      BY <2>1, <2>6, <2>8, <3>1 DEF OwnsTasks
  <2>12. \A i \in DOMAIN t.tasks :
            Armed(t.tasks[i]) /\ t.tasks[i].callback # "reestablish" =>
                \E k \in Occupied(t) :
                    i \in {t.peers[k].ping_task, t.peers[k].comm_lost_task}
    <3> SUFFICES ASSUME NEW i \in DOMAIN t.tasks, Armed(t.tasks[i]),
                        t.tasks[i].callback # "reestablish"
                 PROVE  \E k \in Occupied(t) :
                            i \in {t.peers[k].ping_task, t.peers[k].comm_lost_task}
      OBVIOUS
    <3>1. CASE i \in DOMAIN s.tasks
      <4>1. t.tasks[i] = s.tasks[i]
        BY <2>3, <2>4, <3>1
      <4>2. PICK k \in Occupied(s) :
                i \in {s.peers[k].ping_task, s.peers[k].comm_lost_task}
        BY <2>1, <3>1, <4>1 DEF OwnsTasks
      <4> QED
        BY <2>8, <4>2
    <3>2. CASE i \in {n + 1, n + 2}
      <4>1. i \in {p.ping_task, p.comm_lost_task}
        BY <3>2
      <4> QED
        BY <2>6, <2>8, <4>1
    <3> QED
      BY <2>3, <2>4, <3>1, <3>2
  <2>13. OwnsTasks(t)
    BY <2>8, <2>9, <2>10, <2>11, <2>12 DEF OwnsTasks
  <2>14. Watched(t, r)
    BY <2>3, <2>4, NewTasks DEF Watched, Pending
  <2>15. KeepsAllWatched(s, t)
    BY <1>2, <2>3, <2>4 DEF KeepsAllWatched, Watched, Pending
  <2>16. LossDelays(t)
    <3> SUFFICES ASSUME NEW i \in DOMAIN t.tasks, t.tasks[i].callback = "commLost"
                 PROVE  t.tasks[i].delay = LostDelay
      BY DEF LossDelays
    <3>1. CASE i \in DOMAIN s.tasks
      BY <2>3, <2>4, <3>1 DEF SocketOK, LossDelays
    <3>2. CASE i \in {n + 1, n + 2}
      BY <2>3, <2>4, <3>2, NewTasks
    <3> QED
      BY <2>3, <2>4, <3>1, <3>2
  <2>17. ASSUME NEW i \in Losses(t)
         PROVE  \/ i \in Losses(s) /\ t.tasks[i] = s.tasks[i]
                \/ t.tasks[i].wait = LostDelay
    <3>1. CASE i \in DOMAIN s.tasks
      BY <2>3, <2>4, <3>1 DEF Losses
    <3>2. CASE i \in {n + 1, n + 2}
      BY <2>3, <2>4, <3>2, NewTasks DEF Losses
    <3> QED
      BY <2>3, <2>4, <3>1, <3>2 DEF Losses
  <2>18. LossesKept(s, t)
    BY <2>17 DEF LossesKept
  <2>19. Slots(t, r) = Slots(s, r) \cup {m} /\ m \notin Slots(s, r) /\ SlotsKept(s, t, r)
    <3>1. p.remote = r
      OBVIOUS
    <3> QED
      BY <2>6, <3>1 DEF Slots, SlotsKept
  <2>20. Single(t, r) => Fresh(t, r)
    <3> SUFFICES ASSUME Single(t, r) PROVE Fresh(t, r)
      OBVIOUS
    <3>1. Slots(s, r) = {}
      BY <2>19 DEF Single
    <3> QED
      BY <1>0, <2>17, <3>1 DEF Fresh
  <2> QED
    BY <1>2, <2>7, <2>13, <2>14, <2>15, <2>16, <2>18, <2>19, <2>20 DEF SocketOK, t
<1> QED
  BY <1>1, <1>2

\* A scheduled reestablishment keeps its remote watched.
LEMMA Reestablishment ==
    ASSUME NEW s, SocketOK(s), NEW r \in Remote
    PROVE  LET t == scheduleReestablishment(s, r)
           IN  /\ SocketOK(t)
               /\ t.peers = s.peers
               /\ KeepsAllWatched(s, t)
               /\ Pending(t, r, {"reestablish"})
               /\ LossesKept(s, t)
<1> DEFINE n == Len(s.tasks) + 1
           v == scheduleTask(s.tasks, ReestablishTask(r))
           t == scheduleReestablishment(s, r)
<1>1. s \in Socket /\ s.tasks \in Seq(Task) /\ OwnsTasks(s)
  BY DEF SocketOK, Socket
<1>2. /\ v \in Seq(Task) /\ DOMAIN v = DOMAIN s.tasks \cup {n}
      /\ \A i \in DOMAIN s.tasks : v[i] = s.tasks[i]
      /\ v[n] = ReestablishTask(r)
  <2>1. ReestablishTask(r) \in Task
    BY NewTasks
  <2> QED
    BY <1>1, <2>1, ScheduleTask
<1>3. t.peers = s.peers /\ t.tasks = v /\ t \in Socket
  <2>1. t = [s EXCEPT !.tasks = v]
    BY DEF scheduleReestablishment
  <2> HIDE DEF v
  <2> QED
    BY <1>1, <1>2, <2>1 DEF Socket
<1> HIDE DEF t, v, n
<1>4. Occupied(t) = Occupied(s)
  BY <1>3 DEF Occupied
<1>5. \A k \in Occupied(t) : PointsToTasks(t, k)
  <2> SUFFICES ASSUME NEW k \in Occupied(t) PROVE PointsToTasks(t, k)
    OBVIOUS
  <2>1. PointsToTasks(s, k)
    BY <1>1, <1>4 DEF OwnsTasks
  <2> QED
    BY <1>2, <1>3, <2>1 DEF PointsToTasks
<1>6. v[n].callback = "reestablish" /\ v[n].params = r /\ Armed(v[n])
  BY <1>2, NewTasks
<1>7. OwnsTasks(t)
  <2>1. \A i \in DOMAIN t.tasks :
          Armed(t.tasks[i]) /\ t.tasks[i].callback # "reestablish" =>
              \E k \in Occupied(t) :
                  i \in {t.peers[k].ping_task, t.peers[k].comm_lost_task}
    BY <1>1, <1>2, <1>3, <1>4, <1>6 DEF OwnsTasks
  <2> QED
    BY <1>1, <1>3, <1>4, <1>5, <2>1 DEF OwnsTasks
<1>8. KeepsAllWatched(s, t)
  BY <1>2, <1>3 DEF KeepsAllWatched, Watched, Pending, Full
<1>9. Pending(t, r, {"reestablish"})
  BY <1>2, <1>3, <1>6 DEF Pending
<1>10. LossDelays(t)
  BY <1>2, <1>3, <1>6 DEF SocketOK, LossDelays
<1>11. LossesKept(s, t)
  BY <1>2, <1>3, <1>6 DEF LossesKept, Losses
<1> QED
  BY <1>3, <1>7, <1>8, <1>9, <1>10, <1>11 DEF SocketOK, t

\* commLost removes one slot of r and leaves r to be reestablished.
LEMMA CommLost ==
    ASSUME NEW s, SocketOK(s), NEW r \in Remote, findPeerByRemote(s, r) # NULL
    PROVE  /\ SocketOK(handleCommLostUdp(s, r))
           /\ KeepsAllWatched(s, handleCommLostUdp(s, r))
           /\ Watched(handleCommLostUdp(s, r), r)
           /\ LossesKept(s, handleCommLostUdp(s, r)) /\ AllSlotsKept(s, handleCommLostUdp(s, r))
<1> DEFINE k == findPeerByRemote(s, r)
           u == scheduleReestablishment(s, r)
           t == removePeer(u, k)
<1>1. /\ SocketOK(u) /\ u.peers = s.peers /\ KeepsAllWatched(s, u)
      /\ Pending(u, r, {"reestablish"}) /\ LossesKept(s, u)
  BY Reestablishment
<1>2. k \in Occupied(u) /\ u.peers[k].remote = r
  <2>1. s \in Socket
    BY DEF SocketOK
  <2>2. k \in Slots(s, r) /\ Slots(s, r) \subseteq Occupied(s)
    BY <2>1, FindPeer
  <2> QED
    BY <1>1, <2>2 DEF Slots, Occupied
<1>3. t = handleCommLostUdp(s, r)
  BY DEF handleCommLostUdp
<1> HIDE DEF k, u
<1>4. /\ SocketOK(t) /\ KeepsWatched(u, t, r)
      /\ \A q \in Remote : Pending(u, q, {"reestablish"}) => Pending(t, q, {"reestablish"})
      /\ LossesKept(u, t) /\ AllSlotsKept(u, t)
  BY <1>1, <1>2, RemovePeer
<1>5. Watched(t, r)
  BY <1>1, <1>4 DEF Watched, Pending
<1>6. KeepsAllWatched(s, t)
  BY <1>1, <1>4, <1>5 DEF KeepsAllWatched, KeepsWatched
<1>7. LossesKept(s, t)
  BY <1>1, <1>4, KeptTwice
<1>8. AllSlotsKept(s, t)
  BY <1>1, <1>4 DEF AllSlotsKept, Slots
<1> QED
  BY <1>3, <1>4, <1>5, <1>6, <1>7, <1>8

\* A datagram other than the quit message leaves its sender watched; whatever it is,
\* it changes nothing for the other remotes.
LEMMA HandleMessage ==
    ASSUME NEW s, SocketOK(s), NEW r \in Remote, NEW msg,
           ~QuitFromStranger(s, r, msg)
    PROVE  /\ SocketOK(handleMessageUdp(s, r, msg))
           /\ KeepsWatched(s, handleMessageUdp(s, r, msg), r)
           /\ msg # "q" => Watched(handleMessageUdp(s, r, msg), r)
           /\ LossesKept(s, handleMessageUdp(s, r, msg))
           /\ SlotsKept(s, handleMessageUdp(s, r, msg), r)
           /\ msg # "q" => (Single(handleMessageUdp(s, r, msg), r) =>
                               Fresh(handleMessageUdp(s, r, msg), r))
<1> DEFINE k == findPeerByRemote(s, r)
<1>1. ASSUME k # NULL PROVE k \in Occupied(s) /\ s.peers[k].remote = r
  <2>1. s \in Socket
    BY DEF SocketOK
  <2>2. k \in Slots(s, r) /\ Slots(s, r) \subseteq Occupied(s)
    BY <1>1, <2>1, FindPeer
  <2> QED
    BY <2>2 DEF Slots
<1> HIDE DEF k
<1>2. CASE msg = "q"
  <2>1. k # NULL
    BY <1>2 DEF QuitFromStranger, k
  <2>2. handleMessageUdp(s, r, msg) = removePeer(s, k)
    BY <1>2 DEF handleMessageUdp, k
  <2> QED
    BY <1>1, <1>2, <2>1, <2>2, RemovePeer DEF AllSlotsKept, SlotsKept
<1>3. CASE msg # "q" /\ k # NULL
  <2>1. handleMessageUdp(s, r, msg) = resetTasks(s, k)
    BY <1>3 DEF handleMessageUdp, k
  <2>2. k \in Occupied(s) /\ s.peers[k].remote = r
    BY <1>1, <1>3
  <2>3. /\ SocketOK(resetTasks(s, k)) /\ KeepsAllWatched(s, resetTasks(s, k))
        /\ Watched(resetTasks(s, k), r) /\ LossesKept(s, resetTasks(s, k))
        /\ AllSlotsKept(s, resetTasks(s, k))
        /\ Single(s, r) => Fresh(resetTasks(s, k), r)
    BY <2>2, ResetTasks
  <2>4. Single(resetTasks(s, k), r) => Single(s, r)
    <3>1. resetTasks(s, k).peers = s.peers
      BY DEF resetTasks, SocketOK, Socket
    <3> QED
      BY <3>1 DEF Single, Slots
  <2> QED
    BY <2>1, <2>3, <2>4 DEF KeepsWatched, KeepsAllWatched, AllSlotsKept, SlotsKept
<1>4. CASE msg # "q" /\ k = NULL
  <2>1. handleMessageUdp(s, r, msg) = handleCommUpUdp(s, r)
    BY <1>4 DEF handleMessageUdp, k
  <2>2. Slots(s, r) = {}
    BY <1>4, FindPeer DEF k, SocketOK
  <2> QED
    BY <2>1, <2>2, CommUp DEF KeepsWatched, KeepsAllWatched
<1> QED
  BY <1>2, <1>3, <1>4

\* The slot that owns an armed comm lost task is there to be found.
LEMMA ArmedLossFindsPeer ==
    ASSUME NEW s, SocketOK(s), NEW i \in DOMAIN s.tasks, Armed(s.tasks[i])
    PROVE  CallbackFindsPeer(s, i)
<1> SUFFICES ASSUME s.tasks[i].callback = "commLost"
             PROVE  findPeerByRemote(s, s.tasks[i].params) # NULL
  BY DEF CallbackFindsPeer
<1>1. s \in Socket /\ s.tasks[i] \in Task /\ OwnsTasks(s)
  BY DEF SocketOK, Socket
<1>2. PICK k \in Occupied(s) : i \in {s.peers[k].ping_task, s.peers[k].comm_lost_task}
  BY <1>1 DEF OwnsTasks
<1>3. s.tasks[i].params = s.peers[k].remote
  BY <1>1, <1>2 DEF OwnsTasks, PointsToTasks
<1>4. Slots(s, s.tasks[i].params) # {}
  BY <1>2, <1>3 DEF Slots, Occupied
<1>5. s.tasks[i].params \in Remote
  BY <1>1 DEF Task
<1> QED
  BY <1>1, <1>4, <1>5, FindPeer

\* A tick changes nothing but how long the tasks still wait.
LEMMA ElapsedSocket ==
    ASSUME NEW s, SocketOK(s)
    PROVE  /\ SocketOK([s EXCEPT !.tasks = Elapsed(s.tasks)])
           /\ KeepsAllWatched(s, [s EXCEPT !.tasks = Elapsed(s.tasks)])
           /\ AllSlotsKept(s, [s EXCEPT !.tasks = Elapsed(s.tasks)])
           /\ \A i \in Losses([s EXCEPT !.tasks = Elapsed(s.tasks)]) :
                 LET was == s.tasks[i]
                     is == Elapsed(s.tasks)[i]
                 IN  /\ i \in Losses(s) /\ is.params = was.params
                     /\ was.wait > 0 => is.wait = was.wait - 1
<1> DEFINE u == Elapsed(s.tasks)
           t == [s EXCEPT !.tasks = u]
<1>1. s \in Socket /\ s.tasks \in Seq(Task) /\ OwnsTasks(s)
  BY DEF SocketOK, Socket
<1>2. /\ u \in Seq(Task) /\ SameTasks(s.tasks, u)
      /\ \A i \in DOMAIN s.tasks : /\ u[i].left = s.tasks[i].left
                                   /\ Armed(s.tasks[i]) /\ s.tasks[i].wait > 0 =>
                                         u[i].wait = s.tasks[i].wait - 1
  BY <1>1, ElapsedTasks
<1> HIDE DEF u
<1>3. t.tasks = u /\ t.peers = s.peers /\ t \in Socket
  BY <1>1, <1>2 DEF Socket
<1> HIDE DEF t
<1>4. OwnsTasks(t)
  BY <1>1, <1>2, <1>3, OwnsKept DEF Armed
<1>5. KeepsAllWatched(s, t)
  <2>1. \A i \in DOMAIN s.tasks : Armed(s.tasks[i]) => Armed(t.tasks[i])
    BY <1>2, <1>3 DEF Armed
  <2>2. ASSUME NEW q \in Remote PROVE Watched(s, q) => Watched(t, q)
    BY <1>2, <1>3, <2>1, WatchedKept
  <2> QED
    BY <2>2 DEF KeepsAllWatched
<1>6. LossDelays(t) /\ AllSlotsKept(s, t)
  BY <1>2, <1>3, DelaysKept, SlotsSame DEF SocketOK
<1>7. ASSUME NEW i \in Losses(t)
      PROVE  /\ i \in Losses(s) /\ u[i].params = s.tasks[i].params
             /\ s.tasks[i].wait > 0 => u[i].wait = s.tasks[i].wait - 1
  <2>1. i \in DOMAIN s.tasks /\ Armed(u[i]) /\ u[i].callback = "commLost"
    BY <1>2, <1>3 DEF Losses, SameTasks
  <2>2. /\ u[i].callback = s.tasks[i].callback /\ u[i].params = s.tasks[i].params
        /\ u[i].left = s.tasks[i].left
    BY <1>2, <2>1 DEF SameTasks
  <2>3. Armed(s.tasks[i])
    BY <2>1, <2>2 DEF Armed
  <2> QED
    BY <1>2, <2>1, <2>2, <2>3 DEF Losses
<1> QED
  BY <1>3, <1>4, <1>5, <1>6, <1>7 DEF SocketOK, t, u

\* A due task runs: whatever its callback does, no remote stops being watched.
LEMMA LaunchTask ==
    ASSUME NEW s, SocketOK(s), NEW i \in DOMAIN s.tasks, Due(s.tasks[i])
    PROVE  /\ SocketOK(launchTask(s, i))
           /\ KeepsAllWatched(s, launchTask(s, i))
           /\ s.tasks[i].callback = "reestablish" =>
                 Watched(launchTask(s, i), s.tasks[i].params)
           /\ LossesKept(s, launchTask(s, i))
           /\ SlotsKept(s, launchTask(s, i), s.tasks[i].params)
           /\ LET r == s.tasks[i].params
                  t == launchTask(s, i)
              IN  Slots(s, r) = {} /\ Slots(t, r) # {} /\ Single(t, r) => Fresh(t, r)
<1> DEFINE r == s.tasks[i].params
           u == Launched(s.tasks, i)
           l == [s EXCEPT !.tasks = u]
           t == launchTask(s, i)
<1>1. s \in Socket /\ s.tasks \in Seq(Task) /\ s.tasks[i] \in Task /\ OwnsTasks(s)
  BY DEF SocketOK, Socket
<1>2. /\ u \in Seq(Task) /\ SameTasks(s.tasks, u)
      /\ \A j \in DOMAIN s.tasks \ {i} : u[j] = s.tasks[j]
      /\ u[i].wait = s.tasks[i].delay
  BY <1>1, LaunchedTask
<1>r. r \in Remote /\ Armed(s.tasks[i])
  BY <1>1 DEF Task, Due, Armed
<1> HIDE DEF u
<1>3. l.tasks = u /\ l.peers = s.peers /\ l \in Socket
  BY <1>1, <1>2 DEF Socket
<1>4. SocketOK(l)
  <2> HIDE DEF l
  <2>1. LossDelays(l)
    BY <1>2, <1>3, DelaysKept DEF SocketOK
  <2> QED
    BY <1>1, <1>2, <1>3, <1>r, <2>1, OwnsKept DEF SocketOK
<1>a. AllSlotsKept(s, l) /\ \A q : Slots(l, q) = Slots(s, q)
  <2> HIDE DEF l
  <2> QED
    BY <1>3, SlotsSame
\* The task that runs waits from now on for its whole delay.
<1>b. LossesKept(s, l)
  <2> HIDE DEF l
  <2>1. ASSUME NEW j \in Losses(l)
        PROVE  \/ l.tasks[j].wait = LostDelay
               \/ j \in Losses(s) /\ l.tasks[j] = s.tasks[j]
    <3>1. j \in DOMAIN s.tasks /\ s.tasks[j].callback = "commLost"
      BY <1>2, <1>3 DEF Losses, SameTasks
    <3>2. CASE j = i
      BY <1>2, <1>3, <3>1, <3>2 DEF SocketOK, LossDelays
    <3>3. CASE j # i
      <4>1. l.tasks[j] = s.tasks[j]
        BY <1>2, <1>3, <3>1, <3>3
      <4> QED
        BY <3>1, <4>1 DEF Losses
    <3> QED
      BY <3>2, <3>3
  <2> QED
    BY <2>1 DEF LossesKept
<1>5. /\ KeepsWatched(s, l, r)
      /\ s.tasks[i].callback = "ping" => KeepsAllWatched(s, l)
  <2> HIDE DEF l
  <2>1. ASSUME NEW q \in Remote, q # r \/ s.tasks[i].callback = "ping"
        PROVE  Watched(s, q) => Watched(l, q)
    <3>1. l.peers = s.peers /\ SameTasks(s.tasks, l.tasks)
      BY <1>2, <1>3
    <3>2. \A j \in DOMAIN s.tasks :
             Armed(s.tasks[j]) /\ s.tasks[j].params = q /\
             s.tasks[j].callback \in {"commLost", "reestablish"} => Armed(l.tasks[j])
      BY <1>2, <1>3, <2>1
    <3> QED
      BY <3>1, <3>2, WatchedKept
  <2> QED
    BY <2>1 DEF KeepsWatched, KeepsAllWatched
<1>6. CASE s.tasks[i].callback = "ping"
  <2>1. t = l
    BY <1>6 DEF launchTask, u
  <2> HIDE DEF l, r, t
  <2>2. SlotsKept(s, t, r) /\ Slots(t, r) = Slots(s, r)
    BY <1>a, <2>1 DEF AllSlotsKept, SlotsKept
  <2> QED
    BY <1>4, <1>5, <1>6, <1>b, <2>1, <2>2 DEF t, r
<1>7. CASE s.tasks[i].callback = "commLost"
  <2>1. t = handleCommLostUdp(l, r)
    BY <1>7 DEF launchTask, u
  <2>2. findPeerByRemote(l, r) # NULL
    <3>1. findPeerByRemote(s, r) # NULL
      BY <1>7, <1>r, ArmedLossFindsPeer DEF CallbackFindsPeer
    <3> QED
      BY <1>3, <3>1 DEF findPeerByRemote
  <2> HIDE DEF l, r, t
  <2>3. /\ SocketOK(t) /\ KeepsAllWatched(l, t) /\ Watched(t, r)
        /\ LossesKept(l, t) /\ AllSlotsKept(l, t)
    BY <1>4, <1>r, <2>1, <2>2, CommLost
  <2>4. LossesKept(s, t)
    BY <1>b, <2>3, KeptTwice
  <2>5. AllSlotsKept(s, t)
    BY <1>a, <2>3 DEF AllSlotsKept
  <2>6. SlotsKept(s, t, r) /\ Slots(t, r) \subseteq Slots(s, r)
    BY <1>r, <2>5 DEF AllSlotsKept, SlotsKept
  <2>7. KeepsAllWatched(s, t)
    BY <1>5, <2>3 DEF KeepsWatched, KeepsAllWatched
  <2> QED
    BY <1>7, <2>3, <2>4, <2>6, <2>7 DEF t, r
<1>8. CASE s.tasks[i].callback = "reestablish"
  <2>1. t = handleCommUpUdp(l, r)
    BY <1>8 DEF launchTask, u, reestablish, connectFirst
  <2> HIDE DEF l, r, t
  <2>2. /\ SocketOK(t) /\ KeepsAllWatched(l, t) /\ Watched(t, r)
        /\ LossesKept(l, t) /\ SlotsKept(l, t, r)
        /\ Slots(l, r) = {} => (Single(t, r) => Fresh(t, r))
    BY <1>4, <1>r, <2>1, CommUp
  <2>3. LossesKept(s, t)
    BY <1>b, <2>2, KeptTwice
  <2>4. SlotsKept(s, t, r)
    BY <1>a, <2>2 DEF SlotsKept
  <2>5. Slots(s, r) = {} => (Single(t, r) => Fresh(t, r))
    BY <1>a, <2>2
  <2>6. KeepsAllWatched(s, t)
    BY <1>5, <2>2 DEF KeepsWatched, KeepsAllWatched
  <2> QED
    BY <2>2, <2>3, <2>4, <2>5, <2>6 DEF t, r
<1> QED
  BY <1>1, <1>6, <1>7, <1>8 DEF Task

------------------------------------------------------------------------------
\* What the endpoint does with them.

USE RemotesAssumption

\* What every step keeps: the types, the ownership of tasks and that no known
\* remote is forgotten.  The last needs the second: a slot that is removed must not
\* take another remote's tasks with it.
EndpointInv == TypeOK /\ SlotsOwnTasks /\ NotForgotten /\ LossDelays(socket)

LEMMA InvInit == Init => EndpointInv
<1> SUFFICES ASSUME Init PROVE EndpointInv
  OBVIOUS
<1>1. zeroedSocket \in Socket
  <2>1. <<>> \in Seq(Peer) /\ <<>> \in Seq(Task) /\ Len(<<>>) = 0
    OBVIOUS
  <2>2. 0 <= peers_max_count
    BY BoundAssumption
  <2> QED
    BY <2>1, <2>2 DEF zeroedSocket, Socket
<1>2. OwnsTasks(zeroedSocket)
  BY DEF zeroedSocket, OwnsTasks, Occupied
<1>3. LossDelays(zeroedSocket)
  BY DEF zeroedSocket, LossDelays
<1> QED
  BY <1>1, <1>2, <1>3 DEF Init, EndpointInv, TypeOK, SlotsOwnTasks, NotForgotten

LEMMA InvStep == EndpointInv /\ [Next]_vars => EndpointInv'
<1> SUFFICES ASSUME EndpointInv, [Next]_vars PROVE EndpointInv'
  OBVIOUS
<1>1. /\ SocketOK(socket) /\ known \subseteq Remote /\ doubled \subseteq Remote
      /\ connecting \in Seq(Remote) /\ alive \in BOOLEAN
      /\ silence \in [Remote -> Nat]
      /\ \A q \in known : Watched(socket, q)
  BY DEF EndpointInv, TypeOK, SlotsOwnTasks, NotForgotten, SocketOK
<1>2. ASSUME NEW r \in Remote, NEW knows, NEW heard, Remember(r, socket', knows, heard)
      PROVE  /\ known' \subseteq Remote /\ doubled' \subseteq Remote
             /\ silence' \in [Remote -> Nat]
             /\ known' = IF knows THEN known \cup {r} ELSE known \ {r}
  BY <1>1, <1>2 DEF Remember
<1>3. ASSUME SocketOK(socket'), known' \subseteq Remote, doubled' \subseteq Remote,
             silence' \in [Remote -> Nat], connecting' \in Seq(Remote), alive' \in BOOLEAN,
             \A q \in known' : Watched(socket', q)
      PROVE  EndpointInv'
  BY <1>3 DEF EndpointInv, TypeOK, SlotsOwnTasks, NotForgotten, SocketOK
<1>4. CASE Connect
  <2> DEFINE r == Head(connecting)
  <2>1. /\ r \in Remote /\ connecting' \in Seq(Remote) /\ alive' = alive
        /\ socket' = handleCommUpUdp(socket, r) /\ Remember(r, socket', TRUE, TRUE)
    <3>1. connecting # <<>> /\ connecting' = Tail(connecting) /\ alive' = alive
      BY <1>4 DEF Connect
    <3>2. r \in Remote /\ connecting' \in Seq(Remote)
      BY <1>1, <3>1
    <3> QED
      BY <1>4, <3>1, <3>2 DEF Connect, connectFirst
  <2>2. /\ SocketOK(socket') /\ KeepsAllWatched(socket, socket') /\ Watched(socket', r)
    BY <1>1, <2>1, CommUp
  <2> QED
    BY <1>1, <1>2, <1>3, <2>1, <2>2 DEF KeepsAllWatched
<1>5. ASSUME NEW i \in DOMAIN socket.tasks, Launch(i)
      PROVE  EndpointInv'
  <2> DEFINE task == socket.tasks[i]
  <2>1. task \in Task /\ task.params \in Remote /\ Due(task) /\ Armed(task)
    <3>1. socket.tasks \in Seq(Task)
      BY <1>1 DEF SocketOK, Socket
    <3>2. task \in Task
      BY <3>1
    <3>3. Due(task)
      BY <1>5 DEF Launch
    <3> QED
      BY <3>2, <3>3 DEF Task, Due, Armed
  <2>2. CallbackFindsPeer(socket, i)
    BY <1>1, <2>1, ArmedLossFindsPeer
  <2>3. /\ socket' = launchTask(socket, i) /\ UNCHANGED <<connecting, alive>>
        /\ Remember(task.params, socket',
                    task.params \in known \/ task.callback = "reestablish",
                    Slots(socket, task.params) = {} /\ Slots(socket', task.params) # {})
    BY <1>5, <2>2 DEF Launch
  <2>4. SocketOK(socket') /\ KeepsAllWatched(socket, socket')
    BY <1>1, <2>1, <2>3, LaunchTask
  <2>5. task.callback = "reestablish" => Watched(socket', task.params)
    BY <1>1, <2>1, <2>3, LaunchTask
  <2> QED
    BY <1>1, <1>2, <1>3, <2>1, <2>3, <2>4, <2>5 DEF KeepsAllWatched
<1>6. ASSUME NEW r \in Remote, NEW msg \in Incoming, Receive(r, msg)
      PROVE  EndpointInv'
  <2>1. CASE QuitFromStranger(socket, r, msg)
    BY <1>1, <1>3, <1>6, <2>1 DEF Receive, history
  <2>2. CASE ~QuitFromStranger(socket, r, msg)
    <3>1. /\ socket' = handleMessageUdp(socket, r, msg) /\ UNCHANGED <<connecting, alive>>
          /\ Remember(r, socket', msg # "q", msg # "q")
      BY <1>6, <2>2 DEF Receive
    <3>2. /\ SocketOK(socket') /\ KeepsWatched(socket, socket', r)
          /\ msg # "q" => Watched(socket', r)
      BY <1>1, <2>2, <3>1, HandleMessage
    <3> QED
      BY <1>1, <1>2, <1>3, <3>1, <3>2 DEF KeepsWatched
  <2> QED
    BY <2>1, <2>2
<1>7. CASE Tick
  <2>1. /\ socket' = [socket EXCEPT !.tasks = Elapsed(socket.tasks)]
        /\ UNCHANGED <<connecting, alive, known, doubled>>
    BY <1>7 DEF Tick
  <2>2. silence' \in [Remote -> Nat]
    BY <1>1, <1>7 DEF Tick
  <2>3. SocketOK(socket') /\ KeepsAllWatched(socket, socket')
    BY <1>1, <2>1, ElapsedSocket
  <2> QED
    BY <1>1, <1>3, <2>1, <2>2, <2>3 DEF KeepsAllWatched
<1>8. CASE UNCHANGED vars
  BY <1>1, <1>3, <1>8 DEF vars, history
<1> QED
  BY <1>4, <1>5, <1>6, <1>7, <1>8 DEF Next, LaunchAny

------------------------------------------------------------------------------

\* A remote that is not in doubled has one slot at most.
NotDoubled == \A r \in Remote \ doubled : Single(socket, r)

\* What a comm lost task still waits and what its remote has been silent make up the
\* whole delay.
SilenceCounted ==
    \A i \in Losses(socket) :
        LET task == socket.tasks[i]
        IN  task.params \notin doubled => task.wait + silence[task.params] >= LostDelay

\* No time passes before all remotes are connected: connecting a remote again, with
\* the table full, resets its silence though not its task, which has not run yet.
UntouchedAtStart ==
    connecting # <<>> =>
        \A i \in Losses(socket) : socket.tasks[i].wait = LostDelay

\* LossMeansSilence speaks of the period in which the task is due, SilenceInv of all
\* the periods before.
SilenceInv == NotDoubled /\ SilenceCounted /\ UntouchedAtStart

\* A finite set that does not have more than one element has one at most.
LEMMA OneAtMost ==
    ASSUME NEW S, IsFiniteSet(S), ~(Cardinality(S) > 1), NEW j \in S, NEW k \in S
    PROVE  j = k
<1> SUFFICES ASSUME j # k PROVE FALSE
  OBVIOUS
<1>1. {j, k} \subseteq S
  OBVIOUS
<1>2. Cardinality({j, k}) = 2
  <2>1. IsFiniteSet({j}) /\ Cardinality({j}) = 1
    BY FS_Singleton
  <2>2. {j, k} = {j} \cup {k} /\ k \notin {j}
    OBVIOUS
  <2>3. Cardinality({j} \cup {k}) = 1 + 1
    BY <2>1, <2>2, FS_AddElement
  <2>4. 1 + 1 = 2
    OBVIOUS
  <2> QED
    BY <2>2, <2>3, <2>4, Zenon
<1>3. Cardinality({j, k}) <= Cardinality(S)
  BY <1>1, FS_Subset
<1>4. Cardinality(S) \in Nat
  BY FS_CardinalityType
<1> QED
  BY <1>2, <1>3, <1>4

LEMMA DelayIsNat == LostDelay \in Nat
BY BoundAssumption DEF LostDelay, keep_alive_period

LEMMA SlotsFinite ==
    ASSUME NEW s \in Socket, NEW r
    PROVE  IsFiniteSet(Slots(s, r))
<1>1. Slots(s, r) \subseteq 1 .. Len(s.peers) /\ Len(s.peers) \in Int /\ 1 \in Int
  BY DEF Slots, Socket
<1>2. IsFiniteSet(1 .. Len(s.peers))
  BY <1>1, FS_Interval
<1> QED
  BY <1>1, <1>2, FS_Subset

\* A step about r that lets comm lost tasks wait on or start again keeps SilenceInv,
\* as long as all tasks of r start again when r is heard.
LEMMA SilenceKept ==
    ASSUME EndpointInv, SilenceInv, EndpointInv',
           NEW r \in Remote, NEW knows, NEW heard \in BOOLEAN,
           Remember(r, socket', knows, heard),
           LossesKept(socket, socket'), SlotsKept(socket, socket', r),
           heard /\ Single(socket', r) => Fresh(socket', r),
           connecting' # <<>> => connecting # <<>>
    PROVE  SilenceInv'
<1>1. /\ socket' \in Socket /\ silence \in [Remote -> Nat] /\ silence' \in [Remote -> Nat]
      /\ LostDelay \in Nat
  BY DelayIsNat DEF EndpointInv, TypeOK
<1>2. doubled \subseteq doubled'
  BY DEF Remember
<1>3. ASSUME NEW q \in Remote \ doubled' PROVE Single(socket', q)
  <2>1. CASE q = r
    <3>1. ~(Cardinality(Slots(socket', r)) > 1)
      BY <1>3, <2>1 DEF Remember
    <3>2. IsFiniteSet(Slots(socket', r))
      BY <1>1, SlotsFinite
    <3> QED
      BY <2>1, <3>1, <3>2, OneAtMost DEF Single
  <2>2. CASE q # r
    <3>1. Single(socket, q) /\ Slots(socket', q) \subseteq Slots(socket, q)
      BY <1>2, <1>3, <2>2 DEF SilenceInv, NotDoubled, SlotsKept
    <3> QED
      BY <3>1 DEF Single
  <2> QED
    BY <2>1, <2>2
<1>4. ASSUME NEW i \in Losses(socket'), socket'.tasks[i].params \notin doubled'
      PROVE  socket'.tasks[i].wait + silence'[socket'.tasks[i].params] >= LostDelay
  <2> DEFINE q == socket'.tasks[i].params
             w == socket'.tasks[i].wait
  <2>1. q \in Remote /\ w \in Nat /\ silence'[q] \in Nat
    <3>1. socket'.tasks[i] \in Task
      BY <1>1 DEF Losses, Socket
    <3> QED
      BY <1>1, <3>1 DEF Task
  <2>2. CASE w = LostDelay
    BY <1>1, <2>1, <2>2
  <2>3. CASE w # LostDelay
    <3>1. /\ i \in Losses(socket) /\ socket.tasks[i].params = q
          /\ socket.tasks[i].wait = w
      BY <2>3 DEF LossesKept
    <3>2. w + silence[q] >= LostDelay
      BY <1>2, <1>4, <3>1 DEF SilenceInv, SilenceCounted
    <3>3. ~(heard /\ q = r)
      BY <1>3, <1>4, <2>1, <2>3 DEF Fresh
    <3>4. silence'[q] = silence[q]
      BY <1>1, <2>1, <3>3 DEF Remember
    <3> QED
      BY <3>2, <3>4
  <2> QED
    BY <2>2, <2>3
<1>5. ASSUME connecting' # <<>>, NEW i \in Losses(socket')
      PROVE  socket'.tasks[i].wait = LostDelay
  BY <1>5 DEF SilenceInv, UntouchedAtStart, LossesKept
<1> QED
  BY <1>3, <1>4, <1>5 DEF SilenceInv, NotDoubled, SilenceCounted, UntouchedAtStart

LEMMA SilenceInit == Init => SilenceInv
BY DEF Init, zeroedSocket, SilenceInv, NotDoubled, SilenceCounted, UntouchedAtStart,
       Single, Slots, Losses

LEMMA SilenceStep ==
    EndpointInv /\ SilenceInv /\ EndpointInv' /\ [Next]_vars => SilenceInv'
<1> SUFFICES ASSUME EndpointInv, SilenceInv, EndpointInv', [Next]_vars PROVE SilenceInv'
  OBVIOUS
<1>1. /\ SocketOK(socket) /\ connecting \in Seq(Remote)
      /\ socket.tasks \in Seq(Task) /\ silence \in [Remote -> Nat] /\ LostDelay \in Nat
  BY DelayIsNat DEF EndpointInv, TypeOK, SlotsOwnTasks, SocketOK, Socket
<1>2. CASE Connect
  <2> DEFINE r == Head(connecting)
  <2>1. /\ r \in Remote /\ connecting # <<>>
        /\ socket' = handleCommUpUdp(socket, r) /\ Remember(r, socket', TRUE, TRUE)
    <3>1. connecting # <<>>
      BY <1>2 DEF Connect
    <3>2. r \in Remote
      BY <1>1, <3>1
    <3> QED
      BY <1>2, <3>1, <3>2 DEF Connect, connectFirst
  <2>2. /\ LossesKept(socket, socket') /\ SlotsKept(socket, socket', r)
        /\ Full(socket) => socket' = socket
        /\ ~Full(socket) => (Single(socket', r) => Fresh(socket', r))
    BY <1>1, <2>1, CommUp
  <2>3. Fresh(socket, r)
    BY <2>1 DEF SilenceInv, UntouchedAtStart, Fresh
  <2> HIDE DEF r
  <2>4. Single(socket', r) => Fresh(socket', r)
    BY <2>2, <2>3
  <2> QED
    BY <2>1, <2>2, <2>4, SilenceKept
<1>3. ASSUME NEW i \in DOMAIN socket.tasks, Launch(i)
      PROVE  SilenceInv'
  <2> DEFINE task == socket.tasks[i]
             r == task.params
             knows == r \in known \/ task.callback = "reestablish"
             heard == Slots(socket, r) = {} /\ Slots(socket', r) # {}
  <2>1. task \in Task /\ r \in Remote /\ Due(task) /\ Armed(task)
    <3>1. task \in Task
      BY <1>1
    <3>2. Due(task)
      BY <1>3 DEF Launch
    <3> QED
      BY <3>1, <3>2 DEF Task, Due, Armed
  <2>2. CallbackFindsPeer(socket, i)
    BY <1>1, <2>1, ArmedLossFindsPeer
  <2>3. /\ socket' = launchTask(socket, i) /\ UNCHANGED connecting
        /\ Remember(r, socket', knows, heard)
    BY <1>3, <2>2 DEF Launch
  <2>4. /\ LossesKept(socket, socket') /\ SlotsKept(socket, socket', r)
        /\ heard /\ Single(socket', r) => Fresh(socket', r)
    BY <1>1, <2>1, <2>3, LaunchTask
  <2>5. heard \in BOOLEAN /\ r \in Remote
    BY <2>1
  <2> HIDE DEF r, knows, heard
  <2> QED
    BY <2>3, <2>4, <2>5, SilenceKept
<1>4. ASSUME NEW r \in Remote, NEW msg \in Incoming, Receive(r, msg)
      PROVE  SilenceInv'
  <2>1. CASE QuitFromStranger(socket, r, msg)
    BY <1>4, <2>1
       DEF Receive, history, SilenceInv, NotDoubled, SilenceCounted, UntouchedAtStart
  <2>2. CASE ~QuitFromStranger(socket, r, msg)
    <3>1. /\ socket' = handleMessageUdp(socket, r, msg) /\ UNCHANGED connecting
          /\ Remember(r, socket', msg # "q", msg # "q")
      BY <1>4, <2>2 DEF Receive
    <3>2. /\ LossesKept(socket, socket') /\ SlotsKept(socket, socket', r)
          /\ msg # "q" => (Single(socket', r) => Fresh(socket', r))
      BY <1>1, <2>2, <3>1, HandleMessage
    <3> QED
      BY <3>1, <3>2, SilenceKept
  <2> QED
    BY <2>1, <2>2
<1>5. CASE Tick
  <2>1. /\ socket' = [socket EXCEPT !.tasks = Elapsed(socket.tasks)]
        /\ UNCHANGED <<connecting, doubled>> /\ connecting = <<>> /\ NoneDue(socket.tasks)
        /\ silence' = [r \in Remote |->
              IF silence[r] < LostDelay THEN silence[r] + 1 ELSE silence[r]]
    BY <1>5 DEF Tick, Looping
  <2>2. /\ AllSlotsKept(socket, socket')
        /\ \A i \in Losses(socket') :
              /\ i \in Losses(socket)
              /\ socket'.tasks[i].params = socket.tasks[i].params
              /\ socket.tasks[i].wait > 0 =>
                    socket'.tasks[i].wait = socket.tasks[i].wait - 1
    <3>1. socket'.tasks = Elapsed(socket.tasks)
      BY <1>1, <2>1 DEF SocketOK, Socket
    <3> QED
      BY <1>1, <2>1, <3>1, ElapsedSocket
  <2>3. NotDoubled'
    BY <2>1, <2>2 DEF SilenceInv, NotDoubled, AllSlotsKept, Single
  <2>4. ASSUME NEW i \in Losses(socket'), socket'.tasks[i].params \notin doubled
        PROVE  socket'.tasks[i].wait + silence'[socket'.tasks[i].params] >= LostDelay
    <3> DEFINE q == socket.tasks[i].params
               w == socket.tasks[i].wait
    <3>1. i \in Losses(socket) /\ socket'.tasks[i].params = q
      BY <2>2
    <3>2. q \in Remote /\ w \in Nat /\ silence[q] \in Nat /\ socket.tasks[i] \in Task
      <4>1. socket.tasks[i] \in Task
        BY <1>1, <3>1 DEF Losses
      <4> QED
        BY <1>1, <4>1 DEF Task
    <3>3. w + silence[q] >= LostDelay
      BY <2>4, <3>1 DEF SilenceInv, SilenceCounted
    <3>4. w > 0
      BY <2>1, <3>1, <3>2 DEF Losses, NoneDue, Due, Armed
    <3>5. socket'.tasks[i].wait = w - 1
      BY <2>2, <3>4
    <3>6. silence'[q] = IF silence[q] < LostDelay THEN silence[q] + 1 ELSE silence[q]
      BY <2>1, <3>2
    <3> HIDE DEF q, w
    <3> QED
      BY <1>1, <3>1, <3>2, <3>3, <3>4, <3>5, <3>6
  <2>5. SilenceCounted'
    BY <2>1, <2>4 DEF SilenceCounted
  <2> QED
    BY <2>1, <2>3, <2>5 DEF SilenceInv, UntouchedAtStart
<1>6. CASE UNCHANGED vars
  BY <1>6 DEF vars, history, SilenceInv, NotDoubled, SilenceCounted, UntouchedAtStart
<1> QED
  BY <1>2, <1>3, <1>4, <1>5, <1>6 DEF Next, LaunchAny

------------------------------------------------------------------------------

\* Slots, tasks and history keep their types; the table never holds more than
\* peers_max_count slots.
THEOREM TypeCorrect == Spec => []TypeOK
<1>1. EndpointInv => TypeOK
  BY DEF EndpointInv
<1> QED
  BY <1>1, InvInit, InvStep, PTL DEF Spec

\* No keep alive task outlives its slot, no slot loses its tasks.
THEOREM SlotsOwnTasksHolds == Spec => []SlotsOwnTasks
<1>1. EndpointInv => SlotsOwnTasks
  BY DEF EndpointInv
<1> QED
  BY <1>1, InvInit, InvStep, PTL DEF Spec

\* commLost never passes NULL to removePeer, whatever the remotes send and however
\* many slots one of them has.
THEOREM CommLostFindsPeerHolds == Spec => []CommLostFindsPeer
<1>1. EndpointInv => CommLostFindsPeer
  BY ArmedLossFindsPeer
     DEF EndpointInv, TypeOK, SlotsOwnTasks, SocketOK, CommLostFindsPeer, Due, Armed
<1> QED
  BY <1>1, InvInit, InvStep, PTL DEF Spec

\* Until the table is full, a remote that is known is watched or about to be
\* reconnected.
THEOREM NotForgottenHolds == Spec => []NotForgotten
<1>1. EndpointInv => NotForgotten
  BY DEF EndpointInv
<1> QED
  BY <1>1, InvInit, InvStep, PTL DEF Spec

\* A peer with one slot is declared lost only when it was silent for all the probes
\* and one period more: every datagram starts its comm lost task again, and no task
\* of a slot that is gone stays armed to lose it early.
THEOREM LossMeansSilenceHolds == Spec => []LossMeansSilence
<1>1. EndpointInv /\ SilenceInv => LossMeansSilence
  <2> SUFFICES ASSUME EndpointInv, SilenceInv, NEW i \in DOMAIN socket.tasks,
                      DueLoss(i), socket.tasks[i].params \notin doubled
               PROVE  silence[socket.tasks[i].params] >= LostDelay
    BY DEF LossMeansSilence
  <2>1. socket.tasks[i] \in Task /\ silence \in [Remote -> Nat]
    BY DEF EndpointInv, TypeOK, Socket
  <2>2. i \in Losses(socket) /\ socket.tasks[i].wait = 0
    BY <2>1 DEF DueLoss, Due, Armed, Losses, Task
  <2>3. 0 + silence[socket.tasks[i].params] >= LostDelay
    BY <2>2 DEF SilenceInv, SilenceCounted
  <2>4. silence[socket.tasks[i].params] \in Nat
    BY <2>1 DEF Task
  <2> QED
    BY <2>3, <2>4
<1> QED
  BY <1>1, InvInit, InvStep, SilenceInit, SilenceStep, PTL DEF Spec

------------------------------------------------------------------------------
\* What the functions of SocketUdp do to the timers of each slot.

PingOf(s, k) == s.tasks[s.peers[k].ping_task]
LossOf(s, k) == s.tasks[s.peers[k].comm_lost_task]

\* How many periods the comm lost task of slot k has been waiting.
Quiet(s, k) == LostDelay - LossOf(s, k).wait

\* The two timers of slot k run together: as long as the comm lost task waits, the
\* probes that were sent and those that are left make up the periods that passed.
InTime(s, k) ==
    LET ping == PingOf(s, k)
        loss == LossOf(s, k)
    IN  /\ ping.delay = keep_alive_period /\ ping.repetitions = keep_alive_probes
        /\ loss.delay = LostDelay /\ loss.repetitions = 1 /\ loss.left <= 1
        /\ Armed(loss) =>
             \/ Due(ping) /\ ping.left + Quiet(s, k) = keep_alive_probes + 1
             \/ ping.wait = 1 /\ ping.left + Quiet(s, k) = keep_alive_probes
             \/ ping.left = 0 /\ loss.wait = 0

AllInTime(s) == \A k \in Occupied(s) : InTime(s, k)

\* Slot k and its tasks are the same in t, and a slot whose tasks have just started.
SameSlot(s, t, k) ==
    t.peers[k] = s.peers[k] /\ PingOf(t, k) = PingOf(s, k) /\ LossOf(t, k) = LossOf(s, k)
NewSlot(t, k) == InTime(t, k) /\ Armed(LossOf(t, k)) /\ Quiet(t, k) = 0

LEMMA SameSlotInTime ==
    ASSUME NEW s, NEW t, NEW k, SameSlot(s, t, k)
    PROVE  /\ InTime(s, k) => InTime(t, k)
           /\ Quiet(t, k) = Quiet(s, k)
BY DEF SameSlot, InTime, Quiet

\* The tasks of a slot, and those of another one.
LEMMA Apart ==
    ASSUME NEW s, SocketOK(s), NEW j \in Occupied(s), NEW k \in Occupied(s)
    PROVE  /\ PointsToTasks(s, k)
           /\ PingOf(s, k) \in Task /\ LossOf(s, k) \in Task
           /\ s.peers[k].ping_task # s.peers[j].comm_lost_task
           /\ j # k => /\ s.peers[k].ping_task # s.peers[j].ping_task
                       /\ s.peers[k].comm_lost_task # s.peers[j].comm_lost_task
<1>1. s.tasks \in Seq(Task) /\ PointsToTasks(s, j) /\ PointsToTasks(s, k) /\ OwnsTasks(s)
  BY DEF SocketOK, Socket, OwnsTasks
<1>2. PingOf(s, k) \in Task /\ LossOf(s, k) \in Task
  BY <1>1 DEF PointsToTasks, PingOf, LossOf
<1>3. s.peers[k].ping_task # s.peers[j].comm_lost_task
  BY <1>1 DEF PointsToTasks
<1>4. j # k => /\ s.peers[k].ping_task # s.peers[j].ping_task
               /\ s.peers[k].comm_lost_task # s.peers[j].comm_lost_task
  BY <1>1 DEF OwnsTasks
<1> QED
  BY <1>1, <1>2, <1>3, <1>4

LEMMA RemoveSlot ==
    ASSUME NEW s, SocketOK(s), NEW k \in Occupied(s)
    PROVE  LET t == removePeer(s, k)
           IN  /\ Occupied(t) = Occupied(s) \ {k}
               /\ \A j \in Occupied(t) : SameSlot(s, t, j)
<1> DEFINE p == s.peers[k]
           t == removePeer(s, k)
<1>1. /\ DOMAIN t.peers = DOMAIN s.peers /\ k \in DOMAIN s.peers
      /\ \A j \in DOMAIN s.peers \ {k} : t.peers[j] = s.peers[j]
      /\ t.peers[k].remote = NoRemote
  BY DEF removePeer, Occupied, SocketOK, Socket
<1>2. \A i \in DOMAIN s.tasks \ {p.ping_task, p.comm_lost_task} : t.tasks[i] = s.tasks[i]
  BY DEF removePeer, disableTask
<1> HIDE DEF t
<1>3. Occupied(t) = Occupied(s) \ {k}
  BY <1>1 DEF Occupied
<1>4. ASSUME NEW j \in Occupied(t) PROVE SameSlot(s, t, j)
  <2>1. j \in Occupied(s) /\ j # k
    BY <1>3
  <2>2. t.peers[j] = s.peers[j]
    BY <1>1, <2>1 DEF Occupied
  <2>3. {s.peers[j].ping_task, s.peers[j].comm_lost_task} \subseteq
           DOMAIN s.tasks \ {p.ping_task, p.comm_lost_task}
    BY <2>1, Apart DEF PointsToTasks
  <2> QED
    BY <1>2, <2>2, <2>3 DEF SameSlot, PingOf, LossOf
<1> QED
  BY <1>3, <1>4 DEF t

LEMMA ResetSlot ==
    ASSUME NEW s, SocketOK(s), NEW k \in Occupied(s), InTime(s, k)
    PROVE  LET t == resetTasks(s, k)
           IN  /\ t.peers = s.peers
               /\ \A j \in Occupied(s) \ {k} : SameSlot(s, t, j)
               /\ NewSlot(t, k)
<1> DEFINE p == s.peers[k]
           u == resetTask(s.tasks, p.ping_task)
           v == resetTask(u, p.comm_lost_task)
           t == resetTasks(s, k)
           ping == PingOf(s, k)
           loss == LossOf(s, k)
<1>1. /\ ping \in Task /\ loss \in Task /\ PointsToTasks(s, k)
      /\ p.ping_task # p.comm_lost_task
  BY Apart
<1>2. /\ DOMAIN u = DOMAIN s.tasks
      /\ \A i \in DOMAIN s.tasks \ {p.ping_task} : u[i] = s.tasks[i]
      /\ u[p.ping_task] = [ping EXCEPT !.wait = ping.delay, !.left = ping.repetitions]
  BY <1>1 DEF resetTask, PingOf, PointsToTasks
<1> HIDE DEF u
<1>3. /\ \A i \in DOMAIN s.tasks \ {p.comm_lost_task} : v[i] = u[i]
      /\ v[p.comm_lost_task] = [loss EXCEPT !.wait = loss.delay, !.left = loss.repetitions]
  BY <1>1, <1>2 DEF resetTask, LossOf, PointsToTasks
<1>4. t.peers = s.peers /\ t.tasks = v
  BY DEF resetTasks, u, SocketOK, Socket
<1> HIDE DEF v, t
<1>5. ASSUME NEW j \in Occupied(s) \ {k} PROVE SameSlot(s, t, j)
  <2>1. {s.peers[j].ping_task, s.peers[j].comm_lost_task} \subseteq
           DOMAIN s.tasks \ {p.ping_task, p.comm_lost_task}
    BY Apart DEF PointsToTasks
  <2> QED
    BY <1>2, <1>3, <1>4, <2>1 DEF SameSlot, PingOf, LossOf
<1>6. NewSlot(t, k)
  <2>1. /\ PingOf(t, k) = [ping EXCEPT !.wait = ping.delay, !.left = ping.repetitions]
        /\ LossOf(t, k) = [loss EXCEPT !.wait = loss.delay, !.left = loss.repetitions]
    <3>1. p.ping_task \in DOMAIN s.tasks \ {p.comm_lost_task}
      BY <1>1 DEF PointsToTasks
    <3>2. v[p.ping_task] = u[p.ping_task]
      BY <1>3, <3>1
    <3>3. PingOf(t, k) = v[p.ping_task] /\ LossOf(t, k) = v[p.comm_lost_task]
      BY <1>4 DEF PingOf, LossOf
    <3> QED
      BY <1>2, <1>3, <3>2, <3>3
  <2>2. /\ ping.delay = 1 /\ ping.repetitions = keep_alive_probes
        /\ loss.delay = LostDelay /\ loss.repetitions = 1 /\ LostDelay \in Nat
    BY DelayIsNat DEF InTime, keep_alive_period
  <2>3. /\ PingOf(t, k).delay = 1 /\ PingOf(t, k).repetitions = keep_alive_probes
        /\ PingOf(t, k).wait = 1 /\ PingOf(t, k).left = keep_alive_probes
        /\ LossOf(t, k).delay = LostDelay /\ LossOf(t, k).repetitions = 1
        /\ LossOf(t, k).wait = LostDelay /\ LossOf(t, k).left = 1
    BY <1>1, <2>1, <2>2 DEF Task
  <2> QED
    BY <2>2, <2>3 DEF NewSlot, InTime, Quiet, Armed, keep_alive_period
<1> QED
  BY <1>4, <1>5, <1>6 DEF t

LEMMA CommUpSlot ==
    ASSUME NEW s, SocketOK(s), NEW r \in Remote, ~Full(s)
    PROVE  LET t == handleCommUpUdp(s, r)
               m == Len(s.peers) + 1
           IN  /\ Occupied(t) = Occupied(s) \cup {m}
               /\ \A j \in Occupied(s) : SameSlot(s, t, j) /\ j < m /\ j \in Nat
               /\ NewSlot(t, m) /\ t.peers[m].remote = r /\ m \in Nat
<1> DEFINE t == handleCommUpUdp(s, r)
           m == Len(s.peers) + 1
           n == Len(s.tasks)
           p == [remote |-> r, ping_task |-> n + 1, comm_lost_task |-> n + 2]
           u == Append(s.tasks, PingTask(r))
           v == Append(u, CommLostTask(r))
<1>1. s.peers \in Seq(Peer) /\ s.tasks \in Seq(Task) /\ n \in Nat
  BY DEF SocketOK, Socket
<1>2. t.peers = Append(s.peers, p) /\ t.tasks = v
  BY DEF handleCommUpUdp, Full, scheduleTask
<1>3. /\ DOMAIN t.peers = DOMAIN s.peers \cup {m} /\ t.peers[m] = p /\ m \in Nat
      /\ \A j \in DOMAIN s.peers : t.peers[j] = s.peers[j] /\ j < m /\ j \in Nat
  <2> HIDE DEF p
  <2> QED
    BY <1>1, <1>2
<1>4. /\ \A i \in DOMAIN s.tasks : v[i] = s.tasks[i]
      /\ v[n + 1] = PingTask(r) /\ v[n + 2] = CommLostTask(r)
  <2>1. /\ PingTask(r) \in Task /\ CommLostTask(r) \in Task
    BY NewTasks
  <2>2. /\ u \in Seq(Task) /\ Len(u) = n + 1 /\ u[n + 1] = PingTask(r)
        /\ \A i \in DOMAIN s.tasks : u[i] = s.tasks[i] /\ i \in 1 .. n
    BY <1>1, <2>1
  <2> HIDE DEF u
  <2>3. v[n + 2] = CommLostTask(r) /\ \A i \in 1 .. n + 1 : v[i] = u[i]
    BY <1>1, <2>1, <2>2
  <2> QED
    BY <1>1, <2>2, <2>3
<1> HIDE DEF t, m, u, v
<1>5. Occupied(t) = Occupied(s) \cup {m}
  BY <1>3 DEF Occupied
<1>6. ASSUME NEW j \in Occupied(s) PROVE SameSlot(s, t, j) /\ j < m /\ j \in Nat
  <2>1. t.peers[j] = s.peers[j] /\ j < m /\ j \in Nat
    BY <1>3 DEF Occupied
  <2>2. PointsToTasks(s, j)
    BY Apart
  <2> QED
    BY <1>2, <1>4, <2>1, <2>2 DEF SameSlot, PingOf, LossOf, PointsToTasks
<1>7. NewSlot(t, m)
  <2>1. PingOf(t, m) = PingTask(r) /\ LossOf(t, m) = CommLostTask(r)
    BY <1>2, <1>3, <1>4 DEF PingOf, LossOf
  <2> QED
    BY <2>1, DelayIsNat
       DEF NewSlot, InTime, Quiet, Armed, keep_alive_period, PingTask, CommLostTask,
           createScheduledTask
<1> QED
  BY <1>3, <1>5, <1>6, <1>7 DEF t, m

LEMMA ReestablishmentSlots ==
    ASSUME NEW s, SocketOK(s), NEW r \in Remote
    PROVE  LET t == scheduleReestablishment(s, r)
           IN  /\ t.peers = s.peers
               /\ \A k \in Occupied(s) : SameSlot(s, t, k)
<1> DEFINE t == scheduleReestablishment(s, r)
<1>1. t.peers = s.peers /\ t.tasks = Append(s.tasks, ReestablishTask(r))
  BY DEF scheduleReestablishment, scheduleTask, SocketOK, Socket
<1>2. s.tasks \in Seq(Task) /\ ReestablishTask(r) \in Task
  BY NewTasks DEF SocketOK, Socket
<1>3. \A i \in DOMAIN s.tasks : t.tasks[i] = s.tasks[i]
  BY <1>1, <1>2
<1> HIDE DEF t
<1>4. ASSUME NEW k \in Occupied(s) PROVE SameSlot(s, t, k)
  <2>1. PointsToTasks(s, k)
    BY Apart
  <2> QED
    BY <1>1, <1>3, <2>1 DEF SameSlot, PingOf, LossOf, PointsToTasks
<1> QED
  BY <1>1, <1>4 DEF t

\* Before its callback, a task that runs leaves the socket well-formed.
LEMMA LaunchedSocket ==
    ASSUME NEW s, SocketOK(s), NEW i \in DOMAIN s.tasks, Due(s.tasks[i])
    PROVE  SocketOK([s EXCEPT !.tasks = Launched(s.tasks, i)])
<1> DEFINE l == [s EXCEPT !.tasks = Launched(s.tasks, i)]
<1>1. s \in Socket /\ s.tasks \in Seq(Task) /\ OwnsTasks(s) /\ Armed(s.tasks[i])
  <2>1. s.tasks \in Seq(Task) /\ s.tasks[i].left > 0
    BY DEF SocketOK, Socket, Due
  <2> QED
    BY <2>1 DEF SocketOK, Armed
<1>2. l = [peers |-> s.peers, tasks |-> Launched(s.tasks, i)]
  BY <1>1 DEF Socket
<1> HIDE DEF l
<1>3. /\ l.peers = s.peers /\ l.tasks = Launched(s.tasks, i)
      /\ l.tasks \in Seq(Task) /\ SameTasks(s.tasks, l.tasks)
      /\ \A j \in DOMAIN s.tasks \ {i} : l.tasks[j] = s.tasks[j]
  BY <1>1, <1>2, LaunchedTask
<1>4. l \in Socket
  BY <1>1, <1>2, <1>3 DEF Socket
<1>5. OwnsTasks(l)
  BY <1>1, <1>3, <1>4, OwnsKept
<1> QED
  BY <1>3, <1>4, <1>5, DelaysKept DEF SocketOK, l

\* A task that is due runs: what becomes of the timers of the slots before its callback.
LEMMA LaunchedSlots ==
    ASSUME NEW s, SocketOK(s), NEW i \in DOMAIN s.tasks, Due(s.tasks[i]),
           NEW k \in Occupied(s)
    PROVE  LET l == [s EXCEPT !.tasks = Launched(s.tasks, i)]
               p == s.peers[k]
           IN  /\ l.peers = s.peers
               /\ i \notin {p.ping_task, p.comm_lost_task} => SameSlot(s, l, k)
               /\ i = p.ping_task => LossOf(l, k) = LossOf(s, k)
               /\ InTime(s, k) /\ i = p.comm_lost_task => ~Armed(LossOf(l, k))
               /\ InTime(s, k) => InTime(l, k)
<1> DEFINE l == [s EXCEPT !.tasks = Launched(s.tasks, i)]
           p == s.peers[k]
           ping == PingOf(s, k)
           loss == LossOf(s, k)
<1>1. /\ ping \in Task /\ loss \in Task /\ p.ping_task # p.comm_lost_task
      /\ p.ping_task \in DOMAIN s.tasks /\ p.comm_lost_task \in DOMAIN s.tasks
  BY Apart DEF PointsToTasks
<1>2. l.peers = s.peers /\ l.tasks = Launched(s.tasks, i)
  BY DEF SocketOK, Socket
<1>3. /\ \A j \in DOMAIN s.tasks \ {i} : l.tasks[j] = s.tasks[j]
      /\ l.tasks[i] = [s.tasks[i] EXCEPT !.wait = s.tasks[i].delay,
                                         !.left = s.tasks[i].left - 1]
  BY <1>2 DEF Launched
<1> HIDE DEF l
<1>4. ASSUME i \notin {p.ping_task, p.comm_lost_task} PROVE SameSlot(s, l, k)
  BY <1>1, <1>2, <1>3, <1>4 DEF SameSlot, PingOf, LossOf
<1>5. ASSUME i = p.ping_task
      PROVE  /\ LossOf(l, k) = LossOf(s, k)
             /\ InTime(s, k) => InTime(l, k)
  <2>1. LossOf(l, k) = LossOf(s, k)
    BY <1>1, <1>2, <1>3, <1>5 DEF LossOf
  <2>2. Quiet(l, k) = Quiet(s, k) /\ Quiet(s, k) \in Int
    BY <1>1, <2>1, DelayIsNat DEF Quiet, Task
  <2>3. PingOf(l, k) = [ping EXCEPT !.wait = ping.delay, !.left = ping.left - 1]
    BY <1>2, <1>3, <1>5 DEF PingOf
  <2>4. ping.left \in Nat /\ ping.wait \in Nat /\ Due(ping)
    BY <1>1, <1>5 DEF Task, PingOf
  <2>5. /\ PingOf(l, k).delay = ping.delay /\ PingOf(l, k).repetitions = ping.repetitions
        /\ PingOf(l, k).wait = ping.delay /\ PingOf(l, k).left = ping.left - 1
    BY <1>1, <2>3 DEF Task
  <2>6. InTime(s, k) => InTime(l, k)
    <3> DEFINE q == Quiet(s, k)
    <3> HIDE DEF ping, loss, q
    <3> SUFFICES ASSUME InTime(s, k) PROVE InTime(l, k)
      OBVIOUS
    <3>1. /\ ping.delay = 1 /\ ping.repetitions = keep_alive_probes
          /\ loss.delay = LostDelay /\ loss.repetitions = 1 /\ loss.left <= 1
          /\ Armed(loss) =>
               \/ ping.left + q = keep_alive_probes + 1
               \/ ping.wait = 1
               \/ ping.left = 0
      BY DEF InTime, ping, loss, q, keep_alive_period
    <3>2. Armed(loss) => (ping.left - 1) + q = keep_alive_probes
      BY <2>2, <2>4, <3>1 DEF Due, q
    <3> QED
      BY <2>1, <2>2, <2>5, <3>1, <3>2 DEF InTime, loss, q, keep_alive_period
  <2> QED
    BY <2>1, <2>6
<1>6. ASSUME i = p.comm_lost_task, InTime(s, k)
      PROVE  ~Armed(LossOf(l, k)) /\ InTime(l, k)
  <2>1. PingOf(l, k) = PingOf(s, k)
    BY <1>1, <1>2, <1>3, <1>6 DEF PingOf
  <2>2. LossOf(l, k) = [loss EXCEPT !.wait = loss.delay, !.left = loss.left - 1]
    BY <1>2, <1>3, <1>6 DEF LossOf
  <2>3. loss.left \in Nat /\ loss.left > 0 /\ loss.left <= 1
    BY <1>1, <1>6 DEF Task, LossOf, Due, InTime
  <2>4. /\ LossOf(l, k).delay = loss.delay /\ LossOf(l, k).repetitions = loss.repetitions
        /\ LossOf(l, k).left = 0
    BY <1>1, <2>2, <2>3 DEF Task
  <2> QED
    BY <1>6, <2>1, <2>4 DEF InTime, Armed
<1>7. InTime(s, k) => InTime(l, k)
  BY <1>4, <1>5, <1>6, SameSlotInTime
<1> QED
  BY <1>2, <1>4, <1>5, <1>6, <1>7 DEF l

\* A period passes for slot k.
LEMMA ElapsedSlots ==
    ASSUME NEW s, SocketOK(s), NoneDue(s.tasks), NEW k \in Occupied(s), InTime(s, k)
    PROVE  LET t == [s EXCEPT !.tasks = Elapsed(s.tasks)]
           IN  /\ t.peers = s.peers
               /\ InTime(t, k)
               /\ Armed(LossOf(t, k)) <=> Armed(LossOf(s, k))
               /\ Armed(LossOf(s, k)) => /\ Quiet(t, k) = Quiet(s, k) + 1
                                         /\ Due(PingOf(t, k)) \/ Due(LossOf(t, k))
<1> DEFINE t == [s EXCEPT !.tasks = Elapsed(s.tasks)]
           ping == PingOf(s, k)
           loss == LossOf(s, k)
           ping2 == PingOf(t, k)
           loss2 == LossOf(t, k)
           q == Quiet(s, k)
<1>1. /\ ping \in Task /\ loss \in Task
      /\ s.peers[k].ping_task \in DOMAIN s.tasks
      /\ s.peers[k].comm_lost_task \in DOMAIN s.tasks
  BY Apart DEF PointsToTasks
<1>2. t.peers = s.peers /\ t.tasks = Elapsed(s.tasks)
  BY DEF SocketOK, Socket
<1>3. /\ ping2 = (IF Armed(ping) /\ ping.wait > 0
                  THEN [ping EXCEPT !.wait = ping.wait - 1] ELSE ping)
      /\ loss2 = (IF Armed(loss) /\ loss.wait > 0
                  THEN [loss EXCEPT !.wait = loss.wait - 1] ELSE loss)
  BY <1>1, <1>2 DEF Elapsed, PingOf, LossOf
<1>4. ~Due(ping) /\ ~Due(loss)
  BY <1>1 DEF NoneDue, PingOf, LossOf
<1>5. q = LostDelay - loss.wait /\ Quiet(t, k) = LostDelay - loss2.wait
  BY DEF Quiet
<1>6. /\ ping.delay = 1 /\ ping.repetitions = keep_alive_probes
      /\ loss.delay = LostDelay /\ loss.repetitions = 1 /\ loss.left <= 1
      /\ Armed(loss) =>
           \/ Due(ping)
           \/ ping.wait = 1 /\ ping.left + q = keep_alive_probes
           \/ loss.wait = 0
  BY DEF InTime, keep_alive_period
<1> HIDE DEF t, ping, loss, ping2, loss2, q
<1>7. /\ ping.left \in Nat /\ ping.wait \in Nat /\ loss.left \in Nat /\ loss.wait \in Nat
      /\ LostDelay = keep_alive_probes + 1 /\ keep_alive_probes \in Nat
  BY <1>1 DEF Task, LostDelay, keep_alive_period
<1>8. /\ ping2.delay = ping.delay /\ ping2.repetitions = ping.repetitions
      /\ ping2.left = ping.left
      /\ ping2.wait = IF ping.left > 0 /\ ping.wait > 0 THEN ping.wait - 1 ELSE ping.wait
      /\ loss2.delay = loss.delay /\ loss2.repetitions = loss.repetitions
      /\ loss2.left = loss.left
      /\ loss2.wait = IF loss.left > 0 /\ loss.wait > 0 THEN loss.wait - 1 ELSE loss.wait
  BY <1>1, <1>3 DEF Task, Armed
<1>9. Armed(loss2) <=> Armed(loss)
  BY <1>8 DEF Armed
<1>10. ASSUME Armed(loss)
       PROVE  /\ Quiet(t, k) = q + 1
              /\ \/ Due(ping2) /\ ping2.left + Quiet(t, k) = keep_alive_probes + 1
                 \/ Due(loss2) /\ ping2.left = 0 /\ loss2.wait = 0
  <2>1. loss.left > 0 /\ loss.wait > 0 /\ loss2.wait = loss.wait - 1
    BY <1>4, <1>7, <1>8, <1>10 DEF Armed, Due
  <2>2. ping.wait = 1 /\ ping.left + q = keep_alive_probes
    BY <1>4, <1>6, <1>10, <2>1
  <2>3. Quiet(t, k) = q + 1
    BY <1>5, <1>7, <2>1
  <2>4. CASE ping.left > 0
    <3>1. ping2.left = ping.left /\ ping2.wait = 0
      BY <1>8, <2>2, <2>4
    <3>2. ping2.left + Quiet(t, k) = keep_alive_probes + 1
      <4>1. ping2.left + (q + 1) = (ping.left + q) + 1
        <5>1. q \in Int
          BY <1>5, <1>7
        <5> QED
          BY <1>7, <3>1, <5>1
      <4> QED
        BY <2>2, <2>3, <4>1
    <3> QED
      BY <2>3, <2>4, <3>1, <3>2 DEF Due
  <2>5. CASE ping.left = 0
    <3>1. loss2.wait = 0
      BY <1>5, <1>7, <2>1, <2>2, <2>5
    <3> QED
      BY <1>8, <2>1, <2>3, <2>5, <3>1 DEF Due
  <2> QED
    BY <1>7, <2>4, <2>5
<1>11. InTime(t, k)
  BY <1>6, <1>8, <1>9, <1>10 DEF InTime, ping2, loss2, keep_alive_period
<1> QED
  BY <1>2, <1>9, <1>10, <1>11 DEF t, ping, loss, ping2, loss2, q

------------------------------------------------------------------------------
\* The argument of PeerKept for one endpoint with socket s and one remote r, both up
\* for T periods, after L datagrams were lost.

\* The slot of r that findPeerByRemote finds, and with it the one a datagram resets.
First(s, r, f) == f \in Slots(s, r) /\ \A k \in Slots(s, r) : f <= k

\* A slot of r whose comm lost task has run and has taken another slot.
Spare(s, r) == \E k \in Slots(s, r) : ~Armed(LossOf(s, k))

\* The next thing that happens to slot k: a timer runs, or a datagram is on its way.
Awaited(s, k, flying) == Due(PingOf(s, k)) \/ Due(LossOf(s, k)) \/ flying

\* Either slot k or the first slot has waited no longer than n periods.
HeardWithin(s, f, k, n) == Quiet(s, k) <= n \/ Quiet(s, f) <= n

\* A slot that has been waiting only while both were up waits one period for every
\* datagram that was lost, and one more as long as an answer is awaited: unless the
\* first slot has not waited that long, which goes before it.
Answered(s, r, T, L, flying) ==
    \/ Spare(s, r)
    \/ \A f, k \in Slots(s, r) :
          First(s, r, f) /\ Quiet(s, k) <= T =>
              \/ HeardWithin(s, f, k, L)
              \/ HeardWithin(s, f, k, L + 1) /\ Awaited(s, k, flying)

\* What Answered counts are integers.
LEMMA SlotsOfRemote ==
    ASSUME NEW s, SocketOK(s), NEW r \in Remote, NEW k \in Slots(s, r)
    PROVE  /\ k \in Occupied(s) /\ k \in Nat /\ s.peers[k].remote = r
           /\ Quiet(s, k) \in Int /\ Quiet(s, k) <= LostDelay
           /\ Due(LossOf(s, k)) => Quiet(s, k) = LostDelay
<1>1. k \in Occupied(s) /\ k \in Nat /\ s.peers[k].remote = r
  BY DEF SocketOK, Socket, Slots, Occupied
<1>2. LossOf(s, k) \in Task
  BY <1>1, Apart
<1>3. LossOf(s, k).wait \in Nat /\ LostDelay \in Nat
  BY <1>2, DelayIsNat DEF Task
<1> QED
  BY <1>1, <1>3 DEF Quiet, Due

LEMMA FindsFirst ==
    ASSUME NEW s \in Socket, NEW r \in Remote, findPeerByRemote(s, r) # NULL
    PROVE  First(s, r, findPeerByRemote(s, r))
<1> DEFINE f == findPeerByRemote(s, r)
<1>1. f \in Slots(s, r) /\ Slots(s, r) # {}
  BY FindPeer
<1>2. Slots(s, r) \subseteq Nat \ {0} /\ DOMAIN s.peers \subseteq Nat \ {0}
  BY DEF Slots, Socket
<1>3. PICK m \in Slots(s, r) : \A n \in Slots(s, r) : m <= n
  BY <1>1, <1>2, LeastElement
<1>4. \A j \in 1 .. m - 1 : s.peers[j].remote # r
  <2> SUFFICES ASSUME NEW j \in 1 .. m - 1, s.peers[j].remote = r PROVE FALSE
    OBVIOUS
  <2>1. j \in Slots(s, r)
    BY <1>3 DEF Slots, Socket
  <2> QED
    BY <1>2, <1>3, <2>1
<1>5. \A j \in 1 .. f - 1 : s.peers[j].remote # r
  <2>1. m \in DOMAIN s.peers /\ s.peers[m].remote = r
    BY <1>3 DEF Slots
  <2> QED
    BY <1>4, <2>1 DEF findPeerByRemote
<1>6. f <= m
  <2>1. f \in Nat /\ m \in Nat \ {0} /\ s.peers[m].remote = r
    BY <1>1, <1>2, <1>3 DEF Slots
  <2> HIDE DEF f
  <2>2. ~(m \in 1 .. f - 1)
    BY <1>5, <2>1
  <2> QED
    BY <2>1, <2>2
<1> QED
  BY <1>1, <1>2, <1>3, <1>6 DEF First

\* As long as one of both is not up, no slot counts.
LEMMA AnsweredAtOnce ==
    ASSUME NEW s, SocketOK(s), NEW r \in Remote, NEW L \in Nat, NEW flying
    PROVE  Answered(s, r, 0, L, flying)
<1> SUFFICES ASSUME NEW k \in Slots(s, r), NEW f, Quiet(s, k) <= 0
             PROVE  HeardWithin(s, f, k, L)
  BY DEF Answered
<1>1. Quiet(s, k) \in Int
  BY SlotsOfRemote
<1> QED
  BY <1>1 DEF HeardWithin

\* A change that leaves the slots of r alone.
LEMMA AnsweredSame ==
    ASSUME NEW s, NEW t, NEW r, Slots(t, r) = Slots(s, r),
           \A k \in Slots(s, r) : SameSlot(s, t, k),
           NEW T, NEW L, NEW flying \in BOOLEAN, NEW still \in BOOLEAN, flying => still,
           Answered(s, r, T, L, flying)
    PROVE  Answered(t, r, T, L, still)
<1>1. ASSUME NEW k \in Slots(s, r)
      PROVE  /\ Quiet(t, k) = Quiet(s, k)
             /\ PingOf(t, k) = PingOf(s, k) /\ LossOf(t, k) = LossOf(s, k)
             /\ Awaited(s, k, flying) => Awaited(t, k, still)
  BY DEF SameSlot, Quiet, Awaited
<1>2. Spare(s, r) => Spare(t, r)
  BY <1>1 DEF Spare
<1>3. \A f : First(t, r, f) <=> First(s, r, f)
  BY DEF First
<1> QED
  BY <1>1, <1>2, <1>3 DEF Answered, HeardWithin

\* A slot of r that is first and has just started answers for all.
LEMMA AnsweredByFirst ==
    ASSUME NEW s, SocketOK(s), NEW r \in Remote, NEW f, First(s, r, f), Quiet(s, f) = 0,
           NEW T, NEW L \in Nat, NEW flying
    PROVE  Answered(s, r, T, L, flying)
<1> SUFFICES ASSUME NEW g \in Slots(s, r), NEW k \in Slots(s, r), First(s, r, g)
             PROVE  HeardWithin(s, g, k, L)
  BY DEF Answered
<1>1. f \in Nat /\ g \in Nat
  BY SlotsOfRemote DEF First
<1>2. f <= g /\ g <= f
  BY DEF First
<1>3. g = f
  BY <1>1, <1>2
<1> QED
  BY <1>3 DEF HeardWithin

\* One more datagram was lost.
LEMMA AnsweredLost ==
    ASSUME NEW s, SocketOK(s), NEW r \in Remote, NEW T, NEW L \in Nat,
           NEW flying, NEW still, Answered(s, r, T, L, flying)
    PROVE  Answered(s, r, T, L + 1, still)
<1>1. ASSUME NEW f \in Slots(s, r), NEW k \in Slots(s, r), HeardWithin(s, f, k, L)
      PROVE  HeardWithin(s, f, k, L + 1)
  <2>1. Quiet(s, k) \in Int /\ Quiet(s, f) \in Int
    BY SlotsOfRemote
  <2> QED
    BY <1>1, <2>1 DEF HeardWithin
<1> QED
  BY <1>1 DEF Answered

LEMMA AnsweredCommUp ==
    ASSUME NEW s, SocketOK(s), NEW q \in Remote, NEW r \in Remote,
           NEW T, NEW L \in Nat, NEW flying \in BOOLEAN, NEW still \in BOOLEAN,
           Answered(s, r, T, L, flying), flying => still
    PROVE  Answered(handleCommUpUdp(s, q), r, T, L, still)
<1> DEFINE t == handleCommUpUdp(s, q)
           m == Len(s.peers) + 1
<1>1. CASE Full(s)
  <2>1. t = s
    BY <1>1, CommUp
  <2>2. \A k \in Slots(s, r) : SameSlot(s, s, k)
    BY DEF SameSlot
  <2> HIDE DEF t
  <2> QED
    BY <2>1, <2>2, AnsweredSame DEF t
<1>2. CASE ~Full(s)
  <2>1. /\ Occupied(t) = Occupied(s) \cup {m}
        /\ \A j \in Occupied(s) : SameSlot(s, t, j) /\ j < m /\ j \in Nat
        /\ NewSlot(t, m) /\ t.peers[m].remote = q /\ m \in Nat
    BY <1>2, CommUpSlot
  <2>2. SocketOK(t)
    BY CommUp
  <2> HIDE DEF t, m
  <2>3. Slots(s, r) \subseteq Occupied(s) /\ Slots(t, r) \subseteq Occupied(t)
    BY <2>2, SlotsOfRemote
  <2>4. \A j \in Occupied(s) : j \in Slots(t, r) <=> j \in Slots(s, r)
    BY <2>1 DEF Slots, SameSlot, Occupied
  <2>5. CASE q # r
    <3>1. Slots(t, r) = Slots(s, r)
      <4>1. m \notin Slots(t, r)
        BY <2>1, <2>5 DEF Slots
      <4> QED
        BY <2>1, <2>3, <2>4, <4>1
    <3>2. \A k \in Slots(s, r) : SameSlot(s, t, k)
      BY <2>1, <2>3
    <3> QED
      BY <3>1, <3>2, AnsweredSame DEF t
  <2>6. CASE q = r
    <3>1. Slots(t, r) = Slots(s, r) \cup {m}
      <4>1. m \in Slots(t, r)
        BY <2>1, <2>6 DEF Slots, Occupied
      <4> QED
        BY <2>1, <2>3, <2>4, <4>1
    <3>2. ASSUME Spare(s, r) PROVE Spare(t, r)
      <4>1. PICK k \in Slots(s, r) : ~Armed(LossOf(s, k))
        BY <3>2 DEF Spare
      <4>2. LossOf(t, k) = LossOf(s, k) /\ k \in Slots(t, r)
        BY <2>1, <2>3, <3>1, <4>1 DEF SameSlot
      <4> QED
        BY <4>1, <4>2 DEF Spare
    <3>3. ASSUME ~Spare(s, r), NEW f \in Slots(t, r), NEW k \in Slots(t, r),
                 First(t, r, f), Quiet(t, k) <= T
          PROVE  \/ HeardWithin(t, f, k, L)
                 \/ HeardWithin(t, f, k, L + 1) /\ Awaited(t, k, still)
      <4>1. CASE k = m
        BY <2>1, <4>1 DEF NewSlot, HeardWithin
      <4>2. CASE k # m
        <5>1. k \in Slots(s, r) /\ k \in Occupied(s)
          BY <2>3, <3>1, <3>3, <4>2
        <5>2. f \in Slots(s, r) /\ First(s, r, f) /\ f \in Occupied(s)
          <6>1. f <= k /\ k < m /\ k \in Nat
            BY <2>1, <3>3, <5>1 DEF First
          <6>2. f # m
            BY <2>1, <6>1
          <6> QED
            BY <2>3, <3>1, <3>3, <6>2 DEF First
        <5>3. SameSlot(s, t, k) /\ SameSlot(s, t, f)
          BY <2>1, <5>1, <5>2
        <5>4. Quiet(t, k) = Quiet(s, k) /\ Quiet(t, f) = Quiet(s, f)
          BY <5>3, SameSlotInTime
        <5>5. Awaited(s, k, flying) => Awaited(t, k, still)
          BY <5>3 DEF Awaited, SameSlot
        <5>6. \/ HeardWithin(s, f, k, L)
              \/ HeardWithin(s, f, k, L + 1) /\ Awaited(s, k, flying)
          BY <3>3, <5>1, <5>2, <5>4 DEF Answered
        <5> QED
          BY <5>4, <5>5, <5>6 DEF HeardWithin
      <4> QED
        BY <4>1, <4>2
    <3> QED
      BY <3>2, <3>3 DEF Answered, t
  <2> QED
    BY <2>5, <2>6
<1> QED
  BY <1>1, <1>2

\* The quit message of another remote takes a slot of that one; the quit message of r
\* itself comes from before T was counted.
LEMMA AnsweredMessage ==
    ASSUME NEW s, SocketOK(s), AllInTime(s), NEW q \in Remote, NEW r \in Remote, NEW msg,
           ~QuitFromStranger(s, q, msg),
           NEW T, NEW L \in Nat, NEW flying \in BOOLEAN, NEW still \in BOOLEAN,
           Answered(s, r, T, L, flying),
           q = r /\ msg = "q" => T = 0,
           q # r \/ msg = "q" => (flying => still)
    PROVE  Answered(handleMessageUdp(s, q, msg), r, T, L, still)
<1> DEFINE f == findPeerByRemote(s, q)
           t == handleMessageUdp(s, q, msg)
<1>1. s \in Socket /\ SocketOK(t)
  BY HandleMessage DEF SocketOK
<1>2. Slots(s, r) \subseteq Occupied(s)
  BY <1>1, FindPeer
<1>3. ASSUME f # NULL
      PROVE  f \in Occupied(s) /\ f \in Slots(s, q) /\ First(s, q, f)
  BY <1>1, <1>3, FindPeer, FindsFirst
<1>4. q # r => (f = NULL \/ f \notin Slots(s, r))
  BY <1>3 DEF Slots
<1> HIDE DEF f
<1>5. CASE msg = "q"
  <2>1. f # NULL /\ t = removePeer(s, f)
    BY <1>5 DEF QuitFromStranger, handleMessageUdp, f
  <2> HIDE DEF t
  <2>2. CASE q = r
    <3>1. T = 0
      BY <1>5, <2>2
    <3> QED
      BY <1>1, <3>1, AnsweredAtOnce DEF t
  <2>3. CASE q # r
    <3>1. Occupied(t) = Occupied(s) \ {f} /\ \A j \in Occupied(t) : SameSlot(s, t, j)
      BY <1>3, <2>1, RemoveSlot
    <3>2. Slots(t, r) \subseteq Occupied(t)
      BY <1>1, SlotsOfRemote
    <3>3. \A k \in Occupied(t) : k \in Slots(t, r) <=> k \in Slots(s, r)
      BY <3>1 DEF Slots, SameSlot, Occupied
    <3>4. Slots(t, r) = Slots(s, r) /\ \A k \in Slots(s, r) : SameSlot(s, t, k)
      BY <1>2, <1>4, <2>1, <2>3, <3>1, <3>2, <3>3
    <3> QED
      BY <2>3, <3>4, AnsweredSame DEF t
  <2> QED
    BY <2>2, <2>3
<1>6. CASE msg # "q" /\ f # NULL
  <2>1. t = resetTasks(s, f)
    BY <1>6 DEF handleMessageUdp, f
  <2> HIDE DEF t
  <2>2. /\ t.peers = s.peers /\ NewSlot(t, f)
        /\ \A j \in Occupied(s) \ {f} : SameSlot(s, t, j)
    BY <1>3, <1>6, <2>1, ResetSlot DEF AllInTime
  <2>3. \A p : Slots(t, p) = Slots(s, p)
    BY <2>2 DEF Slots
  <2>4. CASE q = r
    <3>1. First(t, r, f)
      BY <1>3, <1>6, <2>3, <2>4 DEF First
    <3> QED
      BY <1>1, <2>2, <3>1, AnsweredByFirst DEF NewSlot, t
  <2>5. CASE q # r
    <3>1. \A k \in Slots(s, r) : SameSlot(s, t, k)
      BY <1>2, <1>4, <1>6, <2>2, <2>5
    <3> QED
      BY <2>3, <2>5, <3>1, AnsweredSame DEF t
  <2> QED
    BY <2>4, <2>5
<1>7. CASE msg # "q" /\ f = NULL
  <2>1. t = handleCommUpUdp(s, q) /\ Slots(s, q) = {}
    BY <1>1, <1>7, FindPeer DEF handleMessageUdp, f
  <2> HIDE DEF t
  <2>2. CASE q = r
    <3>1. ASSUME NEW k \in Slots(t, r) PROVE Quiet(t, k) = 0
      <4>1. CASE Full(s)
        BY <2>1, <2>2, <3>1, <4>1, CommUp
      <4>2. CASE ~Full(s)
        <5>1. /\ Occupied(t) = Occupied(s) \cup {Len(s.peers) + 1}
              /\ \A j \in Occupied(s) : SameSlot(s, t, j)
              /\ NewSlot(t, Len(s.peers) + 1)
          BY <2>1, <4>2, CommUpSlot
        <5>2. k \in Occupied(t)
          BY <1>1, <3>1, SlotsOfRemote
        <5>3. k \notin Occupied(s)
          BY <2>1, <2>2, <3>1, <5>1 DEF Slots, SameSlot, Occupied
        <5> QED
          BY <5>1, <5>2, <5>3 DEF NewSlot
      <4> QED
        BY <4>1, <4>2
    <3> QED
      BY <3>1 DEF Answered, HeardWithin, t
  <2>3. CASE q # r
    BY <2>1, <2>3, AnsweredCommUp DEF t
  <2> QED
    BY <2>2, <2>3
<1> QED
  BY <1>5, <1>6, <1>7

\* A comm lost task that is due has taken the slot f, the first one.  If it is not the
\* task of f, its own slot is spare from now on; if it is, f has waited longer than any
\* first slot may, so Answered speaks of the other slots alone.
LEMMA AnsweredAfterLoss ==
    ASSUME NEW s, SocketOK(s), AllInTime(s), NEW t, SocketOK(t), NEW r \in Remote,
           NEW T, NEW L \in Nat, L < keep_alive_probes, NEW flying \in BOOLEAN,
           Answered(s, r, T, L, flying),
           NEW f, First(s, r, f), NEW j \in Slots(s, r), Due(LossOf(s, j)),
           Slots(t, r) = Slots(s, r) \ {f},
           j # f => ~Armed(LossOf(t, j)),
           \A k \in Slots(s, r) \ {f, j} : SameSlot(s, t, k)
    PROVE  Answered(t, r, T, L, flying)
<1>1. CASE j # f
  BY <1>1 DEF Answered, Spare
<1>2. CASE j = f
  <2>1. Quiet(s, f) = LostDelay /\ Armed(LossOf(s, f))
    BY <1>2, SlotsOfRemote DEF Due, Armed
  <2>2. LostDelay = keep_alive_probes + 1 /\ keep_alive_probes \in Nat
    BY DEF LostDelay, keep_alive_period
  <2>3. ASSUME NEW k \in Slots(t, r)
        PROVE  /\ k \in Slots(s, r) /\ k # f
               /\ Quiet(t, k) = Quiet(s, k) /\ LossOf(t, k) = LossOf(s, k)
               /\ Awaited(s, k, flying) => Awaited(t, k, flying)
    <3>1. k \in Slots(s, r) \ {f, j}
      BY <1>2
    <3>2. SameSlot(s, t, k)
      BY <3>1
    <3> QED
      BY <3>1, <3>2 DEF SameSlot, Quiet, Awaited
  <2>4. CASE Spare(s, r)
    <3>1. PICK k \in Slots(s, r) : ~Armed(LossOf(s, k))
      BY <2>4 DEF Spare
    <3>2. k \in Slots(t, r)
      BY <2>1, <3>1
    <3>3. ~Armed(LossOf(t, k))
      BY <2>3, <3>1, <3>2
    <3> QED
      BY <3>2, <3>3 DEF Answered, Spare
  <2>5. CASE ~Spare(s, r)
    <3> SUFFICES ASSUME NEW g \in Slots(t, r), NEW k \in Slots(t, r), Quiet(t, k) <= T
                 PROVE  \/ HeardWithin(t, g, k, L)
                        \/ HeardWithin(t, g, k, L + 1) /\ Awaited(t, k, flying)
      BY DEF Answered
    <3>1. /\ k \in Slots(s, r) /\ Quiet(t, k) = Quiet(s, k)
          /\ Awaited(s, k, flying) => Awaited(t, k, flying)
      BY <2>3
    <3>2. \/ HeardWithin(s, f, k, L)
          \/ HeardWithin(s, f, k, L + 1) /\ Awaited(s, k, flying)
      BY <2>5, <3>1 DEF Answered, First
    <3>3. \/ Quiet(s, k) <= L
          \/ Quiet(s, k) <= L + 1 /\ Awaited(s, k, flying)
      <4>1. ~(Quiet(s, f) <= L) /\ ~(Quiet(s, f) <= L + 1)
        BY <2>1, <2>2
      <4> QED
        BY <3>2, <4>1 DEF HeardWithin
    <3> QED
      BY <3>1, <3>3 DEF HeardWithin
  <2> QED
    BY <2>4, <2>5
<1> QED
  BY <1>1, <1>2

\* A task that is due runs: a probe for r is on its way afterwards.
LEMMA AnsweredLaunch ==
    ASSUME NEW s, SocketOK(s), AllInTime(s), NEW i \in DOMAIN s.tasks, Due(s.tasks[i]),
           NEW r \in Remote, NEW T, NEW L \in Nat, L < keep_alive_probes,
           NEW flying \in BOOLEAN, NEW still \in BOOLEAN,
           Answered(s, r, T, L, flying), flying => still,
           s.tasks[i].callback = "ping" /\ s.tasks[i].params = r => still
    PROVE  Answered(launchTask(s, i), r, T, L, still)
<1> DEFINE q == s.tasks[i].params
           l == [s EXCEPT !.tasks = Launched(s.tasks, i)]
           t == launchTask(s, i)
<1>1. /\ s \in Socket /\ SocketOK(t) /\ s.tasks[i] \in Task /\ q \in Remote
      /\ OwnsTasks(s) /\ Armed(s.tasks[i])
  <2>1. s.tasks[i] \in Task
    BY DEF SocketOK, Socket
  <2> QED
    BY <2>1, LaunchTask DEF SocketOK, Task, Due, Armed
<1>2. l.peers = s.peers /\ \A p : Slots(l, p) = Slots(s, p)
  BY DEF SocketOK, Socket, Slots
<1>3. SocketOK(l)
  BY LaunchedSocket
<1>4. ASSUME NEW k \in Occupied(s)
      PROVE  /\ i \notin {s.peers[k].ping_task, s.peers[k].comm_lost_task} =>
                   SameSlot(s, l, k)
             /\ i = s.peers[k].ping_task =>
                   /\ LossOf(l, k) = LossOf(s, k) /\ s.tasks[i].callback = "ping"
                   /\ s.tasks[i].params = s.peers[k].remote
             /\ i = s.peers[k].comm_lost_task =>
                   /\ ~Armed(LossOf(l, k)) /\ s.tasks[i].callback = "commLost"
                   /\ s.tasks[i].params = s.peers[k].remote
  <2>1. PointsToTasks(s, k) /\ InTime(s, k)
    BY Apart DEF AllInTime
  <2>2. /\ i \notin {s.peers[k].ping_task, s.peers[k].comm_lost_task} => SameSlot(s, l, k)
        /\ i = s.peers[k].ping_task => LossOf(l, k) = LossOf(s, k)
        /\ i = s.peers[k].comm_lost_task => ~Armed(LossOf(l, k))
    BY <2>1, LaunchedSlots
  <2>3. /\ i = s.peers[k].ping_task =>
             s.tasks[i].callback = "ping" /\ s.tasks[i].params = s.peers[k].remote
        /\ i = s.peers[k].comm_lost_task =>
             s.tasks[i].callback = "commLost" /\ s.tasks[i].params = s.peers[k].remote
    BY <2>1 DEF PointsToTasks
  <2> QED
    BY <2>2, <2>3
<1>5. Slots(s, r) \subseteq Occupied(s)
  BY <1>1, FindPeer
<1> HIDE DEF t, l, q
<1>6. CASE s.tasks[i].callback = "ping"
  <2>1. t = l
    BY <1>6 DEF launchTask, t, l
  <2>2. ASSUME NEW k \in Slots(s, r)
        PROVE  /\ LossOf(t, k) = LossOf(s, k) /\ Quiet(t, k) = Quiet(s, k)
               /\ Awaited(s, k, flying) => Awaited(t, k, still)
    <3>1. k \in Occupied(s) /\ s.peers[k].remote = r
      BY <1>5 DEF Slots
    <3>2. CASE i = s.peers[k].ping_task
      BY <1>4, <2>1, <3>1, <3>2 DEF Awaited, Quiet
    <3>3. CASE i # s.peers[k].ping_task
      BY <1>4, <1>6, <2>1, <3>1, <3>3 DEF SameSlot, Awaited, Quiet
    <3> QED
      BY <3>2, <3>3
  <2>3. Slots(t, r) = Slots(s, r) /\ \A f : First(t, r, f) <=> First(s, r, f)
    BY <1>2, <2>1 DEF First
  <2>4. Spare(s, r) => Spare(t, r)
    BY <2>2, <2>3 DEF Spare
  <2> QED
    BY <2>2, <2>3, <2>4 DEF Answered, HeardWithin, t
<1>7. CASE s.tasks[i].callback = "commLost"
  <2> DEFINE f == findPeerByRemote(s, q)
             u == scheduleReestablishment(l, q)
  <2>1. CallbackFindsPeer(s, i)
    BY <1>1, ArmedLossFindsPeer
  <2>2. f # NULL
    BY <1>7, <2>1 DEF CallbackFindsPeer, q
  <2>3. /\ f \in Occupied(s) /\ f \in Slots(s, q) /\ First(s, q, f)
    BY <1>1, <2>2, FindPeer, FindsFirst
  <2>4. t = removePeer(u, f)
    <3>1. findPeerByRemote(l, q) = f
      BY <1>2 DEF findPeerByRemote
    <3> QED
      BY <1>7, <3>1 DEF launchTask, handleCommLostUdp, t, l, q
  <2> HIDE DEF f, u
  <2>5. /\ u.peers = s.peers /\ SocketOK(u)
        /\ \A k \in Occupied(s) : SameSlot(l, u, k)
    <3>1. Occupied(l) = Occupied(s)
      BY <1>2 DEF Occupied
    <3> QED
      BY <1>1, <1>2, <1>3, <3>1, ReestablishmentSlots, Reestablishment DEF u
  <2>6. /\ Occupied(t) = Occupied(s) \ {f}
        /\ \A k \in Occupied(t) : SameSlot(l, t, k) /\ t.peers[k] = s.peers[k]
    <3>1. Occupied(u) = Occupied(s)
      BY <2>5 DEF Occupied
    <3>2. Occupied(t) = Occupied(u) \ {f} /\ \A k \in Occupied(t) : SameSlot(u, t, k)
      BY <2>3, <2>4, <2>5, <3>1, RemoveSlot
    <3> QED
      BY <2>5, <3>1, <3>2 DEF SameSlot
  <2>7. PICK j \in Slots(s, q) : i = s.peers[j].comm_lost_task
    BY <1>1, <1>7, LossHasSlot DEF Losses, q
  <2>8. j \in Occupied(s) /\ Slots(t, r) \subseteq Occupied(t)
    BY <1>1, <2>7, SlotsOfRemote
  <2>9. ASSUME NEW k \in Occupied(t), k # j PROVE SameSlot(s, t, k)
    <3>1. k \in Occupied(s) /\ SameSlot(l, t, k)
      BY <2>6
    <3>2. i \notin {s.peers[k].ping_task, s.peers[k].comm_lost_task}
      BY <2>7, <2>8, <2>9, <3>1, Apart
    <3>3. SameSlot(s, l, k)
      BY <1>4, <3>1, <3>2
    <3> QED
      BY <3>1, <3>3 DEF SameSlot
  <2>10. Slots(t, r) = Slots(s, r) \ {f}
    <3>1. \A k \in Occupied(t) : k \in Slots(t, r) <=> k \in Slots(s, r)
      BY <2>6 DEF Slots, Occupied
    <3> QED
      BY <1>5, <2>6, <2>8, <3>1
  <2>11. CASE q = r
    <3>1. Due(LossOf(s, j))
      BY <2>7 DEF LossOf
    <3>2. j # f => ~Armed(LossOf(t, j))
      <4>1. ASSUME j # f PROVE ~Armed(LossOf(t, j))
        <5>1. j \in Occupied(t)
          BY <2>6, <2>8, <4>1
        <5>2. LossOf(t, j) = LossOf(l, j)
          BY <2>6, <5>1 DEF SameSlot
        <5>3. ~Armed(LossOf(l, j))
          BY <1>4, <2>7, <2>8
        <5> QED
          BY <5>2, <5>3
      <4> QED
        BY <4>1
    <3>3. \A k \in Slots(s, r) \ {f, j} : SameSlot(s, t, k)
      BY <1>5, <2>6, <2>9
    <3>4. Answered(t, r, T, L, flying)
      BY <1>1, <2>3, <2>7, <2>10, <2>11, <3>1, <3>2, <3>3, AnsweredAfterLoss
    <3>5. \A k \in Slots(t, r) : SameSlot(t, t, k)
      BY DEF SameSlot
    <3> QED
      BY <3>4, <3>5, AnsweredSame DEF t
  <2>12. CASE q # r
    <3>1. f \notin Slots(s, r) /\ j \notin Slots(s, r)
      BY <2>3, <2>7, <2>12 DEF Slots
    <3>2. Slots(t, r) = Slots(s, r) /\ \A k \in Slots(s, r) : SameSlot(s, t, k)
      BY <2>8, <2>9, <2>10, <3>1
    <3> QED
      BY <3>2, AnsweredSame DEF t
  <2> QED
    BY <2>11, <2>12
<1>8. CASE s.tasks[i].callback = "reestablish"
  <2>1. t = handleCommUpUdp(l, q)
    BY <1>8 DEF launchTask, reestablish, connectFirst, t, l, q
  <2>2. \A k \in Slots(s, r) : SameSlot(s, l, k)
    BY <1>4, <1>5, <1>8
  <2>3. Answered(l, r, T, L, flying)
    BY <1>2, <2>2, AnsweredSame
  <2> QED
    BY <1>1, <1>3, <2>1, <2>3, AnsweredCommUp DEF t
<1> QED
  BY <1>1, <1>6, <1>7, <1>8 DEF Task

\* A period passes with nothing on its way: then no answer is awaited, and afterwards
\* each slot has a timer that is due.
LEMMA AnsweredTick ==
    ASSUME NEW s, SocketOK(s), AllInTime(s), NoneDue(s.tasks), NEW r \in Remote,
           NEW T \in Nat, T <= LostDelay, NEW L \in Nat, NEW still,
           Answered(s, r, T, L, FALSE)
    PROVE  Answered([s EXCEPT !.tasks = Elapsed(s.tasks)], r,
                    IF T < LostDelay THEN T + 1 ELSE T, L, still)
<1> DEFINE t == [s EXCEPT !.tasks = Elapsed(s.tasks)]
           T2 == IF T < LostDelay THEN T + 1 ELSE T
<1>1. t.peers = s.peers /\ Slots(t, r) = Slots(s, r) /\ LostDelay \in Nat
  BY DelayIsNat DEF SocketOK, Socket, Slots
<1>2. ASSUME NEW k \in Slots(s, r)
      PROVE  /\ Armed(LossOf(t, k)) <=> Armed(LossOf(s, k))
             /\ Armed(LossOf(s, k)) => /\ Quiet(t, k) = Quiet(s, k) + 1
                                       /\ Awaited(t, k, still)
             /\ ~Awaited(s, k, FALSE)
             /\ Quiet(s, k) \in Int /\ Quiet(s, k) <= LostDelay
  <2>1. /\ k \in Occupied(s) /\ Quiet(s, k) \in Int /\ Quiet(s, k) <= LostDelay
    BY SlotsOfRemote
  <2>2. ~Due(PingOf(s, k)) /\ ~Due(LossOf(s, k))
    BY <2>1, Apart DEF NoneDue, PointsToTasks, PingOf, LossOf
  <2>3. /\ Armed(LossOf(t, k)) <=> Armed(LossOf(s, k))
        /\ Armed(LossOf(s, k)) => /\ Quiet(t, k) = Quiet(s, k) + 1
                                  /\ Due(PingOf(t, k)) \/ Due(LossOf(t, k))
    BY <2>1, ElapsedSlots DEF AllInTime
  <2> HIDE DEF t
  <2> QED
    BY <2>1, <2>2, <2>3 DEF Awaited
<1> HIDE DEF t
<1>3. CASE Spare(s, r)
  BY <1>1, <1>2, <1>3 DEF Answered, Spare, t
<1>4. CASE ~Spare(s, r)
  <2> SUFFICES ASSUME NEW f \in Slots(s, r), NEW k \in Slots(s, r), First(s, r, f),
                      Quiet(t, k) <= T2
               PROVE  HeardWithin(t, f, k, L + 1) /\ Awaited(t, k, still)
    BY <1>1 DEF Answered, First, t
  <2>1. Armed(LossOf(s, k)) /\ Armed(LossOf(s, f))
    BY <1>4 DEF Spare
  <2>2. /\ Quiet(t, k) = Quiet(s, k) + 1 /\ Quiet(t, f) = Quiet(s, f) + 1
        /\ Awaited(t, k, still) /\ ~Awaited(s, k, FALSE)
        /\ Quiet(s, k) \in Int /\ Quiet(s, k) <= LostDelay /\ Quiet(s, f) \in Int
    BY <1>2, <2>1
  <2>3. Quiet(s, k) <= T
    BY <1>1, <2>2
  <2>4. HeardWithin(s, f, k, L)
    BY <1>4, <2>2, <2>3 DEF Answered
  <2> QED
    BY <2>2, <2>4 DEF HeardWithin
<1> QED
  BY <1>3, <1>4

------------------------------------------------------------------------------
\* The functions of SocketUdp keep the timers of all slots together.

LEMMA CommUpInTime ==
    ASSUME NEW s, SocketOK(s), AllInTime(s), NEW r \in Remote
    PROVE  AllInTime(handleCommUpUdp(s, r))
<1> DEFINE t == handleCommUpUdp(s, r)
<1>1. CASE Full(s)
  BY <1>1, CommUp
<1>2. CASE ~Full(s)
  <2>1. /\ Occupied(t) = Occupied(s) \cup {Len(s.peers) + 1}
        /\ \A j \in Occupied(s) : SameSlot(s, t, j)
        /\ NewSlot(t, Len(s.peers) + 1)
    BY <1>2, CommUpSlot
  <2> HIDE DEF t
  <2>2. ASSUME NEW k \in Occupied(t) PROVE InTime(t, k)
    BY <2>1, SameSlotInTime DEF AllInTime, NewSlot
  <2> QED
    BY <2>2 DEF AllInTime, t
<1> QED
  BY <1>1, <1>2

LEMMA RemoveInTime ==
    ASSUME NEW s, SocketOK(s), AllInTime(s), NEW k \in Occupied(s)
    PROVE  AllInTime(removePeer(s, k))
<1> DEFINE t == removePeer(s, k)
<1>1. Occupied(t) \subseteq Occupied(s) /\ \A j \in Occupied(t) : SameSlot(s, t, j)
  BY RemoveSlot
<1> HIDE DEF t
<1>2. ASSUME NEW j \in Occupied(t) PROVE InTime(t, j)
  BY <1>1, SameSlotInTime DEF AllInTime
<1> QED
  BY <1>2 DEF AllInTime, t

LEMMA MessageInTime ==
    ASSUME NEW s, SocketOK(s), AllInTime(s), NEW r \in Remote, NEW msg,
           ~QuitFromStranger(s, r, msg)
    PROVE  AllInTime(handleMessageUdp(s, r, msg))
<1> DEFINE k == findPeerByRemote(s, r)
           t == handleMessageUdp(s, r, msg)
<1>1. k # NULL => k \in Occupied(s)
  BY FindPeer DEF SocketOK
<1> HIDE DEF k
<1>2. CASE msg = "q"
  <2>1. k # NULL /\ t = removePeer(s, k)
    BY <1>2 DEF QuitFromStranger, handleMessageUdp, k
  <2> QED
    BY <1>1, <2>1, RemoveInTime
<1>3. CASE msg # "q" /\ k # NULL
  <2>1. t = resetTasks(s, k)
    BY <1>3 DEF handleMessageUdp, k
  <2> HIDE DEF t
  <2>2. /\ t.peers = s.peers /\ NewSlot(t, k)
        /\ \A j \in Occupied(s) \ {k} : SameSlot(s, t, j)
    BY <1>1, <1>3, <2>1, ResetSlot DEF AllInTime
  <2>3. Occupied(t) = Occupied(s)
    BY <2>2 DEF Occupied
  <2>4. ASSUME NEW j \in Occupied(t) PROVE InTime(t, j)
    <3>1. CASE j = k
      BY <2>2, <3>1 DEF NewSlot
    <3>2. CASE j # k
      BY <2>2, <2>3, <3>2, SameSlotInTime DEF AllInTime
    <3> QED
      BY <3>1, <3>2
  <2> QED
    BY <2>4 DEF AllInTime, t
<1>4. CASE msg # "q" /\ k = NULL
  <2>1. t = handleCommUpUdp(s, r)
    BY <1>4 DEF handleMessageUdp, k
  <2> QED
    BY <2>1, CommUpInTime
<1> QED
  BY <1>2, <1>3, <1>4

LEMMA LaunchInTime ==
    ASSUME NEW s, SocketOK(s), AllInTime(s), NEW i \in DOMAIN s.tasks, Due(s.tasks[i])
    PROVE  AllInTime(launchTask(s, i))
<1> DEFINE q == s.tasks[i].params
           l == [s EXCEPT !.tasks = Launched(s.tasks, i)]
           t == launchTask(s, i)
<1>1. s \in Socket /\ s.tasks[i] \in Task /\ q \in Remote /\ Armed(s.tasks[i])
  <2>1. s.tasks[i] \in Task
    BY DEF SocketOK, Socket
  <2> QED
    BY <2>1 DEF SocketOK, Task, Due, Armed
<1>2. l.peers = s.peers
  BY DEF SocketOK, Socket
<1>3. SocketOK(l)
  BY LaunchedSocket
<1>4. \A k \in Occupied(s) : InTime(l, k)
  BY LaunchedSlots DEF AllInTime
<1> HIDE DEF t, l, q
<1>5. Occupied(l) = Occupied(s) /\ AllInTime(l)
  BY <1>2, <1>4 DEF Occupied, AllInTime
<1>6. CASE s.tasks[i].callback = "ping"
  BY <1>5, <1>6 DEF launchTask, t, l
<1>7. CASE s.tasks[i].callback = "commLost"
  <2> DEFINE u == scheduleReestablishment(l, q)
             f == findPeerByRemote(s, q)
  <2>1. f # NULL
    BY <1>1, <1>7, ArmedLossFindsPeer DEF CallbackFindsPeer, q
  <2>2. f \in Occupied(s)
    BY <1>1, <2>1, FindPeer
  <2>3. t = removePeer(u, f)
    <3>1. findPeerByRemote(l, q) = f
      BY <1>2 DEF findPeerByRemote
    <3> QED
      BY <1>7, <3>1 DEF launchTask, handleCommLostUdp, t, l, q
  <2> HIDE DEF f, u
  <2>4. u.peers = l.peers /\ SocketOK(u) /\ \A k \in Occupied(l) : SameSlot(l, u, k)
    BY <1>1, <1>3, ReestablishmentSlots, Reestablishment DEF u
  <2>5. Occupied(u) = Occupied(l)
    BY <2>4 DEF Occupied
  <2>6. ASSUME NEW k \in Occupied(u) PROVE InTime(u, k)
    BY <1>5, <2>4, <2>5, SameSlotInTime DEF AllInTime
  <2>7. AllInTime(u)
    BY <2>6 DEF AllInTime
  <2> QED
    BY <1>5, <2>2, <2>3, <2>4, <2>5, <2>7, RemoveInTime DEF t
<1>8. CASE s.tasks[i].callback = "reestablish"
  <2>1. t = handleCommUpUdp(l, q)
    BY <1>8 DEF launchTask, reestablish, connectFirst, t, l, q
  <2> QED
    BY <1>1, <1>3, <1>5, <2>1, CommUpInTime DEF t
<1> QED
  BY <1>1, <1>6, <1>7, <1>8 DEF Task

LEMMA ElapsedInTime ==
    ASSUME NEW s, SocketOK(s), AllInTime(s), NoneDue(s.tasks)
    PROVE  AllInTime([s EXCEPT !.tasks = Elapsed(s.tasks)])
<1> DEFINE t == [s EXCEPT !.tasks = Elapsed(s.tasks)]
<1>1. Occupied(t) = Occupied(s)
  BY DEF Occupied, SocketOK, Socket
<1>2. ASSUME NEW k \in Occupied(s) PROVE InTime(t, k)
  BY ElapsedSlots DEF AllInTime
<1> QED
  BY <1>1, <1>2 DEF AllInTime

LEMMA ZeroedSocketOK == SocketOK(zeroedSocket) /\ AllInTime(zeroedSocket)
<1>1. zeroedSocket \in Socket
  <2>1. <<>> \in Seq(Peer) /\ <<>> \in Seq(Task) /\ Len(<<>>) = 0
    OBVIOUS
  <2>2. 0 <= peers_max_count
    BY BoundAssumption
  <2> QED
    BY <2>1, <2>2 DEF zeroedSocket, Socket
<1>2. OwnsTasks(zeroedSocket) /\ LossDelays(zeroedSocket) /\ AllInTime(zeroedSocket)
  BY DEF zeroedSocket, OwnsTasks, Occupied, LossDelays, AllInTime
<1> QED
  BY <1>1, <1>2 DEF SocketOK

\* The first n iterations of the loop of connectSocketUdp.
Iterations(remotes, n, f) ==
    f = [k \in 0 .. n |-> IF k = 0 THEN zeroedSocket
                          ELSE handleCommUpUdp(f[k - 1], remotes[k])]

\* The loop can be iterated: a shortest sequence for which it could not has one iteration
\* more than one for which it can.
LEMMA LoopIterates ==
    ASSUME NEW remotes \in Seq(Remote)
    PROVE  \E f : Iterations(remotes, Len(remotes), f)
<1> DEFINE Bad == {n \in 0 .. Len(remotes) : ~\E f : Iterations(remotes, n, f)}
<1>1. Len(remotes) \in Nat /\ Bad \subseteq Nat
  OBVIOUS
<1>2. SUFFICES ASSUME Bad # {} PROVE FALSE
  BY <1>1
<1>3. PICK n \in Bad : \A i \in Bad : n <= i
  <2> HIDE DEF Bad
  <2> QED
    BY <1>1, <1>2, LeastElement
<1>4. n \in Nat /\ n <= Len(remotes) /\ ~\E f : Iterations(remotes, n, f)
  BY <1>1
<1>5. CASE n = 0
  <2> DEFINE g == [k \in 0 .. 0 |-> zeroedSocket]
  <2>1. Iterations(remotes, 0, g)
    BY DEF Iterations
  <2> QED
    BY <1>4, <1>5, <2>1
<1>6. CASE n # 0
  <2>1. n - 1 \in 0 .. Len(remotes) /\ ~(n <= n - 1)
    BY <1>1, <1>4, <1>6
  <2>2. n - 1 \notin Bad
    <3> HIDE DEF Bad
    <3> QED
      BY <1>3, <2>1
  <2>3. PICK f : Iterations(remotes, n - 1, f)
    BY <2>1, <2>2
  <2> DEFINE g == [k \in 0 .. n |-> IF k = n THEN handleCommUpUdp(f[n - 1], remotes[n])
                                   ELSE f[k]]
  <2>4. /\ \A k \in 0 .. n - 1 : g[k] = f[k] /\ g[n] = handleCommUpUdp(f[n - 1], remotes[n])
        /\ g = [k \in 0 .. n |-> g[k]]
    BY <1>4, <1>6
  <2>5. ASSUME NEW k \in 0 .. n
        PROVE  g[k] = IF k = 0 THEN zeroedSocket ELSE handleCommUpUdp(g[k - 1], remotes[k])
    <3>1. k \in Nat /\ (k = n \/ k \in 0 .. n - 1) /\ (k # 0 => k - 1 \in 0 .. n - 1)
          /\ 0 \in 0 .. n - 1
      BY <1>4, <1>6
    <3>2. CASE k = n
      <4>1. g[n] = handleCommUpUdp(f[n - 1], remotes[n])
        BY <2>4, <3>1
      <4>2. g[k - 1] = f[k - 1]
        BY <1>6, <2>4, <3>1, <3>2
      <4> HIDE DEF g
      <4> QED
        BY <1>6, <3>2, <4>1, <4>2
    <3>3. CASE k # n
      <4>1. k \in 0 .. n - 1 /\ g[k] = f[k] /\ (k # 0 => g[k - 1] = f[k - 1])
        BY <2>4, <3>1, <3>3
      <4>2. f[k] = IF k = 0 THEN zeroedSocket ELSE handleCommUpUdp(f[k - 1], remotes[k])
        BY <2>3, <4>1 DEF Iterations
      <4> HIDE DEF g
      <4> QED
        BY <4>1, <4>2
    <3> QED
      BY <3>2, <3>3
  <2> HIDE DEF g
  <2>6. Iterations(remotes, n, g)
    BY <2>4, <2>5 DEF Iterations
  <2> QED
    BY <1>4, <2>6
<1> QED
  BY <1>5, <1>6

\* An endpoint starts with a well-formed socket, all its timers just started.
LEMMA Connected ==
    ASSUME NEW remotes \in Seq(Remote)
    PROVE  SocketOK(connectSocketUdp(remotes)) /\ AllInTime(connectSocketUdp(remotes))
<1> DEFINE N == Len(remotes)
           connected == CHOOSE f : Iterations(remotes, N, f)
           Good(s) == SocketOK(s) /\ AllInTime(s)
           Bad == {k \in 0 .. N : ~Good(connected[k])}
<1>1. Iterations(remotes, N, connected)
  BY LoopIterates
<1>2. connectSocketUdp(remotes) = connected[N]
  BY DEF connectSocketUdp, Iterations
<1>3. N \in Nat /\ Bad \subseteq Nat
  OBVIOUS
<1> HIDE DEF connected, N
<1>4. \A k \in 0 .. N : connected[k] = IF k = 0 THEN zeroedSocket
                                       ELSE handleCommUpUdp(connected[k - 1], remotes[k])
  BY <1>1 DEF Iterations
<1>5. ASSUME Bad # {} PROVE FALSE
  <2>1. PICK k \in Bad : \A i \in Bad : k <= i
    <3> HIDE DEF Bad
    <3> QED
      BY <1>3, <1>5, LeastElement
  <2>2. k \in 0 .. N /\ ~Good(connected[k])
    OBVIOUS
  <2>3. k # 0
    BY <1>4, <2>2, ZeroedSocketOK
  <2>4. k - 1 \in 0 .. N /\ k \in 1 .. N /\ ~(k <= k - 1)
    BY <1>3, <2>2, <2>3
  <2>5. Good(connected[k - 1])
    <3>1. k - 1 \notin Bad
      <4> HIDE DEF Bad
      <4> QED
        BY <2>1, <2>4
    <3> QED
      BY <2>4, <3>1
  <2>6. remotes[k] \in Remote
    BY <2>4 DEF N
  <2>7. connected[k] = handleCommUpUdp(connected[k - 1], remotes[k])
    BY <1>4, <2>2, <2>3
  <2> QED
    BY <2>2, <2>5, <2>6, <2>7, CommUp, CommUpInTime
<1>6. N \in 0 .. N
  BY <1>3
<1> QED
  BY <1>2, <1>5, <1>6

------------------------------------------------------------------------------
\* Bags of datagrams.

LEMMA BagOfSet ==
    ASSUME NEW S
    PROVE  IsABag(SetToBag(S)) /\ BagToSet(SetToBag(S)) = S
BY DEF IsABag, SetToBag, BagToSet

LEMMA BagAdd ==
    ASSUME NEW B, NEW C, IsABag(B), IsABag(C)
    PROVE  /\ IsABag(B (+) C)
           /\ BagToSet(B (+) C) = BagToSet(B) \cup BagToSet(C)
<1> DEFINE D == B (+) C
<1>1. ASSUME NEW e \in DOMAIN B \cup DOMAIN C
      PROVE  D[e] \in Nat /\ D[e] > 0
  <2>1. /\ e \in DOMAIN B => B[e] \in Nat /\ B[e] > 0
        /\ e \in DOMAIN C => C[e] \in Nat /\ C[e] > 0
    BY DEF IsABag
  <2>2. D[e] = (IF e \in DOMAIN B THEN B[e] ELSE 0) + (IF e \in DOMAIN C THEN C[e] ELSE 0)
    BY DEF (+)
  <2> QED
    BY <2>1, <2>2
<1>2. DOMAIN D = DOMAIN B \cup DOMAIN C /\ D = [e \in DOMAIN D |-> D[e]]
  BY DEF (+)
<1> HIDE DEF D
<1> QED
  BY <1>1, <1>2 DEF IsABag, BagToSet, D

LEMMA BagTake ==
    ASSUME NEW B, IsABag(B), NEW m
    PROVE  /\ IsABag(B (-) SetToBag({m}))
           /\ BagToSet(B (-) SetToBag({m})) \subseteq BagToSet(B)
           /\ BagToSet(B) \ {m} \subseteq BagToSet(B (-) SetToBag({m}))
<1> DEFINE C == SetToBag({m})
           R == [e \in DOMAIN B |-> IF e \in DOMAIN C THEN B[e] - C[e] ELSE B[e]]
           D == B (-) C
<1>1. DOMAIN C = {m} /\ C[m] = 1
  BY DEF SetToBag
<1>2. D = [e \in {d \in DOMAIN R : R[d] > 0} |-> R[e]]
  BY DEF (-)
<1>3. ASSUME NEW e \in DOMAIN B
      PROVE  R[e] \in Int /\ (e # m => R[e] > 0)
  <2>1. B[e] \in Nat /\ B[e] > 0
    BY DEF IsABag
  <2> HIDE DEF C
  <2>2. R[e] = IF e = m THEN B[e] - 1 ELSE B[e]
    BY <1>1
  <2> QED
    BY <2>1, <2>2
<1>4. DOMAIN R = DOMAIN B
  OBVIOUS
<1> HIDE DEF R, D
<1>5. /\ DOMAIN D = {d \in DOMAIN B : R[d] > 0}
      /\ \A e \in DOMAIN D : D[e] \in Nat /\ D[e] > 0
      /\ D = [e \in DOMAIN D |-> D[e]]
  <2>1. DOMAIN D = {d \in DOMAIN B : R[d] > 0}
    BY <1>2, <1>4
  <2>2. \A e \in DOMAIN D : D[e] = R[e]
    BY <1>2
  <2>3. D = [e \in DOMAIN D |-> D[e]]
    BY <1>2
  <2>4. ASSUME NEW e \in DOMAIN D PROVE D[e] \in Nat /\ D[e] > 0
    BY <1>3, <2>1, <2>2
  <2> QED
    BY <2>1, <2>3, <2>4
<1> QED
  BY <1>3, <1>5 DEF IsABag, BagToSet, D

------------------------------------------------------------------------------
\* What the network of endpoints does.

USE RemotesOfAssumption, MaxAssumption

InFlight(a, b, msg) == [from |-> a, to |-> b, msg |-> msg] \in BagToSet(net)

\* A probe from a to b is on its way, or anything from b that resets a's timers.
Flying(a, b) == InFlight(a, b, "ka") \/ \E msg \in Message \ {"q"} : InFlight(b, a, msg)

NodeInv(n) ==
    /\ SocketOK(sockets[n]) /\ AllInTime(sockets[n])
    /\ n \notin up => sockets[n] = zeroedSocket

\* Only periods in which both are up are counted, and a quit message arrives or is lost
\* before the next period: while it is in flight none has been counted.
TogetherWhileUp(a, b) == together[a][b] > 0 => {a, b} \subseteq up
QuitBeforePeriod(a, b) == InFlight(b, a, "q") => together[a][b] = 0

HeardFrom(a, b) ==
    lost < keep_alive_probes =>
        Answered(sockets[a], b, together[a][b], lost, Flying(a, b))

PairInv(a, b) == TogetherWhileUp(a, b) /\ QuitBeforePeriod(a, b) /\ HeardFrom(a, b)

\* What every step keeps.  PeerKept needs HeardFrom of the state before the step; a quit
\* message would take a slot at once, and a period that passes with an endpoint down
\* would count for a silence that no answer could end: hence the other two.
NetworkInv ==
    /\ NetworkTypeOK
    /\ \A n \in Node : NodeInv(n)
    /\ \A a, b \in Node : PairInv(a, b)

\* The socket of a and what a and b have exchanged, with the same counters and more on
\* its way, or less if a datagram was lost for it.
LEMMA HeardFromSame ==
    ASSUME NEW a \in Node, NEW b \in Node, PairInv(a, b), NodeInv(a),
           sockets'[a] = sockets[a], together'[a][b] = together[a][b],
           \/ lost' = lost /\ (Flying(a, b) => Flying(a, b)')
           \/ lost' = lost + 1
           \/ together[a][b] = 0,
           lost \in Nat, lost' \in Nat, lost <= lost'
    PROVE  HeardFrom(a, b)'
<1> DEFINE T == together[a][b]
           s == sockets[a]
           fl == Flying(a, b)
           fl2 == Flying(a, b)'
<1>1. SUFFICES ASSUME lost' < keep_alive_probes PROVE Answered(s, b, T, lost', fl2)
  BY DEF HeardFrom
<1>2. /\ SocketOK(s) /\ b \in Remote /\ Answered(s, b, T, lost, fl)
  BY <1>1 DEF NodeInv, PairInv, HeardFrom, Node
<1>3. fl \in BOOLEAN /\ fl2 \in BOOLEAN
  BY DEF Flying, InFlight
<1> HIDE DEF T, s, fl, fl2
<1>4. CASE T = 0
  BY <1>2, <1>4, AnsweredAtOnce
<1>5. CASE lost' = lost + 1
  BY <1>2, <1>5, AnsweredLost
<1>6. CASE lost' = lost /\ (fl => fl2)
  <2>1. Slots(s, b) = Slots(s, b) /\ \A k \in Slots(s, b) : SameSlot(s, s, k)
    BY DEF SameSlot
  <2> QED
    BY <1>2, <1>3, <1>6, <2>1, AnsweredSame
<1> QED
  BY <1>4, <1>5, <1>6 DEF T, fl, fl2

LEMMA NetworkInvInit == NetworkInit => NetworkInv
<1> SUFFICES ASSUME NetworkInit PROVE NetworkInv
  OBVIOUS
<1>1. /\ up = {} /\ net = SetToBag({}) /\ ticked = {} /\ starts = 0 /\ lost = 0
      /\ \A n \in Node : sockets[n] = zeroedSocket
      /\ \A a, b \in Node : together[a][b] = 0
      /\ DOMAIN sockets = Node /\ DOMAIN together = Node
      /\ \A a \in Node : DOMAIN together[a] = Node
  BY DEF NetworkInit, EmptyBag
<1>2. NetworkTypeOK
  <2>1. zeroedSocket \in Socket
    BY ZeroedSocketOK DEF SocketOK
  <2>2. sockets \in [Node -> Socket] /\ together \in [Node -> [Node -> 0 .. LostDelay]]
    BY <2>1, DelayIsNat DEF NetworkInit
  <2>3. IsABag(net) /\ BagToSet(net) = {}
    BY <1>1, BagOfSet
  <2> QED
    BY <1>1, <2>2, <2>3 DEF NetworkTypeOK
<1>3. ASSUME NEW n \in Node PROVE NodeInv(n)
  BY <1>1, ZeroedSocketOK DEF NodeInv
<1>4. ASSUME NEW a \in Node, NEW b \in Node PROVE PairInv(a, b)
  <2>1. HeardFrom(a, b)
    BY <1>1, ZeroedSocketOK, AnsweredAtOnce DEF HeardFrom, Node
  <2> QED
    BY <1>1, <2>1 DEF PairInv, TogetherWhileUp, QuitBeforePeriod
<1> QED
  BY <1>2, <1>3, <1>4 DEF NetworkInv

LEMMA NetworkInvStutter == NetworkInv /\ UNCHANGED networkVars => NetworkInv'
<1> SUFFICES ASSUME NetworkInv, UNCHANGED networkVars PROVE NetworkInv'
  OBVIOUS
<1>1. NetworkTypeOK'
  BY DEF NetworkInv, networkVars, NetworkTypeOK
<1>2. ASSUME NEW n \in Node PROVE NodeInv(n)'
  BY DEF NetworkInv, networkVars, NodeInv
<1>3. ASSUME NEW a \in Node, NEW b \in Node PROVE PairInv(a, b)'
  BY DEF NetworkInv, networkVars, PairInv, TogetherWhileUp, QuitBeforePeriod, HeardFrom,
         Flying, InFlight
<1> QED
  BY <1>1, <1>2, <1>3 DEF NetworkInv

\* What the invariant says of one endpoint and of two, with the types unfolded.
LEMMA NetworkFacts ==
    ASSUME NetworkInv
    PROVE  /\ sockets \in [Node -> Socket] /\ up \subseteq Node /\ ticked \subseteq up
           /\ IsABag(net) /\ BagToSet(net) \subseteq Datagram
           /\ starts \in 0 .. MaxStarts /\ lost \in 0 .. MaxLost /\ lost \in Nat
           /\ LostDelay \in Nat
           /\ together \in [Node -> [Node -> 0 .. LostDelay]]
           /\ \A a, b \in Node : /\ PairInv(a, b) /\ NodeInv(a) /\ a \in Remote
                                 /\ together[a][b] \in 0 .. LostDelay
                                 /\ a \notin up \/ b \notin up => together[a][b] = 0
<1>1. NetworkTypeOK /\ LostDelay \in Nat
  BY DelayIsNat DEF NetworkInv
<1>2. ASSUME NEW a \in Node, NEW b \in Node
      PROVE  /\ PairInv(a, b) /\ NodeInv(a) /\ a \in Remote
             /\ together[a][b] \in 0 .. LostDelay
             /\ a \notin up \/ b \notin up => together[a][b] = 0
  <2>1. PairInv(a, b) /\ NodeInv(a) /\ a \in Remote /\ together[a][b] \in 0 .. LostDelay
    BY <1>1 DEF NetworkInv, NetworkTypeOK, Node
  <2>2. together[a][b] > 0 => {a, b} \subseteq up
    BY <2>1 DEF PairInv, TogetherWhileUp
  <2> QED
    BY <1>1, <2>1, <2>2
<1>3. lost \in Nat
  BY <1>1 DEF NetworkTypeOK
<1> QED
  BY <1>1, <1>2, <1>3 DEF NetworkTypeOK

\* An endpoint ends: all that was counted with it is forgotten.  net may gain its quit
\* messages, or lose one.
LEMMA EndsStep ==
    ASSUME NetworkInv, NEW n \in Node, Ends(n), UNCHANGED <<starts, lost>>,
           IsABag(net'), BagToSet(net') \subseteq Datagram,
           \A a, b \in Node \ {n} : /\ InFlight(b, a, "q")' => InFlight(b, a, "q")
                                    /\ Flying(a, b) => Flying(a, b)'
    PROVE  NetworkInv'
<1>1. /\ up' = up \ {n} /\ ticked' = NextPeriod(ticked \ {n}, up')
      /\ sockets' = [sockets EXCEPT ![n] = zeroedSocket]
      /\ together' = [a \in Node |-> [b \in Node |->
                          IF n \in {a, b} THEN 0 ELSE together[a][b]]]
  BY DEF Ends
<1>2. ASSUME NEW a \in Node, NEW b \in Node
      PROVE  /\ sockets'[a] = IF a = n THEN zeroedSocket ELSE sockets[a]
             /\ together'[a][b] = IF n \in {a, b} THEN 0 ELSE together[a][b]
  BY <1>1, NetworkFacts
<1>3. NetworkTypeOK'
  <2>1. sockets' \in [Node -> Socket]
    BY <1>1, NetworkFacts, ZeroedSocketOK DEF SocketOK
  <2>2. together' \in [Node -> [Node -> 0 .. LostDelay]]
    <3>1. ASSUME NEW a \in Node, NEW b \in Node
          PROVE  (IF n \in {a, b} THEN 0 ELSE together[a][b]) \in 0 .. LostDelay
      BY NetworkFacts
    <3> QED
      BY <1>1, <3>1
  <2>3. ticked' \subseteq up' /\ up' \subseteq Node
    BY <1>1, NetworkFacts DEF NextPeriod
  <2> QED
    BY <2>1, <2>2, <2>3, NetworkFacts DEF NetworkTypeOK
<1>4. ASSUME NEW a \in Node PROVE NodeInv(a)'
  <2>1. NodeInv(a)
    BY NetworkFacts
  <2> QED
    BY <1>1, <1>2, <2>1, ZeroedSocketOK DEF NodeInv
<1>5. ASSUME NEW a \in Node, NEW b \in Node PROVE PairInv(a, b)'
  <2>1. PairInv(a, b) /\ NodeInv(a) /\ NodeInv(a)' /\ lost \in Nat /\ b \in Remote
        /\ LostDelay \in Nat /\ together[a][b] \in 0 .. LostDelay
    BY <1>4, NetworkFacts
  <2>2. CASE n \in {a, b}
    <3>1. together'[a][b] = 0
      BY <1>2, <2>2
    <3>2. HeardFrom(a, b)'
      BY <2>1, <3>1, AnsweredAtOnce DEF HeardFrom, NodeInv
    <3> QED
      BY <3>1, <3>2 DEF PairInv, TogetherWhileUp, QuitBeforePeriod
  <2>3. CASE n \notin {a, b}
    <3>1. /\ sockets'[a] = sockets[a] /\ together'[a][b] = together[a][b]
          /\ InFlight(b, a, "q")' => InFlight(b, a, "q")
          /\ Flying(a, b) => Flying(a, b)'
      BY <1>2, <2>3
    <3>2. TogetherWhileUp(a, b)' /\ QuitBeforePeriod(a, b)'
      BY <1>1, <2>1, <2>3, <3>1 DEF PairInv, TogetherWhileUp, QuitBeforePeriod
    <3>3. HeardFrom(a, b)'
      BY <2>1, <3>1, HeardFromSame
    <3> QED
      BY <3>2, <3>3 DEF PairInv
  <2> QED
    BY <2>2, <2>3
<1> QED
  BY <1>3, <1>4, <1>5 DEF NetworkInv

\* A step that changes the socket of n only, while no period passes and no endpoint
\* ends: each kind of step says what it does to the slots of n.
LEMMA SocketStep ==
    ASSUME NetworkInv, NEW n \in Node, NEW s,
           SocketOK(s), AllInTime(s), sockets' = [sockets EXCEPT ![n] = s],
           up' \in {up, up \cup {n}}, n \in up', UNCHANGED <<ticked, lost, together>>,
           starts' \in 0 .. MaxStarts,
           IsABag(net'), BagToSet(net') \subseteq Datagram,
           \A a, b \in Node : InFlight(b, a, "q")' => InFlight(b, a, "q"),
           \A a \in Node \ {n}, b \in Node : Flying(a, b) => Flying(a, b)',
           \A b \in Node : HeardFrom(n, b)'
    PROVE  NetworkInv'
<1>1. ASSUME NEW a \in Node
      PROVE  sockets'[a] = IF a = n THEN s ELSE sockets[a]
  BY NetworkFacts
<1>2. NetworkTypeOK'
  <2>1. sockets' \in [Node -> Socket]
    BY NetworkFacts DEF SocketOK
  <2> QED
    BY <2>1, NetworkFacts DEF NetworkTypeOK
<1>3. ASSUME NEW a \in Node PROVE NodeInv(a)'
  <2>1. NodeInv(a)
    BY NetworkFacts
  <2> QED
    BY <1>1, <2>1 DEF NodeInv
<1>4. ASSUME NEW a \in Node, NEW b \in Node PROVE PairInv(a, b)'
  <2>1. PairInv(a, b) /\ NodeInv(a) /\ lost \in Nat
    BY NetworkFacts
  <2>2. TogetherWhileUp(a, b)' /\ QuitBeforePeriod(a, b)'
    BY <2>1 DEF PairInv, TogetherWhileUp, QuitBeforePeriod
  <2>3. HeardFrom(a, b)'
    <3>1. CASE a = n
      BY <3>1
    <3>2. CASE a # n
      BY <1>1, <2>1, <3>2, HeardFromSame
    <3> QED
      BY <3>1, <3>2
  <2> QED
    BY <2>2, <2>3 DEF PairInv
<1> QED
  BY <1>2, <1>3, <1>4 DEF NetworkInv

\* A step that leaves the endpoints alone: datagrams are sent, or one is gone.
LEMMA NetStep ==
    ASSUME NetworkInv, UNCHANGED <<sockets, up, ticked, starts, together>>,
           lost' \in 0 .. MaxLost, lost <= lost',
           IsABag(net'), BagToSet(net') \subseteq Datagram,
           \A a, b \in Node :
               /\ InFlight(b, a, "q")' => InFlight(b, a, "q")
               /\ \/ lost' = lost /\ (Flying(a, b) => Flying(a, b)')
                  \/ lost' = lost + 1
                  \/ together[a][b] = 0
    PROVE  NetworkInv'
<1>1. NetworkTypeOK'
  BY NetworkFacts DEF NetworkTypeOK
<1>2. ASSUME NEW a \in Node PROVE NodeInv(a)'
  BY NetworkFacts DEF NodeInv
<1>3. ASSUME NEW a \in Node, NEW b \in Node PROVE PairInv(a, b)'
  <2>1. PairInv(a, b) /\ NodeInv(a) /\ lost \in Nat
    BY NetworkFacts
  <2>2. TogetherWhileUp(a, b)' /\ QuitBeforePeriod(a, b)'
    BY <2>1 DEF PairInv, TogetherWhileUp, QuitBeforePeriod
  <2>3. HeardFrom(a, b)'
    <3>1. lost' \in Nat
      OBVIOUS
    <3> QED
      BY <2>1, <3>1, HeardFromSame
  <2> QED
    BY <2>2, <2>3 DEF PairInv
<1> QED
  BY <1>1, <1>2, <1>3 DEF NetworkInv

\* Datagrams that are sent, none of them a quit message.
LEMMA NetGrows ==
    ASSUME NetworkInv, NEW C, IsABag(C), BagToSet(C) \subseteq Datagram,
           net' = net (+) C
    PROVE  /\ IsABag(net') /\ BagToSet(net') \subseteq Datagram
           /\ BagToSet(net') = BagToSet(net) \cup BagToSet(C)
           /\ \A a, b : Flying(a, b) => Flying(a, b)'
<1>1. IsABag(net) /\ BagToSet(net) \subseteq Datagram
  BY NetworkFacts
<1>2. IsABag(net') /\ BagToSet(net') = BagToSet(net) \cup BagToSet(C)
  BY <1>1, BagAdd
<1> QED
  BY <1>1, <1>2 DEF Flying, InFlight

\* One copy for every slot is at least one for every remote that has one.
LEMMA ToEveryPeerBag ==
    ASSUME NetworkInv, NEW n \in Node, NEW msg \in Message
    PROVE  /\ IsABag(ToEveryPeer(n, msg))
           /\ BagToSet(ToEveryPeer(n, msg)) \subseteq Datagram
           /\ \A d \in BagToSet(ToEveryPeer(n, msg)) : d.from = n /\ d.msg = msg
<1> DEFINE s == sockets[n]
           B == ToEveryPeer(n, msg)
           D == {[from |-> n, to |-> r, msg |-> msg] : r \in sendSocketUdpTo(s)}
<1>1. s \in Socket
  BY NetworkFacts
<1>2. sendSocketUdpTo(s) \subseteq Remote
  <2>1. \A k \in DOMAIN s.peers : s.peers[k] \in Peer
    BY <1>1 DEF Socket
  <2> QED
    BY <2>1 DEF sendSocketUdpTo, Peer
<1>3. B = [d \in D |-> Cardinality(Slots(s, d.to))]
  BY DEF ToEveryPeer
<1>4. ASSUME NEW d \in D
      PROVE  /\ d \in Datagram /\ d.from = n /\ d.msg = msg
             /\ Cardinality(Slots(s, d.to)) \in Nat /\ Cardinality(Slots(s, d.to)) > 0
  <2>1. PICK r \in sendSocketUdpTo(s) : d = [from |-> n, to |-> r, msg |-> msg]
    OBVIOUS
  <2>2. d \in Datagram /\ d.from = n /\ d.to = r /\ d.msg = msg
    BY <1>2, <2>1 DEF Datagram, Node
  <2>3. Slots(s, r) # {}
    BY <2>1 DEF sendSocketUdpTo, Slots
  <2>4. IsFiniteSet(Slots(s, r))
    BY <1>1, SlotsFinite
  <2>5. Cardinality(Slots(s, r)) \in Nat
    BY <2>4, FS_CardinalityType
  <2>6. Cardinality(Slots(s, r)) # 0
    BY <2>3, <2>4, FS_EmptySet
  <2> QED
    BY <2>2, <2>5, <2>6
<1> HIDE DEF B, D
<1>5. DOMAIN B = D /\ \A d \in D : B[d] \in Nat /\ B[d] > 0
  BY <1>3, <1>4
<1>6. B = [d \in DOMAIN B |-> B[d]]
  BY <1>3
<1> QED
  BY <1>4, <1>5, <1>6 DEF IsABag, BagToSet, B

LEMMA StartKeeps ==
    ASSUME NetworkInv, NEW n \in Node, Start(n)
    PROVE  NetworkInv'
<1> DEFINE s == connectSocketUdp(RemotesOf[n])
<1>1. /\ n \notin up /\ starts < MaxStarts /\ up' = up \cup {n} /\ starts' = starts + 1
      /\ sockets' = [sockets EXCEPT ![n] = s]
      /\ UNCHANGED <<net, ticked, lost, together>>
  BY DEF Start
<1>2. SocketOK(s) /\ AllInTime(s)
  <2>1. RemotesOf[n] \in Seq(Remote)
    BY DEF Node
  <2> QED
    BY <2>1, Connected
<1> HIDE DEF s
<1>3. starts' \in 0 .. MaxStarts /\ sockets'[n] = s
  BY <1>1, NetworkFacts
<1>4. ASSUME NEW b \in Node PROVE HeardFrom(n, b)'
  <2>1. together'[n][b] = 0 /\ lost' \in Nat /\ b \in Remote
    BY <1>1, NetworkFacts
  <2> QED
    BY <1>2, <1>3, <2>1, AnsweredAtOnce DEF HeardFrom
<1>5. IsABag(net') /\ BagToSet(net') \subseteq Datagram
  BY <1>1, NetworkFacts
<1>6. \A a, b : (InFlight(b, a, "q")' <=> InFlight(b, a, "q"))
                /\ (Flying(a, b) => Flying(a, b)')
  BY <1>1 DEF InFlight, Flying
<1> QED
  BY <1>1, <1>2, <1>3, <1>4, <1>5, <1>6, SocketStep

LEMMA LaunchKeeps ==
    ASSUME NetworkInv, NEW n \in Node, NEW i \in DOMAIN sockets[n].tasks, LaunchAt(n, i)
    PROVE  NetworkInv'
<1> DEFINE s == sockets[n]
           task == s.tasks[i]
           t == launchTask(s, i)
           C == IF task.callback = "ping" THEN ToOne(n, task.params, "ka") ELSE EmptyBag
<1>1. /\ n \in up /\ Due(task) /\ sockets' = [sockets EXCEPT ![n] = t]
      /\ net' = IF task.callback = "ping" THEN net (+) ToOne(n, task.params, "ka") ELSE net
      /\ UNCHANGED <<up, ticked, starts, lost, together>>
  BY DEF LaunchAt
<1>2. SocketOK(s) /\ AllInTime(s) /\ task \in Task /\ sockets'[n] = t
  <2>1. SocketOK(s) /\ AllInTime(s)
    BY NetworkFacts DEF NodeInv
  <2> QED
    BY <1>1, <2>1, NetworkFacts DEF SocketOK, Socket
<1>3. SocketOK(t) /\ AllInTime(t)
  BY <1>1, <1>2, LaunchTask, LaunchInTime
<1> HIDE DEF t
<1>4. /\ IsABag(net') /\ BagToSet(net') \subseteq Datagram
      /\ \A a, b : (InFlight(b, a, "q")' => InFlight(b, a, "q"))
                   /\ (Flying(a, b) => Flying(a, b)')
      /\ \A b : task.callback = "ping" /\ task.params = b => InFlight(n, b, "ka")'
  <2>1. CASE task.callback = "ping"
    <3> DEFINE d == [from |-> n, to |-> task.params, msg |-> "ka"]
    <3>1. d \in Datagram /\ d.msg = "ka"
      BY <1>2 DEF Datagram, Task, Node, Message
    <3>2. IsABag(SetToBag({d})) /\ BagToSet(SetToBag({d})) = {d}
      BY BagOfSet
    <3>3. net' = net (+) SetToBag({d})
      BY <1>1, <2>1 DEF ToOne
    <3>4. /\ IsABag(net') /\ BagToSet(net') \subseteq Datagram
          /\ BagToSet(net') = BagToSet(net) \cup {d}
          /\ \A a, b : Flying(a, b) => Flying(a, b)'
      BY <3>1, <3>2, <3>3, NetGrows
    <3>5. \A a, b : InFlight(b, a, "q")' => InFlight(b, a, "q")
      BY <3>4 DEF InFlight
    <3>6. ASSUME NEW b, task.params = b PROVE InFlight(n, b, "ka")'
      BY <3>4, <3>6 DEF InFlight
    <3> QED
      BY <3>4, <3>5, <3>6
  <2>2. CASE task.callback # "ping"
    BY <1>1, <2>2, NetworkFacts DEF InFlight, Flying
  <2> QED
    BY <2>1, <2>2
<1>5. ASSUME NEW b \in Node PROVE HeardFrom(n, b)'
  <2> DEFINE T == together[n][b]
             fl == Flying(n, b)
             fl2 == Flying(n, b)'
  <2>1. SUFFICES ASSUME lost < keep_alive_probes PROVE Answered(t, b, T, lost, fl2)
    BY <1>1, <1>2 DEF HeardFrom
  <2>2. Answered(s, b, T, lost, fl) /\ lost \in Nat /\ b \in Remote
    BY <2>1, NetworkFacts DEF PairInv, HeardFrom
  <2>3. fl \in BOOLEAN /\ fl2 \in BOOLEAN
    BY DEF Flying, InFlight
  <2>4. (fl => fl2) /\ (task.callback = "ping" /\ task.params = b => fl2)
    BY <1>4 DEF Flying
  <2> HIDE DEF T, fl, fl2, s
  <2> QED
    BY <1>1, <1>2, <2>1, <2>2, <2>3, <2>4, AnsweredLaunch DEF s, t
<1> QED
  BY <1>1, <1>3, <1>4, <1>5, NetworkFacts, SocketStep

\* A datagram is taken from the net: what is not that datagram stays.
LEMMA NetTaken ==
    ASSUME NetworkInv, NEW m \in BagToSet(net)
    PROVE  /\ m \in Datagram
           /\ IsABag(net (-) SetToBag({m}))
           /\ BagToSet(net (-) SetToBag({m})) \subseteq BagToSet(net)
           /\ BagToSet(net) \ {m} \subseteq BagToSet(net (-) SetToBag({m}))
           /\ BagToSet(net (-) SetToBag({m})) \subseteq Datagram
BY NetworkFacts, BagTake

\* What is in flight between a and b is not addressed to a third endpoint, and no quit
\* message.
LEMMA FlyingWithout ==
    ASSUME NEW m, BagToSet(net) \ {m} \subseteq BagToSet(net'), NEW a, NEW b,
           \/ m.to \notin {a, b}
           \/ m.msg = "q"
           \/ m.to = a /\ m.from # b /\ (b = a => m.from # a)
    PROVE  Flying(a, b) => Flying(a, b)'
<1>1. ASSUME InFlight(a, b, "ka") PROVE InFlight(a, b, "ka")'
  <2> DEFINE d == [from |-> a, to |-> b, msg |-> "ka"]
  <2>1. d \in BagToSet(net) /\ d.from = a /\ d.to = b /\ d.msg = "ka"
    BY <1>1 DEF InFlight
  <2>2. d # m
    BY <2>1
  <2> QED
    BY <2>1, <2>2 DEF InFlight
<1>2. ASSUME NEW msg \in Message \ {"q"}, InFlight(b, a, msg) PROVE InFlight(b, a, msg)'
  <2> DEFINE d == [from |-> b, to |-> a, msg |-> msg]
  <2>1. d \in BagToSet(net) /\ d.from = b /\ d.to = a /\ d.msg # "q"
    BY <1>2 DEF InFlight
  <2>2. d # m
    BY <2>1
  <2> QED
    BY <2>1, <2>2 DEF InFlight
<1> QED
  BY <1>1, <1>2 DEF Flying

LEMMA ReceiveKeeps ==
    ASSUME NetworkInv, NEW m \in BagToSet(net), ReceiveAt(m)
    PROVE  NetworkInv'
<1> DEFINE n == m.to
           q == m.from
           s == sockets[n]
           t == handleMessageUdp(s, q, m.msg)
           taken == net (-) SetToBag({m})
           C == {[from |-> n, to |-> r, msg |-> "kack"] : r \in AckTo(q, m.msg)}
<1>1. /\ m \in Datagram /\ IsABag(taken) /\ BagToSet(taken) \subseteq BagToSet(net)
      /\ BagToSet(net) \ {m} \subseteq BagToSet(taken) /\ BagToSet(taken) \subseteq Datagram
  BY NetTaken
<1>2. n \in Node /\ q \in Node /\ m.msg \in Message /\ q \in Remote
      /\ m = [from |-> q, to |-> n, msg |-> m.msg]
  BY <1>1 DEF Datagram, Node
<1>3. n \in up /\ UNCHANGED <<starts, lost>>
  BY DEF ReceiveAt
<1>4. SocketOK(s) /\ AllInTime(s)
  BY <1>2, NetworkFacts DEF NodeInv
<1>5. CASE QuitFromStranger(s, q, m.msg)
  <2>1. Ends(n) /\ net' = taken
    BY <1>5 DEF ReceiveAt
  <2>2. m.msg = "q"
    BY <1>5 DEF QuitFromStranger
  <2> HIDE DEF n, taken
  <2>3. ASSUME NEW a \in Node, NEW b \in Node
        PROVE  /\ InFlight(b, a, "q")' => InFlight(b, a, "q")
               /\ Flying(a, b) => Flying(a, b)'
    <3>1. Flying(a, b) => Flying(a, b)'
      BY <1>1, <2>1, <2>2, FlyingWithout
    <3> QED
      BY <1>1, <2>1, <3>1 DEF InFlight
  <2> QED
    BY <1>1, <1>2, <1>3, <2>1, <2>3, EndsStep
<1>6. CASE ~QuitFromStranger(s, q, m.msg)
  <2>1. /\ sockets' = [sockets EXCEPT ![n] = t] /\ UNCHANGED <<up, ticked, together>>
        /\ net' = taken (+) SetToBag(C)
    BY <1>6 DEF ReceiveAt
  <2>2. C \subseteq Datagram /\ \A d \in C : d.msg = "kack"
    BY <1>2 DEF Datagram, AckTo, Message, Node
  <2>3. m.msg = "ka" => [from |-> n, to |-> q, msg |-> "kack"] \in C
    BY DEF AckTo
  <2>4. SocketOK(t) /\ AllInTime(t)
    BY <1>2, <1>4, <1>6, HandleMessage, MessageInTime
  <2>5. sockets'[n] = t
    BY <1>2, <2>1, NetworkFacts
  <2> HIDE DEF n, q, s, t, taken, C
  <2>6. /\ IsABag(net') /\ BagToSet(net') = BagToSet(taken) \cup C
        /\ BagToSet(net') \subseteq Datagram
    BY <1>1, <2>1, <2>2, BagOfSet, BagAdd
  <2>7. BagToSet(net) \ {m} \subseteq BagToSet(net')
    BY <1>1, <2>6
  <2>8. ASSUME NEW a \in Node, NEW b \in Node, InFlight(b, a, "q")'
        PROVE  InFlight(b, a, "q")
    <3> DEFINE d == [from |-> b, to |-> a, msg |-> "q"]
    <3>1. d \in BagToSet(net') /\ d.msg = "q"
      BY <2>8 DEF InFlight
    <3>2. d \notin C
      BY <2>2, <3>1
    <3> QED
      BY <1>1, <2>6, <3>1, <3>2 DEF InFlight
\* The answer to a probe takes its place.
  <2>9. ASSUME NEW a \in Node \ {n}, NEW b \in Node
        PROVE  Flying(a, b) => Flying(a, b)'
    <3>1. CASE n # b
      BY <1>2, <2>7, <2>9, <3>1, FlyingWithout DEF n
    <3>2. CASE n = b
      <4>1. ASSUME NEW msg \in Message \ {"q"}, InFlight(b, a, msg)
            PROVE  InFlight(b, a, msg)'
        <5> DEFINE d == [from |-> b, to |-> a, msg |-> msg]
        <5>1. d \in BagToSet(net) /\ d.to # m.to
          BY <2>9, <4>1 DEF InFlight, n
        <5> QED
          BY <2>7, <5>1 DEF InFlight
      <4>2. ASSUME InFlight(a, b, "ka") PROVE Flying(a, b)'
        <5> DEFINE d == [from |-> a, to |-> b, msg |-> "ka"]
        <5>1. CASE d = m
          <6>1. q = a /\ m.msg = "ka"
            <7>1. d.from = a /\ d.msg = "ka"
              OBVIOUS
            <7> QED
              BY <5>1, <7>1 DEF q
          <6>2. [from |-> b, to |-> a, msg |-> "kack"] \in BagToSet(net')
            BY <2>3, <2>6, <3>2, <6>1
          <6>3. "kack" \in Message \ {"q"}
            BY DEF Message
          <6> QED
            BY <6>2, <6>3 DEF Flying, InFlight
        <5>2. CASE d # m
          BY <2>7, <4>2, <5>2 DEF Flying, InFlight
        <5> QED
          BY <5>1, <5>2
      <4> QED
        BY <4>1, <4>2 DEF Flying
    <3> QED
      BY <3>1, <3>2
  <2>10. ASSUME NEW b \in Node PROVE HeardFrom(n, b)'
    <3> DEFINE T == together[n][b]
               fl == Flying(n, b)
               fl2 == Flying(n, b)'
    <3>1. SUFFICES ASSUME lost < keep_alive_probes PROVE Answered(t, b, T, lost, fl2)
      BY <1>3, <2>1, <2>5 DEF HeardFrom
    <3>2. Answered(s, b, T, lost, fl) /\ lost \in Nat /\ b \in Remote
      BY <1>2, <3>1, NetworkFacts DEF PairInv, HeardFrom, s
    <3>3. fl \in BOOLEAN /\ fl2 \in BOOLEAN
      BY DEF Flying, InFlight
    <3>4. q = b /\ m.msg = "q" => T = 0
      <4>1. QuitBeforePeriod(n, b)
        BY <1>2, NetworkFacts DEF PairInv
      <4> QED
        BY <1>2, <4>1 DEF QuitBeforePeriod, InFlight
    <3>5. q # b \/ m.msg = "q" => (fl => fl2)
      <4>1. CASE m.msg = "q"
        BY <2>7, <4>1, FlyingWithout
      <4>2. CASE q # b
        <5>1. m.to = n /\ m.from # b /\ (b = n => m.from # n)
          BY <4>2 DEF n, q
        <5> QED
          BY <2>7, <5>1, FlyingWithout
      <4> QED
        BY <4>1, <4>2
    <3> HIDE DEF T, fl, fl2
    <3> QED
      BY <1>2, <1>4, <1>6, <3>2, <3>3, <3>4, <3>5, AnsweredMessage DEF t
  <2>11. starts' \in 0 .. MaxStarts /\ n \in up'
    BY <1>3, <2>1, NetworkFacts
  <2> QED
    BY <1>2, <1>3, <2>1, <2>4, <2>6, <2>8, <2>9, <2>10, <2>11, SocketStep
<1> QED
  BY <1>5, <1>6

LEMMA VanishKeeps ==
    ASSUME NetworkInv, NEW m \in BagToSet(net), Vanish(m)
    PROVE  NetworkInv'
<1>1. /\ m.to \notin up /\ net' = net (-) SetToBag({m})
      /\ UNCHANGED <<sockets, up, ticked, starts, lost, together>>
  BY DEF Vanish
<1>2. /\ IsABag(net') /\ BagToSet(net') \subseteq BagToSet(net)
      /\ BagToSet(net) \ {m} \subseteq BagToSet(net') /\ BagToSet(net') \subseteq Datagram
  BY <1>1, NetTaken
<1>3. ASSUME NEW a \in Node, NEW b \in Node
      PROVE  /\ InFlight(b, a, "q")' => InFlight(b, a, "q")
             /\ (Flying(a, b) => Flying(a, b)') \/ together[a][b] = 0
  <2>1. m.to \notin {a, b} => (Flying(a, b) => Flying(a, b)')
    BY <1>2, FlyingWithout
  <2>2. m.to \in {a, b} => together[a][b] = 0
    BY <1>1, NetworkFacts
  <2> QED
    BY <1>2, <2>1, <2>2 DEF InFlight
<1>4. lost' \in 0 .. MaxLost /\ lost <= lost'
  BY <1>1, NetworkFacts
<1> QED
  BY <1>1, <1>2, <1>3, <1>4, NetStep

LEMMA LoseKeeps ==
    ASSUME NetworkInv, NEW m \in BagToSet(net), Lose(m)
    PROVE  NetworkInv'
<1>1. /\ lost < MaxLost /\ lost' = lost + 1 /\ net' = net (-) SetToBag({m})
      /\ UNCHANGED <<sockets, up, ticked, starts, together>>
  BY DEF Lose
<1>2. /\ IsABag(net') /\ BagToSet(net') \subseteq BagToSet(net)
      /\ BagToSet(net') \subseteq Datagram
  BY <1>1, NetTaken
<1>3. lost' \in 0 .. MaxLost /\ lost <= lost'
  BY <1>1, NetworkFacts
<1>4. \A a, b : InFlight(b, a, "q")' => InFlight(b, a, "q")
  BY <1>2 DEF InFlight
<1> QED
  BY <1>1, <1>2, <1>3, <1>4, NetStep

LEMMA SayKeeps ==
    ASSUME NetworkInv, NEW n \in Node, Say(n)
    PROVE  NetworkInv'
<1> DEFINE C == ToEveryPeer(n, "text")
<1>1. net' = net (+) C /\ UNCHANGED <<sockets, up, ticked, starts, lost, together>>
  BY DEF Say
<1>2. /\ IsABag(C) /\ BagToSet(C) \subseteq Datagram
      /\ \A d \in BagToSet(C) : d.msg = "text"
  <2>1. "text" \in Message
    BY DEF Message
  <2> QED
    BY <2>1, ToEveryPeerBag
<1> HIDE DEF C
<1>3. /\ IsABag(net') /\ BagToSet(net') \subseteq Datagram
      /\ BagToSet(net') = BagToSet(net) \cup BagToSet(C)
      /\ \A a, b : Flying(a, b) => Flying(a, b)'
  BY <1>1, <1>2, NetGrows
<1>4. ASSUME NEW a, NEW b, InFlight(b, a, "q")' PROVE InFlight(b, a, "q")
  <2> DEFINE d == [from |-> b, to |-> a, msg |-> "q"]
  <2>1. d \in BagToSet(net') /\ d.msg = "q"
    BY <1>4 DEF InFlight
  <2> QED
    BY <1>2, <1>3, <2>1 DEF InFlight
<1>5. lost' \in 0 .. MaxLost /\ lost <= lost'
  BY <1>1, NetworkFacts
<1> QED
  BY <1>1, <1>3, <1>4, <1>5, NetStep

LEMMA QuitKeeps ==
    ASSUME NetworkInv, NEW n \in Node, Quit(n)
    PROVE  NetworkInv'
<1> DEFINE C == ToEveryPeer(n, "q")
<1>1. net' = net (+) C /\ Ends(n) /\ UNCHANGED <<starts, lost>>
  BY DEF Quit
<1>2. IsABag(C) /\ BagToSet(C) \subseteq Datagram /\ \A d \in BagToSet(C) : d.from = n
  <2>1. "q" \in Message
    BY DEF Message
  <2> QED
    BY <2>1, ToEveryPeerBag
<1> HIDE DEF C
<1>3. /\ IsABag(net') /\ BagToSet(net') \subseteq Datagram
      /\ BagToSet(net') = BagToSet(net) \cup BagToSet(C)
      /\ \A a, b : Flying(a, b) => Flying(a, b)'
  BY <1>1, <1>2, NetGrows
<1>4. ASSUME NEW a \in Node \ {n}, NEW b \in Node \ {n}, InFlight(b, a, "q")'
      PROVE  InFlight(b, a, "q")
  <2> DEFINE d == [from |-> b, to |-> a, msg |-> "q"]
  <2>1. d \in BagToSet(net') /\ d.from # n
    BY <1>4 DEF InFlight
  <2> QED
    BY <1>2, <1>3, <2>1 DEF InFlight
<1> QED
  BY <1>1, <1>3, <1>4, EndsStep

LEMMA CrashKeeps ==
    ASSUME NetworkInv, NEW n \in Node, Crash(n)
    PROVE  NetworkInv'
<1>1. Ends(n) /\ UNCHANGED <<net, starts, lost>>
  BY DEF Crash
<1>2. IsABag(net') /\ BagToSet(net') \subseteq Datagram
  BY <1>1, NetworkFacts
<1>3. ASSUME NEW a, NEW b
      PROVE  /\ InFlight(b, a, "q")' => InFlight(b, a, "q")
             /\ Flying(a, b) => Flying(a, b)'
  BY <1>1 DEF InFlight, Flying
<1> QED
  BY <1>1, <1>2, <1>3, EndsStep

LEMMA TickKeeps ==
    ASSUME NetworkInv, NEW n \in Node, TickAt(n)
    PROVE  NetworkInv'
<1> DEFINE s == sockets[n]
           t == [s EXCEPT !.tasks = Elapsed(s.tasks)]
           row == [b \in Node |-> IF b \in up /\ together[n][b] < LostDelay
                                  THEN together[n][b] + 1 ELSE together[n][b]]
<1>1. /\ n \in up \ ticked /\ net = EmptyBag /\ NoneDue(s.tasks)
      /\ ticked' = NextPeriod(ticked \cup {n}, up)
      /\ UNCHANGED <<up, net, starts, lost>>
  BY DEF TickAt
<1>2. sockets' = [sockets EXCEPT ![n] = t] /\ together' = [together EXCEPT ![n] = row]
  BY NetworkFacts DEF TickAt
<1>3. SocketOK(s) /\ AllInTime(s)
  BY NetworkFacts DEF NodeInv
<1>4. SocketOK(t) /\ AllInTime(t)
  BY <1>1, <1>3, ElapsedSocket, ElapsedInTime
<1> HIDE DEF t, row
<1>5. ASSUME NEW a \in Node
      PROVE  /\ sockets'[a] = IF a = n THEN t ELSE sockets[a]
             /\ together'[a] = IF a = n THEN row ELSE together[a]
  BY <1>2, NetworkFacts
<1>6. ASSUME NEW b \in Node
      PROVE  /\ row[b] = IF b \in up /\ together[n][b] < LostDelay
                         THEN together[n][b] + 1 ELSE together[n][b]
             /\ row[b] \in 0 .. LostDelay
  <2>1. together[n][b] \in 0 .. LostDelay /\ LostDelay \in Nat
    BY NetworkFacts
  <2>2. row[b] = IF b \in up /\ together[n][b] < LostDelay
                 THEN together[n][b] + 1 ELSE together[n][b]
    BY DEF row
  <2> QED
    BY <2>1, <2>2
<1>7. NetworkTypeOK'
  <2>1. sockets' \in [Node -> Socket]
    BY <1>2, <1>4, NetworkFacts DEF SocketOK
  <2>2. row \in [Node -> 0 .. LostDelay]
    BY <1>6 DEF row
  <2>3. together' \in [Node -> [Node -> 0 .. LostDelay]]
    BY <1>2, <2>2, NetworkFacts
  <2>4. ticked' \subseteq up'
    BY <1>1, NetworkFacts DEF NextPeriod
  <2> QED
    BY <1>1, <2>1, <2>3, <2>4, NetworkFacts DEF NetworkTypeOK
<1>8. ASSUME NEW a \in Node PROVE NodeInv(a)'
  <2>1. NodeInv(a)
    BY NetworkFacts
  <2> QED
    BY <1>1, <1>4, <1>5, <2>1 DEF NodeInv
<1>9. ASSUME NEW a \in Node, NEW b \in Node PROVE PairInv(a, b)'
  <2>1. /\ PairInv(a, b) /\ NodeInv(a) /\ b \in Remote /\ lost \in Nat /\ LostDelay \in Nat
        /\ together[a][b] \in 0 .. LostDelay
        /\ a \notin up \/ b \notin up => together[a][b] = 0
    BY NetworkFacts
  <2>2. \A c, d, msg : ~InFlight(c, d, msg)
    BY <1>1 DEF InFlight, EmptyBag, SetToBag, BagToSet
  <2>3. QuitBeforePeriod(a, b)'
    BY <1>1, <2>2 DEF QuitBeforePeriod, InFlight
  <2>4. TogetherWhileUp(a, b)'
    <3>1. CASE a = n
      <4>1. b \notin up => row[b] = 0
        BY <1>6, <2>1, <3>1
      <4> QED
        BY <1>1, <1>5, <3>1, <4>1 DEF TogetherWhileUp
    <3>2. CASE a # n
      BY <1>1, <1>5, <2>1, <3>2 DEF PairInv, TogetherWhileUp
    <3> QED
      BY <3>1, <3>2
  <2>5. HeardFrom(a, b)'
    <3>1. CASE a = n /\ b \in up
      <4> DEFINE T == together[n][b]
                 fl2 == Flying(n, b)'
      <4>1. SUFFICES ASSUME lost < keep_alive_probes PROVE Answered(t, b, row[b], lost, fl2)
        BY <1>1, <1>5, <3>1 DEF HeardFrom
      <4>2. Answered(s, b, T, lost, Flying(n, b))
        BY <2>1, <3>1, <4>1 DEF PairInv, HeardFrom
      <4>3. Flying(n, b) = FALSE
        BY <2>2 DEF Flying
      <4>4. Answered(s, b, T, lost, FALSE)
        BY <4>2, <4>3
      <4>5. row[b] = IF T < LostDelay THEN T + 1 ELSE T
        BY <1>6, <3>1
      <4>6. T \in Nat /\ T <= LostDelay
        BY <2>1, <3>1
      <4> HIDE DEF T, fl2, s
      <4> QED
        BY <1>1, <1>3, <2>1, <4>4, <4>5, <4>6, AnsweredTick DEF t
    <3>2. CASE a = n /\ b \notin up
      <4>1. together'[a][b] = 0
        BY <1>5, <1>6, <2>1, <3>2
      <4>2. SocketOK(sockets'[a]) /\ lost' \in Nat
        BY <1>1, <1>4, <1>5, <2>1, <3>2
      <4> QED
        BY <2>1, <4>1, <4>2, AnsweredAtOnce DEF HeardFrom
    <3>3. CASE a # n
      <4>1. /\ sockets'[a] = sockets[a] /\ together'[a][b] = together[a][b]
            /\ lost' = lost /\ lost <= lost'
        BY <1>1, <1>5, <2>1, <3>3
      <4>2. Flying(a, b) => Flying(a, b)'
        BY <2>2 DEF Flying
      <4> QED
        BY <2>1, <4>1, <4>2, HeardFromSame
    <3> QED
      BY <3>1, <3>2, <3>3
  <2> QED
    BY <2>3, <2>4, <2>5 DEF PairInv
<1> QED
  BY <1>7, <1>8, <1>9 DEF NetworkInv

LEMMA NetworkInvStep == NetworkInv /\ [NetworkNext]_networkVars => NetworkInv'
<1> SUFFICES ASSUME NetworkInv, [NetworkNext]_networkVars PROVE NetworkInv'
  OBVIOUS
<1>1. ASSUME NEW n \in Node, LaunchAnyAt(n) PROVE NetworkInv'
  BY <1>1, LaunchKeeps DEF LaunchAnyAt
<1>2. ASSUME NEW m \in BagToSet(net), Deliver(m) PROVE NetworkInv'
  BY <1>2, ReceiveKeeps, VanishKeeps DEF Deliver
<1> QED
  BY <1>1, <1>2, StartKeeps, SayKeeps, QuitKeeps, CrashKeeps, TickKeeps, LoseKeeps,
     NetworkInvStutter DEF NetworkNext

\* The step PeerKept is about: the only slot that a has for b is not taken.
LEMMA PeerStays ==
    ASSUME NetworkInv, [NetworkNext]_networkVars, NEW a \in Node, NEW b \in Node,
           Knows(a, b), a \in up', lost < keep_alive_probes,
           together[a][b] >= LostDelay, ~QuitInFlight(a, b)
    PROVE  Knows(a, b)'
<1> DEFINE s == sockets[a]
           T == together[a][b]
<1>1. /\ SocketOK(s) /\ AllInTime(s) /\ s \in Socket /\ b \in Remote /\ lost \in Nat
      /\ Slots(s, b) # {} /\ T = LostDelay /\ a \in up
      /\ Answered(s, b, T, lost, Flying(a, b))
      /\ LostDelay = keep_alive_probes + 1
  <2>1. /\ PairInv(a, b) /\ NodeInv(a) /\ T \in 0 .. LostDelay /\ LostDelay \in Nat
        /\ b \in Remote /\ lost \in Nat /\ (a \notin up => T = 0)
    BY NetworkFacts
  <2>2. LostDelay = keep_alive_probes + 1 /\ keep_alive_probes \in Nat
    BY DEF LostDelay, keep_alive_period
  <2>3. T = LostDelay /\ a \in up
    BY <2>1, <2>2
  <2> QED
    BY <2>1, <2>2, <2>3 DEF PairInv, NodeInv, HeardFrom, Knows, SocketOK
<1>2. SUFFICES ASSUME sockets'[a] # s PROVE Slots(sockets'[a], b) # {}
  BY <1>1 DEF Knows
<1>3. \A n \in Node : Ends(n) => n # a
  BY DEF Ends
<1>4. \A n \in Node : \A u :
         sockets' = [sockets EXCEPT ![n] = u] => n = a /\ sockets'[a] = u
  BY <1>2, NetworkFacts
<1>5. \A n \in Node : Ends(n) => FALSE
  BY <1>3, <1>4 DEF Ends
<1>6. ASSUME NEW t, t.peers = s.peers PROVE Slots(t, b) # {}
  BY <1>1, <1>6 DEF Slots
<1>7. ASSUME NEW u, SocketOK(u), u.peers = s.peers, NEW r \in Remote
      PROVE  Slots(handleCommUpUdp(u, r), b) # {}
  <2>1. CASE Full(u)
    BY <1>6, <1>7, <2>1, CommUp
  <2>2. CASE ~Full(u)
    <3>1. PICK k \in Slots(u, b) : TRUE
      BY <1>6, <1>7
    <3>2. k \in Occupied(u)
      BY <1>1, <1>7, <3>1, SlotsOfRemote
    <3>3. k \in Occupied(handleCommUpUdp(u, r)) /\ SameSlot(u, handleCommUpUdp(u, r), k)
      BY <1>7, <2>2, <3>2, CommUpSlot
    <3> QED
      BY <3>1, <3>3 DEF Slots, SameSlot, Occupied
  <2> QED
    BY <2>1, <2>2
\* removePeer takes one slot only.
<1>8. ASSUME NEW u, SocketOK(u), u.peers = s.peers, NEW f \in Occupied(u),
             NEW k \in Slots(s, b), k # f
      PROVE  Slots(removePeer(u, f), b) # {}
  <2>1. k \in Slots(u, b)
    BY <1>8 DEF Slots
  <2>2. k \in Occupied(u)
    BY <1>1, <1>8, <2>1, SlotsOfRemote
  <2>3. k \in Occupied(removePeer(u, f)) /\ SameSlot(u, removePeer(u, f), k)
    BY <1>8, <2>2, RemoveSlot
  <2> QED
    BY <2>1, <2>3 DEF Slots, SameSlot, Occupied
<1>9. CASE \E n \in Node : Start(n)
  BY <1>1, <1>4, <1>9 DEF Start
<1>10. ASSUME NEW n \in Node, NEW i \in DOMAIN sockets[n].tasks, LaunchAt(n, i)
       PROVE  Slots(sockets'[a], b) # {}
  <2> DEFINE q == s.tasks[i].params
             l == [s EXCEPT !.tasks = Launched(s.tasks, i)]
  <2>1. n = a /\ i \in DOMAIN s.tasks /\ Due(s.tasks[i]) /\ sockets'[a] = launchTask(s, i)
    BY <1>4, <1>10 DEF LaunchAt
  <2>2. l.peers = s.peers /\ SocketOK(l)
    BY <1>1, <2>1, LaunchedSocket DEF Socket
  <2>3. s.tasks[i] \in Task /\ q \in Remote /\ Armed(s.tasks[i])
    <3>1. s.tasks[i] \in Task
      BY <1>1, <2>1 DEF Socket
    <3> QED
      BY <2>1, <3>1 DEF Task, Due, Armed
  <2> HIDE DEF l, q
  <2>4. CASE s.tasks[i].callback = "ping"
    BY <1>6, <2>1, <2>2, <2>4 DEF launchTask, l
  <2>5. CASE s.tasks[i].callback = "reestablish"
    <3>1. launchTask(s, i) = handleCommUpUdp(l, q)
      BY <2>5 DEF launchTask, reestablish, connectFirst, l, q
    <3> QED
      BY <1>7, <2>1, <2>2, <2>3, <3>1
  <2>6. CASE s.tasks[i].callback = "commLost"
    <3> DEFINE f == findPeerByRemote(s, q)
               u == scheduleReestablishment(l, q)
    <3>1. f # NULL
      BY <1>1, <2>1, <2>3, <2>6, ArmedLossFindsPeer DEF CallbackFindsPeer, q
    <3>2. f \in Occupied(s) /\ f \in Slots(s, q) /\ First(s, q, f)
      BY <1>1, <2>3, <3>1, FindPeer, FindsFirst
    <3>3. launchTask(s, i) = removePeer(u, f)
      <4>1. findPeerByRemote(l, q) = f
        BY <2>2 DEF findPeerByRemote
      <4> QED
        BY <2>6, <4>1 DEF launchTask, handleCommLostUdp, l, q
    <3> HIDE DEF f, u
    <3>4. u.peers = s.peers /\ SocketOK(u) /\ f \in Occupied(u)
      <4>1. u.peers = s.peers /\ SocketOK(u)
        BY <2>2, <2>3, Reestablishment DEF u
      <4> QED
        BY <3>2, <4>1 DEF Occupied
\* There is another slot: the one whose task it is, or that of another remote's.
    <3>5. PICK j \in Slots(s, q) : i = s.peers[j].comm_lost_task
      BY <1>1, <2>1, <2>3, <2>6, LossHasSlot DEF Losses, q
    <3>6. \E k \in Slots(s, b) : k # f
      <4>1. CASE q # b
        BY <1>1, <3>2, <4>1 DEF Slots
      <4>2. CASE q = b /\ j # f
        BY <3>5, <4>2
      <4>3. CASE q = b /\ j = f
        <5> SUFFICES ASSUME \A k \in Slots(s, b) : k = f PROVE FALSE
          OBVIOUS
        <5>1. Due(LossOf(s, f)) /\ f \in Slots(s, b) /\ First(s, b, f)
          BY <2>1, <3>2, <3>5, <4>3 DEF LossOf
        <5>2. Quiet(s, f) = LostDelay
          BY <1>1, <5>1, SlotsOfRemote
        <5>3. ~Spare(s, b)
          BY <5>1 DEF Spare, Due, Armed
        <5>4. HeardWithin(s, f, f, lost) \/ HeardWithin(s, f, f, lost + 1)
          <6>1. Quiet(s, f) <= T
            BY <1>1, <5>2 DEF LostDelay, keep_alive_period
          <6> QED
            BY <1>1, <5>1, <5>3, <6>1 DEF Answered
        <5> QED
          BY <1>1, <5>2, <5>4 DEF HeardWithin
      <4> QED
        BY <4>1, <4>2, <4>3
    <3> QED
      BY <1>8, <2>1, <3>3, <3>4, <3>6
  <2> QED
    BY <2>3, <2>4, <2>5, <2>6 DEF Task
<1>11. ASSUME NEW m \in BagToSet(net), ReceiveAt(m)
       PROVE  Slots(sockets'[a], b) # {}
  <2> DEFINE q == m.from
             f == findPeerByRemote(s, q)
  <2>1. m \in Datagram /\ m.to \in Node /\ q \in Remote
    BY NetTaken DEF Datagram, Node
  <2>2. /\ m.to = a /\ ~QuitFromStranger(s, q, m.msg)
        /\ sockets'[a] = handleMessageUdp(s, q, m.msg)
    BY <1>4, <1>5, <1>11, <2>1 DEF ReceiveAt
  <2>3. m.msg = "q" => q # b
    <3>1. m = [from |-> q, to |-> m.to, msg |-> m.msg]
      BY <2>1 DEF Datagram
    <3> QED
      BY <2>2, <3>1 DEF QuitInFlight
  <2>4. f # NULL => f \in Occupied(s) /\ f \in Slots(s, q)
    BY <1>1, <2>1, FindPeer
  <2>5. CASE m.msg = "q"
    <3>1. f # NULL /\ sockets'[a] = removePeer(s, f)
      BY <2>2, <2>5 DEF QuitFromStranger, handleMessageUdp
    <3>2. f \notin Slots(s, b)
      BY <2>3, <2>4, <2>5, <3>1 DEF Slots
    <3> HIDE DEF f
    <3> QED
      BY <1>1, <1>8, <2>4, <3>1, <3>2
  <2>6. CASE m.msg # "q" /\ f # NULL
    <3>1. sockets'[a] = resetTasks(s, f)
      BY <2>2, <2>6 DEF handleMessageUdp
    <3>2. resetTasks(s, f).peers = s.peers
      BY <1>1 DEF resetTasks, Socket
    <3> HIDE DEF f
    <3> QED
      BY <1>6, <3>1, <3>2
  <2>7. CASE m.msg # "q" /\ f = NULL
    <3>1. sockets'[a] = handleCommUpUdp(s, q)
      BY <2>2, <2>7 DEF handleMessageUdp
    <3> QED
      BY <1>1, <1>7, <2>1, <3>1
  <2> QED
    BY <2>5, <2>6, <2>7
<1>12. ASSUME NEW n \in Node, TickAt(n)
       PROVE  Slots(sockets'[a], b) # {}
  <2>1. sockets' = [sockets EXCEPT ![n] =
                       [sockets[n] EXCEPT !.tasks = Elapsed(sockets[n].tasks)]]
    BY <1>12, NetworkFacts DEF TickAt
  <2>2. n = a /\ sockets'[a] = [s EXCEPT !.tasks = Elapsed(s.tasks)]
    BY <1>4, <2>1
  <2>3. [s EXCEPT !.tasks = Elapsed(s.tasks)].peers = s.peers
    BY <1>1 DEF Socket
  <2> QED
    BY <1>6, <2>2, <2>3
<1>13. ASSUME \/ \E n \in Node : Say(n)
              \/ \E m \in BagToSet(net) : Vanish(m) \/ Lose(m)
              \/ UNCHANGED networkVars
       PROVE  FALSE
  BY <1>2, <1>13 DEF Say, Vanish, Lose, networkVars
<1>14. ASSUME NEW n \in Node, Quit(n) \/ Crash(n) PROVE FALSE
  BY <1>5, <1>14 DEF Quit, Crash
<1> QED
  BY <1>9, <1>10, <1>11, <1>12, <1>13, <1>14 DEF NetworkNext, LaunchAnyAt, Deliver

------------------------------------------------------------------------------

\* Between any number of endpoints with any configurations, every socket keeps its type
\* and its bound, and only running endpoints are ahead of the others.
THEOREM NetworkTypeCorrect == NetworkSpec => []NetworkTypeOK
<1>1. NetworkInv => NetworkTypeOK
  BY DEF NetworkInv
<1> QED
  BY <1>1, NetworkInvInit, NetworkInvStep, PTL DEF NetworkSpec

\* Probes, answers and timers of any two endpoints fit together: as long as fewer
\* datagrams are lost than there are probes, an endpoint that has been up with a known
\* one for a whole delay keeps a slot for it, until that one ends.
THEOREM PeerKeptHolds == NetworkSpec => PeerKept
<1> DEFINE Kept == \A a, b \in Node :
                       Knows(a, b) /\ a \in up' /\ lost < keep_alive_probes
                       /\ together[a][b] >= LostDelay /\ ~QuitInFlight(a, b)
                       => Knows(a, b)'
<1>1. NetworkInv /\ [NetworkNext]_networkVars => [Kept]_networkVars
  BY PeerStays
<1>2. NetworkSpec => [][Kept]_networkVars
  <2> HIDE DEF Kept
  <2> QED
    BY <1>1, NetworkInvInit, NetworkInvStep, PTL DEF NetworkSpec
<1> QED
  BY <1>2 DEF PeerKept
=============================================================================
