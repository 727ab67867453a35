------------------------- MODULE ForkLifecycleProofs -------------------------
(****************************************************************************)
(* For any number of starts, in any order of their steps and with any       *)
(* process killed at any time: a start that sets up alone always succeeds,  *)
(* and the names of a start are removed unless both processes were killed.  *)
(****************************************************************************)

EXTENDS ForkLifecycle, SequenceTheorems, TLAPS

USE StartsAssumption

OpName == {"unlink", "create", "open", "fork"}
Operation == [op : OpName, name : Name]

IsJoined(r, s, t) ==
    /\ r \in Seq(Operation) /\ Len(r) = Len(s) + Len(t)
    /\ \A i \in 1 .. Len(s) : r[i] = s[i]
    /\ \A i \in 1 .. Len(t) : r[Len(s) + i] = t[i]

LEMMA Joined ==
    ASSUME NEW s \in Seq(Operation), NEW t \in Seq(Operation)
    PROVE  IsJoined(s \o t, s, t)
<1>1. /\ s \o t \in Seq(Operation) /\ Len(s \o t) = Len(s) + Len(t)
      /\ \A i \in 1 .. Len(s) + Len(t) :
            (s \o t)[i] = IF i <= Len(s) THEN s[i] ELSE t[i - Len(s)]
  BY ConcatProperties
<1>2. Len(s) \in Nat /\ Len(t) \in Nat
  OBVIOUS
<1>3. \A i \in 1 .. Len(t) :
         Len(s) + i \in 1 .. Len(s) + Len(t) /\ (Len(s) + i) - Len(s) = i
         /\ ~(Len(s) + i <= Len(s))
  BY <1>2
<1>4. \A i \in 1 .. Len(s) : i \in 1 .. Len(s) + Len(t) /\ i <= Len(s)
  BY <1>2
<1> QED
  BY <1>1, <1>3, <1>4 DEF IsJoined

\* The operations that set up a forked socket, one after the other.
LEMMA SetUpSequence ==
    /\ Len(initForkedSocket) = 15
    /\ \A i \in 1 .. 4 : initForkedSocket[i] = cleanUpGlobals[i]
    /\ \A i \in 1 .. 4 : initForkedSocket[4 + i] = createMessageQueues[i]
    /\ initForkedSocket[9] = createPosixSharedMemory[1]
    /\ initForkedSocket[10] = createNamedSemaphore[1]
    /\ \A i \in 1 .. 4 : initForkedSocket[10 + i] = createNamedPipe[i]
    /\ initForkedSocket[15] = Op("fork", "pipe")
<1> DEFINE f == <<Op("fork", "pipe")>>
<1>0. \A o \in OpName, n \in Name : Op(o, n) \in Operation
  BY DEF Op, Operation
<1>1. cleanUpGlobals \in Seq(Operation) /\ Len(cleanUpGlobals) = 4
  BY <1>0 DEF OpName, Name, cleanUpGlobals
<1>2. createMessageQueues \in Seq(Operation) /\ Len(createMessageQueues) = 4
  BY <1>0 DEF OpName, Name, createMessageQueues
<1>3. createPosixSharedMemory \in Seq(Operation) /\ Len(createPosixSharedMemory) = 1
  BY <1>0 DEF OpName, Name, createPosixSharedMemory
<1>4. createNamedSemaphore \in Seq(Operation) /\ Len(createNamedSemaphore) = 1
  BY <1>0 DEF OpName, Name, createNamedSemaphore
<1>5. createNamedPipe \in Seq(Operation) /\ Len(createNamedPipe) = 4
  BY <1>0 DEF OpName, Name, createNamedPipe
<1>6. f \in Seq(Operation) /\ Len(f) = 1 /\ f[1] = Op("fork", "pipe")
  BY <1>0 DEF OpName, Name
<1> HIDE DEF f
<1>7. PICK b : b = cleanUpGlobals \o createMessageQueues
  OBVIOUS
<1>8. PICK c : c = b \o createPosixSharedMemory
  OBVIOUS
<1>9. PICK d : d = c \o createNamedSemaphore
  OBVIOUS
<1>10. PICK e : e = d \o createNamedPipe
  OBVIOUS
<1>11. initForkedSocket = e \o f
  BY <1>7, <1>8, <1>9, <1>10 DEF initForkedSocket, f
<1>12. /\ b \in Seq(Operation) /\ Len(b) = 4 + 4
       /\ \A i \in 1 .. 4 : b[i] = cleanUpGlobals[i]
       /\ \A i \in 1 .. 4 : b[4 + i] = createMessageQueues[i]
  <2>1. IsJoined(cleanUpGlobals \o createMessageQueues, cleanUpGlobals, createMessageQueues)
    BY <1>1, <1>2, <1>7, Joined
  <2> QED
    BY <2>1, <1>1, <1>2, <1>7 DEF IsJoined
<1>13. /\ c \in Seq(Operation) /\ Len(c) = 8 + 1
       /\ \A i \in 1 .. 8 : c[i] = b[i]
       /\ \A i \in 1 .. 1 : c[8 + i] = createPosixSharedMemory[i]
  <2>1. IsJoined(b \o createPosixSharedMemory, b, createPosixSharedMemory)
    BY <1>3, <1>8, <1>12, Joined
  <2>2. Len(b) = 8 /\ Len(createPosixSharedMemory) = 1
    BY <1>3, <1>12
  <2> QED
    BY <2>1, <2>2, <1>8 DEF IsJoined
<1>14. /\ d \in Seq(Operation) /\ Len(d) = 9 + 1
       /\ \A i \in 1 .. 9 : d[i] = c[i]
       /\ \A i \in 1 .. 1 : d[9 + i] = createNamedSemaphore[i]
  <2>1. IsJoined(c \o createNamedSemaphore, c, createNamedSemaphore)
    BY <1>4, <1>9, <1>13, Joined
  <2>2. Len(c) = 9 /\ Len(createNamedSemaphore) = 1
    BY <1>4, <1>13
  <2> QED
    BY <2>1, <2>2, <1>9 DEF IsJoined
<1>15. /\ e \in Seq(Operation) /\ Len(e) = 10 + 4
       /\ \A i \in 1 .. 10 : e[i] = d[i]
       /\ \A i \in 1 .. 4 : e[10 + i] = createNamedPipe[i]
  <2>1. IsJoined(d \o createNamedPipe, d, createNamedPipe)
    BY <1>5, <1>10, <1>14, Joined
  <2>2. Len(d) = 10 /\ Len(createNamedPipe) = 4
    BY <1>5, <1>14
  <2> QED
    BY <2>1, <2>2, <1>10 DEF IsJoined
<1>16. /\ Len(initForkedSocket) = 14 + 1
       /\ \A i \in 1 .. 14 : initForkedSocket[i] = e[i]
       /\ \A i \in 1 .. 1 : initForkedSocket[14 + i] = f[i]
  <2>1. IsJoined(e \o f, e, f)
    BY <1>6, <1>11, <1>15, Joined
  <2>2. Len(e) = 14 /\ Len(f) = 1
    BY <1>6, <1>15
  <2> QED
    BY <2>1, <2>2, <1>11 DEF IsJoined
<1> QED
  BY <1>6, <1>12, <1>13, <1>14, <1>15, <1>16

\* The same, operation by operation.
LEMMA SetUpOperations ==
    /\ Len(initForkedSocket) = 15 /\ Len(cleanUpGlobals) = 4
    /\ Len(killChildOnParentDeath) = 3
    /\ initForkedSocket[1] = Op("unlink", "parent_mq")
    /\ initForkedSocket[2] = Op("unlink", "child_mq")
    /\ initForkedSocket[3] = Op("unlink", "sem")
    /\ initForkedSocket[4] = Op("unlink", "shm")
    /\ initForkedSocket[5] = Op("unlink", "parent_mq")
    /\ initForkedSocket[6] = Op("unlink", "child_mq")
    /\ initForkedSocket[7] = Op("create", "parent_mq")
    /\ initForkedSocket[8] = Op("create", "child_mq")
    /\ initForkedSocket[9] = Op("create", "shm")
    /\ initForkedSocket[10] = Op("create", "sem")
    /\ initForkedSocket[11] = Op("unlink", "pipe")
    /\ initForkedSocket[12] = Op("create", "pipe")
    /\ initForkedSocket[13] = Op("open", "pipe")
    /\ initForkedSocket[14] = Op("open", "pipe")
    /\ initForkedSocket[15] = Op("fork", "pipe")
<1>1. /\ Len(cleanUpGlobals) = 4 /\ Len(killChildOnParentDeath) = 3
      /\ cleanUpGlobals[1] = Op("unlink", "parent_mq")
      /\ cleanUpGlobals[2] = Op("unlink", "child_mq")
      /\ cleanUpGlobals[3] = Op("unlink", "sem")
      /\ cleanUpGlobals[4] = Op("unlink", "shm")
  BY DEF cleanUpGlobals, killChildOnParentDeath
<1>2. /\ createMessageQueues[1] = Op("unlink", "parent_mq")
      /\ createMessageQueues[2] = Op("unlink", "child_mq")
      /\ createMessageQueues[3] = Op("create", "parent_mq")
      /\ createMessageQueues[4] = Op("create", "child_mq")
  BY DEF createMessageQueues
<1>3. /\ createPosixSharedMemory[1] = Op("create", "shm")
      /\ createNamedSemaphore[1] = Op("create", "sem")
  BY DEF createPosixSharedMemory, createNamedSemaphore
<1>4. /\ createNamedPipe[1] = Op("unlink", "pipe")
      /\ createNamedPipe[2] = Op("create", "pipe")
      /\ createNamedPipe[3] = Op("open", "pipe")
      /\ createNamedPipe[4] = Op("open", "pipe")
  BY DEF createNamedPipe
<1>5. /\ initForkedSocket[4 + 1] = createMessageQueues[1]
      /\ initForkedSocket[4 + 2] = createMessageQueues[2]
      /\ initForkedSocket[4 + 3] = createMessageQueues[3]
      /\ initForkedSocket[4 + 4] = createMessageQueues[4]
      /\ initForkedSocket[10 + 1] = createNamedPipe[1]
      /\ initForkedSocket[10 + 2] = createNamedPipe[2]
      /\ initForkedSocket[10 + 3] = createNamedPipe[3]
      /\ initForkedSocket[10 + 4] = createNamedPipe[4]
  BY SetUpSequence
<1> QED
  BY <1>1, <1>2, <1>3, <1>4, <1>5, SetUpSequence

\* Where the operations are: a name is free from its last unlink to its create, and the
\* pipe is the start's own from there to its opens.
Free == [parent_mq |-> 6 .. 7, child_mq |-> 7 .. 8, sem |-> 4 .. 10, shm |-> 5 .. 9,
         pipe |-> 12 .. 12]

LEMMA Positions ==
    ASSUME NEW i \in 1 .. 15, NEW n \in Name
    PROVE  /\ initForkedSocket[i] = Op("unlink", n) =>
                 /\ i <= 11
                 /\ \A k \in Name : i + 1 \in Free[k] => i \in Free[k] \/ k = n
           /\ initForkedSocket[i] = Op("create", n) =>
                 /\ i \in Free[n] /\ i <= 12 /\ (i = 12 => n = "pipe")
                 /\ \A k \in Name : i + 1 \in Free[k] => i \in Free[k] /\ k # n
           /\ initForkedSocket[i] = Op("open", "pipe") => i \in 13 .. 14
           /\ initForkedSocket[i] = Op("fork", "pipe") => i = 15
<1>1. i \in {1, 2, 3, 4, 5, 6, 7, 8, 9, 10, 11, 12, 13, 14, 15}
  OBVIOUS
<1>2. \A o1, n1, o2, n2 : Op(o1, n1) = Op(o2, n2) => o1 = o2 /\ n1 = n2
  BY DEF Op
<1>3. CASE i \in {1, 2, 3, 4, 5}
  BY <1>2, <1>3, SetUpOperations DEF Free, Name
<1>4. CASE i \in {6, 7, 8, 9, 10}
  BY <1>2, <1>4, SetUpOperations DEF Free, Name
<1>5. CASE i \in {11, 12, 13, 14, 15}
  BY <1>2, <1>5, SetUpOperations DEF Free, Name
<1> QED
  BY <1>1, <1>3, <1>4, <1>5

------------------------------------------------------------------------------

LEMMA ProcessFacts ==
    /\ \A g \in Start :
          /\ Parent(g) \in Process /\ Child(g) \in Process
          /\ Other(Parent(g)) = Child(g) /\ Other(Child(g)) = Parent(g)
          /\ Parent(g)[2] = "parent" /\ Child(g)[2] = "child"
          /\ Parent(g)[1] = g /\ Child(g)[1] = g
    /\ \A g, h \in Start :
          /\ Parent(g) # Child(h)
          /\ Parent(g) = Parent(h) => g = h
          /\ Child(g) = Child(h) => g = h
    /\ \A p \in Process : \E g \in Start : p = Parent(g) \/ p = Child(g)
    /\ \A p \in Process : Other(p) \in Process
BY DEF Process, Parent, Child, Other

ParentDoing == {"unborn", "creating", "forked", "running", "leaving", "ending", "over", "dead"}
ChildDoing == {"unborn", "arming", "running", "leaving", "ending", "dead"}

\* Each process is within the operations of what it is doing; a child is born of a parent
\* that has set up everything.
MotionInv ==
    /\ doing \in [Process -> ParentDoing \cup ChildDoing]
    /\ \A g \in Start :
          /\ doing[Parent(g)] \in ParentDoing /\ doing[Child(g)] \in ChildDoing
          /\ doing[Parent(g)] \in {"unborn", "creating"} => doing[Child(g)] = "unborn"
    /\ step \in [Process -> 1 .. 15]
    /\ \A p \in Process :
          /\ doing[p] \in {"ending", "leaving"} => step[p] \in 1 .. 5
          /\ doing[p] \in {"unborn", "arming"} => step[p] \in 1 .. 4

TypeInv ==
    /\ MotionInv
    /\ names \in [Name -> Start \cup {Nobody}]
    /\ pending \subseteq Process /\ abrupt \subseteq Process
    /\ unnoticed \subseteq Start /\ overlapped \subseteq Start

LEMMA TypeInit == Init => TypeInv
BY ProcessFacts DEF Init, TypeInv, MotionInv, ParentDoing, ChildDoing, Name

\* p does something else, or comes to its next step.
LEMMA DoesKeepsType ==
    ASSUME MotionInv, NEW p \in Process, NEW what, Does(p, what),
           \/ \E g \in Start : p = Parent(g) /\ what \in ParentDoing \ {"unborn"}
                                /\ (what = "creating" => doing[p] \in {"unborn", "creating"})
           \/ \E g \in Start : p = Child(g) /\ what \in ChildDoing
                                /\ doing[p] # "unborn"
    PROVE  MotionInv'
<1>1. /\ doing' = [doing EXCEPT ![p] = what] /\ step' = [step EXCEPT ![p] = 1]
  BY DEF Does
<1>2. /\ doing' \in [Process -> ParentDoing \cup ChildDoing] /\ step' \in [Process -> 1 .. 15]
      /\ doing'[p] = what /\ step'[p] = 1
      /\ \A q \in Process \ {p} : doing'[q] = doing[q] /\ step'[q] = step[q]
  BY <1>1 DEF MotionInv
<1>3. ASSUME NEW q \in Process
      PROVE  /\ doing'[q] \in {"ending", "leaving"} => step'[q] \in 1 .. 5
             /\ doing'[q] \in {"unborn", "arming"} => step'[q] \in 1 .. 4
  <2>1. /\ doing[q] \in {"ending", "leaving"} => step[q] \in 1 .. 5
        /\ doing[q] \in {"unborn", "arming"} => step[q] \in 1 .. 4
    BY DEF MotionInv
  <2>2. CASE q = p
    BY <2>2, <1>2
  <2>3. CASE q # p
    BY <2>1, <2>3, <1>2
  <2> QED
    BY <2>2, <2>3
<1>4. ASSUME NEW g \in Start
      PROVE  /\ doing'[Parent(g)] \in ParentDoing /\ doing'[Child(g)] \in ChildDoing
             /\ doing'[Parent(g)] \in {"unborn", "creating"} => doing'[Child(g)] = "unborn"
  <2>1. /\ doing[Parent(g)] \in ParentDoing /\ doing[Child(g)] \in ChildDoing
        /\ doing[Parent(g)] \in {"unborn", "creating"} => doing[Child(g)] = "unborn"
    BY DEF MotionInv
  <2>2. /\ Parent(g) \in Process /\ Child(g) \in Process /\ Parent(g) # Child(g)
        /\ \A h \in Start : Parent(g) # Child(h)
    BY ProcessFacts
  <2>3. CASE p = Parent(g)
    <3>1. /\ doing'[Parent(g)] = what /\ doing'[Child(g)] = doing[Child(g)]
          /\ what \in ParentDoing \ {"unborn"}
          /\ what = "creating" => doing[Parent(g)] \in {"unborn", "creating"}
      BY <2>2, <2>3, <1>2
    <3> QED
      BY <3>1, <2>1
  <2>4. CASE p = Child(g)
    <3>1. /\ doing'[Child(g)] = what /\ doing'[Parent(g)] = doing[Parent(g)]
          /\ what \in ChildDoing /\ doing[Child(g)] # "unborn"
      BY <2>2, <2>4, <1>2, ProcessFacts
    <3> QED
      BY <3>1, <2>1
  <2>5. CASE p # Parent(g) /\ p # Child(g)
    BY <1>2, <2>1, <2>2, <2>5
  <2> QED
    BY <2>3, <2>4, <2>5
<1> QED
  BY <1>2, <1>3, <1>4 DEF MotionInv

LEMMA ProceedsKeepsType ==
    ASSUME MotionInv, NEW p \in Process, Proceeds(p), step[p] <= 14,
           doing[p] \in {"ending", "leaving"} => step[p] <= 4,
           doing[p] \in {"unborn", "arming"} => step[p] <= 3
    PROVE  MotionInv' /\ UNCHANGED doing
<1>1. /\ UNCHANGED doing
      /\ step' = [step EXCEPT ![p] = step[p] + 1]
      /\ step[p] \in 1 .. 14 /\ step \in [Process -> 1 .. 15]
  BY DEF Proceeds, MotionInv
<1>2. /\ step' \in [Process -> 1 .. 15] /\ step'[p] = step[p] + 1
      /\ \A q \in Process \ {p} : step'[q] = step[q]
  BY <1>1
<1> QED
  BY <1>1, <1>2 DEF MotionInv

LEMMA TypeStep == TypeInv /\ [Next]_vars => TypeInv'
<1> SUFFICES ASSUME TypeInv, [Next]_vars PROVE TypeInv'
  OBVIOUS
<1>a. /\ MotionInv /\ names \in [Name -> Start \cup {Nobody}]
      /\ pending \subseteq Process /\ abrupt \subseteq Process
      /\ unnoticed \subseteq Start /\ overlapped \subseteq Start
      /\ doing \in [Process -> ParentDoing \cup ChildDoing]
      /\ step \in [Process -> 1 .. 15]
  BY DEF TypeInv, MotionInv
<1>b. ASSUME MotionInv', names' \in [Name -> Start \cup {Nobody}],
             pending' \subseteq Process, abrupt' \subseteq Process,
             unnoticed' \subseteq Start, overlapped' \subseteq Start
      PROVE  TypeInv'
  BY <1>b DEF TypeInv
\* A process dies.
<1>c. ASSUME NEW p \in Process, Dies(p), doing[p] # "unborn"
      PROVE  /\ MotionInv' /\ pending' \subseteq Process /\ unnoticed' \subseteq Start
  <2>1. Does(p, "dead")
    BY <1>c DEF Dies
  <2>2. MotionInv'
    BY <1>a, <1>c, <2>1, ProcessFacts, DoesKeepsType DEF ParentDoing, ChildDoing
  <2>3. Other(p) \in Process /\ p[1] \in Start
    BY ProcessFacts
  <2> QED
    BY <1>a, <1>c, <2>2, <2>3 DEF Dies
<1>1. ASSUME NEW g \in Start, Begin(g) PROVE TypeInv'
  <2>1. MotionInv'
    BY <1>1, <1>a, ProcessFacts, DoesKeepsType DEF Begin, ParentDoing
  <2> QED
    BY <1>1, <1>a, <1>b, <2>1 DEF Begin
<1>2. ASSUME NEW g \in Start, NEW n \in Name, Unlink(g, n) \/ Create(g, n) PROVE TypeInv'
  <2>1. /\ Proceeds(Parent(g)) /\ doing[Parent(g)] = "creating"
        /\ \/ initForkedSocket[step[Parent(g)]] = Op("unlink", n)
           \/ initForkedSocket[step[Parent(g)]] = Op("create", n)
        /\ names' \in [Name -> Start \cup {Nobody}]
        /\ UNCHANGED <<pending, abrupt, unnoticed, overlapped>>
    BY <1>2, <1>a DEF Unlink, Create, Sets
  <2>2. step[Parent(g)] <= 14
    BY <2>1, <1>a, ProcessFacts, Positions
  <2>3. MotionInv'
    BY <2>1, <2>2, <1>a, ProcessFacts, ProceedsKeepsType
  <2> QED
    BY <2>1, <2>3, <1>a, <1>b
<1>3. ASSUME NEW g \in Start, Open(g) PROVE TypeInv'
  <2>1. /\ Proceeds(Parent(g)) /\ doing[Parent(g)] = "creating"
        /\ initForkedSocket[step[Parent(g)]] = Op("open", "pipe")
        /\ UNCHANGED <<names, pending, abrupt, unnoticed, overlapped>>
    BY <1>3 DEF Open, Sets
  <2>2. step[Parent(g)] <= 14
    BY <2>1, <1>a, ProcessFacts, Positions DEF Name
  <2>3. MotionInv'
    BY <2>1, <2>2, <1>a, ProcessFacts, ProceedsKeepsType
  <2> QED
    BY <2>1, <2>3, <1>a, <1>b
<1>4. ASSUME NEW g \in Start, SetUpFails(g) PROVE TypeInv'
  <2>1. doing[Parent(g)] = "creating"
    BY <1>4 DEF SetUpFails, Disturbed, Sets
  <2> QED
    BY <1>4, <2>1, <1>a, <1>b, <1>c, ProcessFacts DEF SetUpFails
<1>5. ASSUME NEW g \in Start, Fork(g) PROVE TypeInv'
  <2>1. /\ doing' = [doing EXCEPT ![Parent(g)] = "forked", ![Child(g)] = "arming"]
        /\ step' = [step EXCEPT ![Parent(g)] = 1]
        /\ UNCHANGED <<names, pending, abrupt, unnoticed, overlapped>>
    BY <1>5 DEF Fork
  <2>2. /\ doing[Parent(g)] = "creating" /\ Parent(g) \in Process /\ Child(g) \in Process
        /\ Parent(g) # Child(g)
    BY <1>5, ProcessFacts DEF Fork, Sets
  <2>3. step[Child(g)] \in 1 .. 4
    BY <2>2, <1>a DEF MotionInv
  <2>4. /\ doing' \in [Process -> ParentDoing \cup ChildDoing] /\ step' \in [Process -> 1 .. 15]
        /\ doing'[Parent(g)] = "forked" /\ doing'[Child(g)] = "arming"
        /\ step'[Child(g)] \in 1 .. 4
        /\ \A q \in Process \ {Parent(g), Child(g)} : doing'[q] = doing[q] /\ step'[q] = step[q]
    BY <2>1, <2>2, <2>3, <1>a DEF ParentDoing, ChildDoing
  <2>5. ASSUME NEW q \in Process
        PROVE  /\ doing'[q] \in {"ending", "leaving"} => step'[q] \in 1 .. 5
               /\ doing'[q] \in {"unborn", "arming"} => step'[q] \in 1 .. 4
    BY <2>4, <1>a DEF MotionInv
  <2>6. ASSUME NEW h \in Start
        PROVE  /\ doing'[Parent(h)] \in ParentDoing /\ doing'[Child(h)] \in ChildDoing
               /\ doing'[Parent(h)] \in {"unborn", "creating"} => doing'[Child(h)] = "unborn"
    <3>1. CASE h = g
      BY <2>4, <3>1 DEF ParentDoing, ChildDoing
    <3>2. CASE h # g
      <4>1. /\ Parent(h) \in Process \ {Parent(g), Child(g)}
            /\ Child(h) \in Process \ {Parent(g), Child(g)}
        BY <3>2, ProcessFacts
      <4> QED
        BY <4>1, <2>4, <1>a DEF MotionInv
    <3> QED
      BY <3>1, <3>2
  <2>7. MotionInv'
    BY <2>4, <2>5, <2>6 DEF MotionInv
  <2> QED
    BY <2>1, <2>7, <1>a, <1>b
<1>6. ASSUME NEW g \in Start, killParentOnChildDeath(g) PROVE TypeInv'
  <2>1. MotionInv'
    BY <1>6, <1>a, ProcessFacts, DoesKeepsType DEF killParentOnChildDeath, ParentDoing
  <2> QED
    BY <1>6, <1>a, <1>b, <2>1 DEF killParentOnChildDeath
<1>7. ASSUME NEW g \in Start, Arm(g) \/ checkParentAlive(g) \/ Run(g) PROVE TypeInv'
  <2>1. doing[Child(g)] = "arming" /\ Child(g) \in Process
    BY <1>7, ProcessFacts DEF Arm, checkParentAlive, Run
  <2>2. \/ Proceeds(Child(g)) /\ step[Child(g)] <= 3
        \/ Does(Child(g), "ending") \/ Does(Child(g), "running")
    BY <1>7, SetUpOperations DEF Arm, checkParentAlive, Run
  <2>3. MotionInv'
    BY <1>a, <2>1, <2>2, DoesKeepsType, ProceedsKeepsType DEF ChildDoing
  <2> QED
    BY <1>7, <1>a, <1>b, <2>3 DEF Arm, checkParentAlive, Run
<1>8. ASSUME NEW p \in Process, Quit(p) PROVE TypeInv'
  <2>1. MotionInv'
    BY <1>8, <1>a, ProcessFacts, DoesKeepsType DEF Quit, ParentDoing, ChildDoing
  <2>2. pending' \subseteq Process
    BY <1>8, <1>a, ProcessFacts DEF Quit, Signals
  <2> QED
    BY <1>8, <1>a, <1>b, <2>1, <2>2 DEF Quit
<1>9. ASSUME NEW p \in Process, HandleSignal(p) PROVE TypeInv'
  <2>1. MotionInv'
    BY <1>9, <1>a, ProcessFacts, DoesKeepsType
       DEF HandleSignal, Hears, ParentDoing, ChildDoing
  <2> QED
    BY <1>9, <1>a, <1>b, <2>1 DEF HandleSignal
<1>10. ASSUME NEW p \in Process, CleanUp(p) PROVE TypeInv'
  <2>1. /\ Proceeds(p) /\ doing[p] \in {"ending", "leaving"} /\ step[p] <= 4
        /\ names' \in [Name -> Start \cup {Nobody}]
    BY <1>10, <1>a, SetUpOperations DEF CleanUp
  <2>2. MotionInv'
    BY <1>a, <2>1, ProceedsKeepsType
  <2> QED
    BY <1>10, <1>a, <1>b, <2>1, <2>2 DEF CleanUp
<1>11. ASSUME NEW g \in Start, TaskOver(g) PROVE TypeInv'
  <2>1. MotionInv'
    BY <1>11, <1>a, ProcessFacts, DoesKeepsType DEF TaskOver, ParentDoing
  <2>2. pending' \subseteq Process
    BY <1>11, <1>a, ProcessFacts DEF TaskOver, Signals
  <2> QED
    BY <1>11, <1>a, <1>b, <2>1, <2>2 DEF TaskOver
<1>12. ASSUME NEW p \in Process, Exit(p) \/ Kill(p) PROVE TypeInv'
  <2>1. Dies(p) /\ doing[p] # "unborn"
    BY <1>12 DEF Exit, Kill, Alive
  <2> QED
    BY <1>12, <2>1, <1>a, <1>b, <1>c DEF Exit, Kill
<1>13. CASE UNCHANGED vars
  BY <1>13, <1>a, <1>b DEF vars, MotionInv
<1> QED
  BY <1>1, <1>2, <1>3, <1>4, <1>5, <1>6, <1>7, <1>8, <1>9, <1>10, <1>11, <1>12, <1>13,
     ProcessFacts
     DEF Next, Step, ParentStep, ChildStep, SetUp

\* Every variable keeps its type, and no process leaves the sequence of its operations.
THEOREM TypeCorrect == Spec => []TypeOK
<1>1. TypeInv => TypeOK
  BY SetUpOperations DEF TypeInv, MotionInv, TypeOK, ParentDoing, ChildDoing
<1> QED
  BY <1>1, TypeInit, TypeStep, PTL DEF Spec

------------------------------------------------------------------------------

\* Of the starts that set up, none is alone unless it is the only one; and to one that was
\* alone all the time, the names are free that its next steps create.
RestartInv ==
    /\ \A g, h \in Start :
          g # h /\ doing[Parent(g)] = "creating" /\ doing[Parent(h)] = "creating" =>
              g \in overlapped
    /\ \A g \in Start :
          g \notin overlapped /\ doing[Parent(g)] = "creating" =>
              /\ \A n \in Name : step[Parent(g)] \in Free[n] => names[n] = Nobody
              /\ step[Parent(g)] \in 13 .. 14 => names["pipe"] = g

LEMMA RestartImplies == TypeInv /\ RestartInv => RestartSucceeds
<1> SUFFICES ASSUME TypeInv, RestartInv, NEW g \in Start \ overlapped, Disturbed(g)
             PROVE  FALSE
  BY DEF RestartSucceeds
<1>1. doing[Parent(g)] = "creating" /\ step[Parent(g)] \in 1 .. 15
  BY ProcessFacts DEF Disturbed, Sets, TypeInv, MotionInv
<1>2. CASE Sets(g, Op("open", "pipe")) /\ names["pipe"] # g
  BY <1>1, <1>2, Positions DEF Sets, RestartInv, Name
<1>3. ASSUME NEW n \in Name, Sets(g, Op("create", n)), names[n] # Nobody PROVE FALSE
  BY <1>1, <1>3, Positions DEF Sets, RestartInv
<1> QED
  BY <1>2, <1>3 DEF Disturbed

\* A step that no start sets up with only removes names, and not that of the pipe.
LEMMA RestartFrame ==
    ASSUME RestartInv, overlapped \subseteq overlapped',
           \A g \in Start : doing'[Parent(g)] = "creating" =>
                doing[Parent(g)] = "creating" /\ step'[Parent(g)] = step[Parent(g)],
           \A n \in Name : names'[n] \in {names[n], Nobody},
           names'["pipe"] = names["pipe"]
    PROVE  RestartInv'
BY DEF RestartInv

LEMMA DoesNotSetUp ==
    ASSUME MotionInv, NEW p \in Process, NEW what, Does(p, what), what # "creating"
    PROVE  \A g \in Start : doing'[Parent(g)] = "creating" =>
                doing[Parent(g)] = "creating" /\ step'[Parent(g)] = step[Parent(g)]
<1>1. /\ doing'[p] = what
      /\ \A q \in Process \ {p} : doing'[q] = doing[q] /\ step'[q] = step[q]
  BY DEF Does, MotionInv
<1> QED
  BY <1>1, ProcessFacts

LEMMA ProceedsNotSettingUp ==
    ASSUME MotionInv, NEW p \in Process, Proceeds(p), doing[p] # "creating"
    PROVE  \A g \in Start : doing'[Parent(g)] = "creating" =>
                doing[Parent(g)] = "creating" /\ step'[Parent(g)] = step[Parent(g)]
<1>1. /\ doing' = doing
      /\ \A q \in Process \ {p} : step'[q] = step[q]
  BY DEF Proceeds, MotionInv
<1> QED
  BY <1>1, ProcessFacts

\* g comes to the next step of setting up.
LEMMA RestartProceeds ==
    ASSUME MotionInv, RestartInv, NEW g \in Start, Proceeds(Parent(g)),
           doing[Parent(g)] = "creating", step[Parent(g)] <= 14, UNCHANGED overlapped,
           g \notin overlapped =>
              /\ \A n \in Name : step[Parent(g)] + 1 \in Free[n] => names'[n] = Nobody
              /\ step[Parent(g)] + 1 \in 13 .. 14 => names'["pipe"] = g
    PROVE  RestartInv'
<1>1. /\ doing' = doing /\ step'[Parent(g)] = step[Parent(g)] + 1
  BY ProcessFacts DEF Proceeds, MotionInv
<1>2. ASSUME NEW h \in Start, h \notin overlapped', doing'[Parent(h)] = "creating"
      PROVE  h = g
  BY <1>1, <1>2 DEF RestartInv
<1> QED
  BY <1>1, <1>2 DEF RestartInv

LEMMA RestartStep == TypeInv /\ RestartInv /\ [Next]_vars => RestartInv'
<1> SUFFICES ASSUME TypeInv, RestartInv, [Next]_vars PROVE RestartInv'
  OBVIOUS
<1>a. MotionInv /\ names \in [Name -> Start \cup {Nobody}] /\ "pipe" \in Name
  BY DEF TypeInv, Name
<1>b. ASSUME NEW p \in Process, NEW what, Does(p, what), what # "creating",
             UNCHANGED <<names, overlapped>>
      PROVE  RestartInv'
  BY <1>a, <1>b, DoesNotSetUp, RestartFrame
<1>1. ASSUME NEW g \in Start, Begin(g) PROVE RestartInv'
  <2> DEFINE others == {h \in Start : doing[Parent(h)] = "creating"}
  <2>1. /\ doing' = [doing EXCEPT ![Parent(g)] = "creating"]
        /\ step' = [step EXCEPT ![Parent(g)] = 1]
        /\ overlapped' = IF others = {} THEN overlapped ELSE overlapped \cup {g} \cup others
        /\ UNCHANGED names
    BY <1>1 DEF Begin, Does
  <2>2. /\ \A h \in Start \ {g} : /\ doing'[Parent(h)] = doing[Parent(h)]
                                  /\ step'[Parent(h)] = step[Parent(h)]
        /\ doing'[Parent(g)] = "creating" /\ step'[Parent(g)] = 1
    BY <2>1, <1>a, ProcessFacts DEF MotionInv
  <2>3. ASSUME NEW h \in Start, NEW k \in Start, h # k,
               doing'[Parent(h)] = "creating", doing'[Parent(k)] = "creating"
        PROVE  h \in overlapped'
    <3>1. CASE h # g
      BY <2>1, <2>2, <2>3, <3>1
    <3>2. CASE h = g
      <4>1. k \in others
        BY <2>2, <2>3, <3>2
      <4> QED
        BY <2>1, <3>2, <4>1
    <3> QED
      BY <3>1, <3>2
  <2>4. ASSUME NEW h \in Start, h \notin overlapped', doing'[Parent(h)] = "creating"
        PROVE  /\ \A n \in Name : step'[Parent(h)] \in Free[n] => names'[n] = Nobody
               /\ step'[Parent(h)] \in 13 .. 14 => names'["pipe"] = h
    <3>1. CASE h = g
      BY <2>2, <3>1 DEF Free, Name
    <3>2. CASE h # g
      <4>1. /\ doing[Parent(h)] = "creating" /\ step'[Parent(h)] = step[Parent(h)]
            /\ h \notin overlapped
        BY <2>1, <2>2, <2>4, <3>2
      <4> QED
        BY <4>1, <2>1 DEF RestartInv
    <3> QED
      BY <3>1, <3>2
  <2> QED
    BY <2>3, <2>4 DEF RestartInv
<1>2. ASSUME NEW g \in Start, NEW n \in Name, Unlink(g, n) \/ Create(g, n) PROVE RestartInv'
  <2> DEFINE i == step[Parent(g)]
  <2>1. /\ Proceeds(Parent(g)) /\ doing[Parent(g)] = "creating" /\ UNCHANGED overlapped
        /\ i \in 1 .. 15
    BY <1>2, <1>a, ProcessFacts DEF Unlink, Create, Sets, MotionInv
  <2>2. CASE initForkedSocket[i] = Op("unlink", n) /\ names' = [names EXCEPT ![n] = Nobody]
    <3>1. /\ i <= 11
          /\ \A k \in Name : i + 1 \in Free[k] => i \in Free[k] \/ k = n
      BY <2>1, <2>2, Positions
    <3>2. g \notin overlapped =>
             \A k \in Name : i + 1 \in Free[k] => names'[k] = Nobody
      BY <2>1, <2>2, <3>1, <1>a DEF RestartInv
    <3> HIDE DEF i
    <3>3. i <= 14 /\ i + 1 \notin 13 .. 14
      BY <2>1, <3>1
    <3> QED
      BY <1>a, <2>1, <3>2, <3>3, RestartProceeds DEF i
  <2>3. CASE initForkedSocket[i] = Op("create", n) /\ names' = [names EXCEPT ![n] = g]
    <3>1. /\ i <= 12 /\ (i = 12 => n = "pipe")
          /\ \A k \in Name : i + 1 \in Free[k] => i \in Free[k] /\ k # n
      BY <2>1, <2>3, Positions
    <3>2. g \notin overlapped =>
             \A k \in Name : i + 1 \in Free[k] => names'[k] = Nobody
      BY <2>1, <2>3, <3>1, <1>a DEF RestartInv
    <3>3. i + 1 \in 13 .. 14 => names'["pipe"] = g
      BY <2>1, <2>3, <3>1, <1>a
    <3> QED
      BY <1>a, <2>1, <3>1, <3>2, <3>3, RestartProceeds
  <2> QED
    BY <1>2, <2>2, <2>3 DEF Unlink, Create, Sets
<1>3. ASSUME NEW g \in Start, Open(g) PROVE RestartInv'
  <2> DEFINE i == step[Parent(g)]
  <2>1. /\ Proceeds(Parent(g)) /\ doing[Parent(g)] = "creating"
        /\ UNCHANGED <<names, overlapped>> /\ i \in 1 .. 15
        /\ initForkedSocket[i] = Op("open", "pipe")
    BY <1>3, <1>a, ProcessFacts DEF Open, Sets, MotionInv
  <2>2. i \in 13 .. 14
    BY <2>1, <1>a, Positions
  <2>3. \A n \in Name : i + 1 \notin Free[n]
    BY <2>2 DEF Free, Name
  <2>4. g \notin overlapped => names'["pipe"] = g
    BY <2>1, <2>2 DEF RestartInv
  <2> QED
    BY <1>a, <2>1, <2>2, <2>3, <2>4, RestartProceeds
<1>4. ASSUME NEW g \in Start, SetUpFails(g) \/ killParentOnChildDeath(g) \/ TaskOver(g)
      PROVE  RestartInv'
  BY <1>4, <1>b, ProcessFacts
     DEF SetUpFails, killParentOnChildDeath, TaskOver, Dies
<1>5. ASSUME NEW g \in Start, Fork(g) PROVE RestartInv'
  <2>1. \A h \in Start : doing'[Parent(h)] = "creating" =>
            doing[Parent(h)] = "creating" /\ step'[Parent(h)] = step[Parent(h)]
    BY <1>5, <1>a, ProcessFacts DEF Fork, MotionInv
  <2> QED
    BY <1>5, <1>a, <2>1, RestartFrame DEF Fork
<1>6. ASSUME NEW g \in Start, Arm(g) \/ checkParentAlive(g) \/ Run(g) PROVE RestartInv'
  <2>1. /\ doing[Child(g)] = "arming" /\ Child(g) \in Process
        /\ UNCHANGED <<names, overlapped>>
    BY <1>6, ProcessFacts DEF Arm, checkParentAlive, Run
  <2>2. CASE Proceeds(Child(g))
    BY <1>a, <2>1, <2>2, ProceedsNotSettingUp, RestartFrame
  <2>3. CASE Does(Child(g), "ending") \/ Does(Child(g), "running")
    BY <2>1, <2>3, <1>b
  <2> QED
    BY <1>6, <2>2, <2>3 DEF Arm, checkParentAlive, Run
<1>7. ASSUME NEW p \in Process, Quit(p) \/ HandleSignal(p) \/ Exit(p) \/ Kill(p)
      PROVE  RestartInv'
  BY <1>7, <1>b DEF Quit, HandleSignal, Exit, Kill, Dies
<1>8. ASSUME NEW p \in Process, CleanUp(p) PROVE RestartInv'
  <2>1. /\ Proceeds(p) /\ doing[p] # "creating" /\ UNCHANGED overlapped
        /\ step[p] \in 1 .. 4
        /\ names' = [names EXCEPT ![cleanUpGlobals[step[p]].name] = Nobody]
    BY <1>8, <1>a, SetUpOperations DEF CleanUp, MotionInv
  <2>2. cleanUpGlobals[step[p]].name # "pipe"
    BY <2>1 DEF cleanUpGlobals, Op
  <2>3. (\A n \in Name : names'[n] \in {names[n], Nobody}) /\ names'["pipe"] = names["pipe"]
    BY <2>1, <2>2, <1>a
  <2> QED
    BY <1>a, <2>1, <2>3, ProceedsNotSettingUp, RestartFrame
<1>9. CASE UNCHANGED vars
  BY <1>9, RestartFrame DEF vars
<1> QED
  BY <1>1, <1>2, <1>3, <1>4, <1>5, <1>6, <1>7, <1>8, <1>9, ProcessFacts
     DEF Next, Step, ParentStep, ChildStep, SetUp

\* Whatever earlier starts have left behind, a start that sets up alone finds its names
\* free and its own pipe.
THEOREM RestartSucceedsHolds == Spec => []RestartSucceeds
<1>1. Init => RestartInv
  BY ProcessFacts DEF Init, RestartInv
<1> QED
  BY <1>1, TypeInit, TypeStep, RestartStep, RestartImplies, PTL DEF Spec

------------------------------------------------------------------------------

\* As long as a name of a start is there, none of its processes has ended in order, nor is
\* one beyond the step that removes the name.
MayRemain(p, n) ==
    /\ doing[p] = "dead" => p \in abrupt
    /\ doing[p] \in {"ending", "leaving"} =>
          \E i \in step[p] .. 4 : cleanUpGlobals[i].name = n
    /\ doing[p] # "over"

ResidueInv ==
    \A g \in Start, n \in Name \ {"pipe"} :
        names[n] = g => MayRemain(Parent(g), n) /\ MayRemain(Child(g), n)

LEMMA ResidueImplies == TypeInv /\ ResidueInv => ResidueOnlyIfBothKilled
BY DEF ResidueInv, MayRemain, ResidueOnlyIfBothKilled

\* cleanUpGlobals removes every name but that of the pipe.
LEMMA CleansAll ==
    /\ Len(cleanUpGlobals) = 4
    /\ \A n \in Name \ {"pipe"} : \E i \in 1 .. 4 : cleanUpGlobals[i].name = n
    /\ \A i \in 1 .. 4 : cleanUpGlobals[i].name \in Name \ {"pipe"}
<1>1. /\ cleanUpGlobals[1].name = "parent_mq" /\ cleanUpGlobals[2].name = "child_mq"
      /\ cleanUpGlobals[3].name = "sem" /\ cleanUpGlobals[4].name = "shm"
  BY DEF cleanUpGlobals, Op
<1>2. Name \ {"pipe"} = {"parent_mq", "child_mq", "sem", "shm"}
  BY DEF Name
<1>3. Len(cleanUpGlobals) = 4
  BY SetUpOperations
<1>4. \A i \in 1 .. 4 : i \in {1, 2, 3, 4}
  OBVIOUS
<1> QED
  BY <1>1, <1>2, <1>3, <1>4

\* What a step may do to a name and to the two processes of its start.
LEMMA ResidueFrame ==
    ASSUME ResidueInv,
           \A g \in Start, n \in Name \ {"pipe"} : names'[n] = g =>
               \A p \in {Parent(g), Child(g)} :
                   (names[n] = g => MayRemain(p, n)) => MayRemain(p, n)'
    PROVE  ResidueInv'
BY DEF ResidueInv

\* p does something else than to end in order, or has no name left.
LEMMA ResidueDoes ==
    ASSUME TypeInv, ResidueInv, NEW p \in Process, NEW what, Does(p, what), UNCHANGED names,
           abrupt \subseteq abrupt',
           \/ what \notin {"dead", "over"}
           \/ what = "dead" /\ p \in abrupt'
           \/ \A n \in Name \ {"pipe"} : ~MayRemain(p, n)
    PROVE  ResidueInv'
<1>1. /\ doing'[p] = what /\ step'[p] = 1
      /\ \A q \in Process \ {p} : doing'[q] = doing[q] /\ step'[q] = step[q]
  BY DEF Does, TypeInv, MotionInv
<1>2. ASSUME NEW g \in Start, NEW n \in Name \ {"pipe"}, names'[n] = g,
             NEW q \in {Parent(g), Child(g)}, MayRemain(q, n)
      PROVE  MayRemain(q, n)'
  <2>1. q \in Process
    BY ProcessFacts
  <2>2. CASE q # p
    BY <1>1, <1>2, <2>1, <2>2 DEF MayRemain
  <2>3. CASE q = p
    <3>1. \E i \in 1 .. 4 : cleanUpGlobals[i].name = n
      BY CleansAll
    <3>2. what # "over" /\ (what = "dead" => p \in abrupt')
      BY <1>2, <2>3
    <3> QED
      BY <1>1, <2>3, <3>1, <3>2 DEF MayRemain
  <2> QED
    BY <2>2, <2>3
<1> QED
  BY <1>2 DEF ResidueInv

LEMMA ResidueStep == TypeInv /\ ResidueInv /\ [Next]_vars => ResidueInv'
<1> SUFFICES ASSUME TypeInv, ResidueInv, [Next]_vars PROVE ResidueInv'
  OBVIOUS
<1>a. /\ MotionInv /\ names \in [Name -> Start \cup {Nobody}]
      /\ \A p \in Process : step[p] \in 1 .. 15
  BY DEF TypeInv, MotionInv
<1>1. ASSUME NEW g \in Start, Begin(g) \/ killParentOnChildDeath(g) PROVE ResidueInv'
  BY <1>1, ProcessFacts, ResidueDoes DEF Begin, killParentOnChildDeath
<1>2. ASSUME NEW p \in Process, Kill(p) PROVE ResidueInv'
  BY <1>2, ResidueDoes DEF Kill, Dies
<1>3. ASSUME NEW g \in Start, SetUpFails(g) PROVE ResidueInv'
  BY <1>3, ProcessFacts, ResidueDoes DEF SetUpFails, Dies
<1>4. ASSUME NEW g \in Start, NEW m \in Name, Unlink(g, m) \/ Create(g, m) \/ Open(g)
      PROVE  ResidueInv'
  <2>1. /\ Proceeds(Parent(g)) /\ doing[Parent(g)] = "creating" /\ UNCHANGED abrupt
        /\ \A n \in Name : names'[n] \in {names[n], Nobody, g}
    BY <1>4, <1>a DEF Unlink, Create, Open, Sets
  <2>2. /\ doing' = doing /\ doing[Child(g)] = "unborn"
        /\ \A q \in Process \ {Parent(g)} : step'[q] = step[q]
    BY <2>1, <1>a, ProcessFacts DEF Proceeds, MotionInv
  <2>3. ASSUME NEW h \in Start, NEW n \in Name \ {"pipe"}, names'[n] = h
        PROVE  MayRemain(Parent(h), n)' /\ MayRemain(Child(h), n)'
    <3>1. CASE h = g
      BY <2>1, <2>2, <3>1, ProcessFacts DEF MayRemain
    <3>2. CASE h # g
      <4>1. names[n] = h
        BY <2>1, <2>3, <3>2 DEF Start, Nobody
      <4>2. MayRemain(Parent(h), n) /\ MayRemain(Child(h), n)
        BY <4>1 DEF ResidueInv
      <4>3. /\ Parent(h) \in Process \ {Parent(g)} /\ Child(h) \in Process \ {Parent(g)}
        BY <3>2, ProcessFacts
      <4> QED
        BY <2>1, <2>2, <4>2, <4>3 DEF MayRemain
    <3> QED
      BY <3>1, <3>2
  <2> QED
    BY <2>3 DEF ResidueInv
<1>5. ASSUME NEW g \in Start, Fork(g) PROVE ResidueInv'
  <2>1. /\ doing' = [doing EXCEPT ![Parent(g)] = "forked", ![Child(g)] = "arming"]
        /\ step' = [step EXCEPT ![Parent(g)] = 1] /\ UNCHANGED <<names, abrupt>>
    BY <1>5 DEF Fork
  <2>2. /\ doing'[Parent(g)] = "forked" /\ doing'[Child(g)] = "arming"
        /\ \A q \in Process \ {Parent(g), Child(g)} : doing'[q] = doing[q] /\ step'[q] = step[q]
    BY <2>1, <1>a, ProcessFacts DEF MotionInv
  <2>3. ASSUME NEW q \in Process, NEW n \in Name, MayRemain(q, n) PROVE MayRemain(q, n)'
    BY <2>1, <2>2, <2>3 DEF MayRemain
  <2> QED
    BY <2>1, <2>3, ProcessFacts DEF ResidueInv
<1>6. ASSUME NEW g \in Start, Arm(g) \/ checkParentAlive(g) \/ Run(g) PROVE ResidueInv'
  <2>1. /\ doing[Child(g)] = "arming" /\ Child(g) \in Process
        /\ UNCHANGED <<names, abrupt>>
    BY <1>6, ProcessFacts DEF Arm, checkParentAlive, Run
  <2>2. CASE Proceeds(Child(g))
    <3>1. doing' = doing /\ \A q \in Process \ {Child(g)} : step'[q] = step[q]
      BY <2>2, <1>a DEF Proceeds, MotionInv
    <3>2. ASSUME NEW q \in Process, NEW n \in Name, MayRemain(q, n) PROVE MayRemain(q, n)'
      BY <2>1, <3>1, <3>2 DEF MayRemain
    <3> QED
      BY <2>1, <3>2, ProcessFacts DEF ResidueInv
  <2>3. CASE Does(Child(g), "ending") \/ Does(Child(g), "running")
    BY <2>1, <2>3, ResidueDoes
  <2> QED
    BY <1>6, <2>2, <2>3 DEF Arm, checkParentAlive, Run
<1>7. ASSUME NEW p \in Process, Quit(p) \/ HandleSignal(p) PROVE ResidueInv'
  BY <1>7, ResidueDoes DEF Quit, HandleSignal
<1>8. ASSUME NEW p \in Process, CleanUp(p) PROVE ResidueInv'
  <2> DEFINE gone == cleanUpGlobals[step[p]].name
  <2>1. /\ doing[p] \in {"ending", "leaving"} /\ step[p] \in 1 .. 4
        /\ names' = [names EXCEPT ![gone] = Nobody] /\ UNCHANGED abrupt
        /\ gone \in Name
    BY <1>8, <1>a, CleansAll DEF CleanUp
  <2>2. /\ doing' = doing /\ step'[p] = step[p] + 1
        /\ \A q \in Process \ {p} : step'[q] = step[q]
    BY <1>8, <1>a DEF CleanUp, Proceeds, MotionInv
  <2>3. ASSUME NEW g \in Start, NEW n \in Name \ {"pipe"}, names'[n] = g
        PROVE  n # gone /\ names[n] = g
    BY <2>1, <2>3, <1>a DEF Start, Nobody
  <2>4. ASSUME NEW q \in Process, NEW n \in Name \ {"pipe"}, n # gone, MayRemain(q, n)
        PROVE  MayRemain(q, n)'
    <3>1. CASE q # p
      BY <2>1, <2>2, <2>4, <3>1 DEF MayRemain
    <3>2. CASE q = p
      <4>1. PICK i \in step[p] .. 4 : cleanUpGlobals[i].name = n
        BY <2>1, <2>4, <3>2 DEF MayRemain
      <4>2. i \in step[p] + 1 .. 4
        BY <2>1, <2>4, <4>1
      <4>3. \E j \in step'[p] .. 4 : cleanUpGlobals[j].name = n
        BY <2>2, <4>1, <4>2
      <4> QED
        BY <2>1, <2>2, <2>4, <3>2, <4>3 DEF MayRemain
    <3> QED
      BY <3>1, <3>2
  <2> QED
    BY <2>3, <2>4, ProcessFacts DEF ResidueInv
<1>9. ASSUME NEW g \in Start, TaskOver(g) PROVE ResidueInv'
  <2>1. \A n \in Name \ {"pipe"} : ~MayRemain(Parent(g), n)
    BY <1>9, CleansAll, <1>a, ProcessFacts DEF TaskOver, MayRemain
  <2> QED
    BY <1>9, <2>1, ProcessFacts, ResidueDoes DEF TaskOver
<1>10. ASSUME NEW p \in Process, Exit(p) PROVE ResidueInv'
  <2>1. \A n \in Name \ {"pipe"} : ~MayRemain(p, n)
    BY <1>10, CleansAll, <1>a DEF Exit, MayRemain
  <2> QED
    BY <1>10, <2>1, ResidueDoes DEF Exit, Dies
<1>11. CASE UNCHANGED vars
  BY <1>11 DEF vars, ResidueInv, MayRemain
<1> QED
  BY <1>1, <1>2, <1>3, <1>4, <1>5, <1>6, <1>7, <1>8, <1>9, <1>10, <1>11, ProcessFacts
     DEF Next, Step, ParentStep, ChildStep, SetUp, Name

\* A process that ends in order has removed the names of its start, whenever the other
\* one died.
THEOREM ResidueOnlyIfBothKilledHolds == Spec => []ResidueOnlyIfBothKilled
<1>1. Init => ResidueInv
  BY DEF Init, ResidueInv, Start, Nobody
<1> QED
  BY <1>1, TypeInit, TypeStep, ResidueStep, ResidueImplies, PTL DEF Spec

=============================================================================
