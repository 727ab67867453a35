--------------------------- MODULE UnixNetworkProofs ---------------------------
(****************************************************************************)
(* For any names, command lines, table size and queue length: a process     *)
(* runs with what its command line says, a peer that took its leave is      *)
(* forgotten, and a process crashes at a quit message only with a full      *)
(* table or when the configurations of the two let it.                      *)
(****************************************************************************)

EXTENDS UnixNetwork, FiniteSetTheorems, SequenceTheorems, WellFoundedInduction, TLAPS

USE PathAssumption, BoundAssumption, QueueAssumption

\* Where a configuration names r among the remotes, and whether it does so twice.
Wanted(c, r) == {k \in DOMAIN c.remotes : c.remotes[k].addr = r}
Twice(c, r) == Cardinality(Wanted(c, r)) > 1

\* s has one slot for r at most; one before slot i; one from slot i on.
Single(s, r) == \A j, k \in Slots(s, r) : j = k
Passed(s, r, i) == \E k \in Slots(s, r) : k < i
Ahead(s, r, i) == \E k \in Slots(s, r) : k >= i

HasQuit(q, b) == \E i \in DOMAIN q : q[i] = [from |-> b, msg |-> "q"]
HasText(q, b) == \E i \in DOMAIN q : q[i] = [from |-> b, msg |-> "text"]

\* Behind a quit message come only further ones of the same sender, which is in Doubled.
QuitsLast(q, Doubled) ==
    \A i, j \in DOMAIN q :
        i < j /\ q[i].msg = "q" /\ q[j].from = q[i].from =>
            q[j].msg = "q" /\ q[i].from \in Doubled

------------------------------------------------------------------------------

LEMMA LeastElement ==
    ASSUME NEW S \in SUBSET Nat, S # {}
    PROVE  \E m \in S : \A n \in S : m <= n
<1> DEFINE T == {1 .. k : k \in S}
<1> DEFINE R == StrictSubsetOrdering(Nat)
<1>1. T \subseteq FiniteSubsetsOf(Nat) /\ T # {}
  <2>1. ASSUME NEW k \in S PROVE 1 .. k \in FiniteSubsetsOf(Nat)
    <3>1. 1 \in Int /\ k \in Int
      OBVIOUS
    <3>2. IsFiniteSet(1 .. k)
      BY <3>1, FS_Interval
    <3> QED
      BY <3>2 DEF FiniteSubsetsOf
  <2> QED
    BY <2>1
<1>w. IsWellFoundedOn(R, FiniteSubsetsOf(Nat))
  BY FS_StrictSubsetOrderingWellFounded
<1>2. PICK x \in T : \A y \in T : <<y, x>> \notin R
  <2> HIDE DEF T, R
  <2> QED
    BY <1>1, <1>w, WFMin
<1>3. PICK m \in S : x = 1 .. m
  OBVIOUS
<1>4. ASSUME NEW n \in S, ~(m <= n) PROVE FALSE
  <2>1. 1 .. n \subseteq 1 .. m /\ 1 .. n # 1 .. m
    <3>1. m \in 1 .. m /\ m \notin 1 .. n
      BY <1>4
    <3> QED
      BY <1>4, <3>1
  <2>2. <<1 .. n, 1 .. m>> \in R
    BY <2>1 DEF StrictSubsetOrdering
  <2> QED
    BY <1>2, <1>3, <2>2
<1> QED
  BY <1>4

\* Induction over 0 .. N, for membership in a set.
LEMMA Induction ==
    ASSUME NEW N \in Nat, NEW G, 0 \in G, \A k \in 1 .. N : k - 1 \in G => k \in G
    PROVE  \A k \in 0 .. N : k \in G
<1> DEFINE Bad == {k \in 0 .. N : k \notin G}
<1> SUFFICES ASSUME Bad # {} PROVE FALSE
  OBVIOUS
<1>1. PICK m \in Bad : \A k \in Bad : m <= k
  <2>1. Bad \in SUBSET Nat
    OBVIOUS
  <2> HIDE DEF Bad
  <2> QED
    BY <2>1, LeastElement
<1>2. m \in 1 .. N /\ m \notin G
  OBVIOUS
<1>3. m - 1 \in 0 .. N /\ m - 1 \notin Bad
  BY <1>1, <1>2
<1> QED
  BY <1>2, <1>3

\* The functions that start with init and iterate the steps: there is always one.
Iterations(N, S, init, step) ==
    {f \in [0 .. N -> S] : f[0] = init /\ \A k \in 1 .. N : f[k] = step[k][f[k - 1]]}

LEMMA Iterated ==
    ASSUME NEW N \in Nat, NEW S, NEW init \in S, NEW step \in [1 .. N -> [S -> S]]
    PROVE  Iterations(N, S, init, step) # {}
<1> DEFINE Iterates(f, n) ==
               f[0] = init /\ \A k \in 1 .. n : f[k] = step[k][f[k - 1]]
           G == {n \in 0 .. N : \E f \in [0 .. n -> S] : Iterates(f, n)}
<1>1. 0 \in G
  <2> DEFINE f == [k \in 0 .. 0 |-> init]
  <2>1. f \in [0 .. 0 -> S] /\ Iterates(f, 0)
    OBVIOUS
  <2> HIDE DEF f, Iterates
  <2> QED
    BY <2>1
<1>2. ASSUME NEW n \in 1 .. N, n - 1 \in G PROVE n \in G
  <2>1. PICK f \in [0 .. n - 1 -> S] : Iterates(f, n - 1)
    BY <1>2
  <2> DEFINE g == [k \in 0 .. n |-> IF k = n THEN step[n][f[n - 1]] ELSE f[k]]
  <2>2. step[n][f[n - 1]] \in S
    <3>1. f[n - 1] \in S
      OBVIOUS
    <3> QED
      BY <3>1
  <2>3. /\ g \in [0 .. n -> S] /\ g[n] = step[n][f[n - 1]]
        /\ \A k \in 0 .. n - 1 : g[k] = f[k]
    BY <2>2
  <2> HIDE DEF g
  <2>4. g[0] = init
    BY <2>1, <2>3
  <2>5. ASSUME NEW k \in 1 .. n PROVE g[k] = step[k][g[k - 1]]
    <3>1. k - 1 \in 0 .. n - 1 /\ g[k - 1] = f[k - 1]
      BY <2>3
    <3>2. CASE k = n
      BY <2>3, <3>1, <3>2
    <3>3. CASE k # n
      <4>1. k \in 1 .. n - 1
        BY <3>3
      <4> QED
        BY <2>1, <2>3, <3>1, <4>1
    <3> QED
      BY <3>2, <3>3
  <2>6. Iterates(g, n)
    BY <2>4, <2>5
  <2> HIDE DEF Iterates
  <2> QED
    BY <2>3, <2>6
<1> HIDE DEF G
<1>3. N \in G
  <2>1. \A k \in 0 .. N : k \in G
    BY <1>1, <1>2, Induction
  <2> QED
    BY <2>1
<1> QED
  BY <1>3 DEF G, Iterations

LEMMA SameInterval ==
    ASSUME NEW k \in Nat, NEW l \in Nat, 1 .. k = 1 .. l
    PROVE  k = l
<1>1. (k > l => k \in 1 .. k) /\ (l > k => l \in 1 .. l)
  OBVIOUS
<1> QED
  BY <1>1

LEMMA OneAtMost ==
    ASSUME NEW S, IsFiniteSet(S), ~(Cardinality(S) > 1), NEW j \in S, NEW k \in S
    PROVE  j = k
<1> SUFFICES ASSUME j # k PROVE FALSE
  OBVIOUS
<1>1. {j, k} \subseteq S
  OBVIOUS
<1>2. Cardinality({j, k}) = 2
  <2>1. IsFiniteSet({j}) /\ Cardinality({j}) = 1
    BY FS_Singleton
  <2>2. {j, k} = {j} \cup {k} /\ k \notin {j}
    OBVIOUS
  <2>3. Cardinality({j} \cup {k}) = 1 + 1
    BY <2>1, <2>2, FS_AddElement
  <2>4. 1 + 1 = 2
    OBVIOUS
  <2> QED
    BY <2>2, <2>3, <2>4, Zenon
<1>3. Cardinality({j, k}) <= Cardinality(S)
  BY <1>1, FS_Subset
<1>4. Cardinality(S) \in Nat
  BY FS_CardinalityType
<1> QED
  BY <1>2, <1>3, <1>4

------------------------------------------------------------------------------

\* The path of a slot that is found is the one looked for.
LEMMA FindPeer ==
    ASSUME NEW s \in Socket, NEW path
    PROVE  /\ findPeerByPath(s, path) # NULL =>
                 findPeerByPath(s, path) \in Slots(s, path)
           /\ findPeerByPath(s, path) = NULL <=> Slots(s, path) = {}
<1>1. Slots(s, path) \subseteq Nat \ {0}
  BY DEF Slots, Socket
<1>2. CASE Slots(s, path) = {}
  BY <1>2 DEF Slots, findPeerByPath
<1>3. CASE Slots(s, path) # {}
  <2> DEFINE First(k) == k \in DOMAIN s /\ s[k] = path /\ \A j \in 1 .. k - 1 : s[j] # path
  <2>1. PICK m \in Slots(s, path) : \A n \in Slots(s, path) : m <= n
    BY <1>1, <1>3, LeastElement
  <2>2. First(m)
    BY <1>1, <2>1 DEF Slots, Socket
  <2>3. findPeerByPath(s, path) = CHOOSE k \in DOMAIN s :
            s[k] = path /\ \A j \in 1 .. k - 1 : s[j] # path
    BY <1>3 DEF Slots, findPeerByPath
  <2>4. findPeerByPath(s, path) \in Slots(s, path)
    BY <2>2, <2>3 DEF Slots
  <2> QED
    BY <1>1, <1>3, <2>4 DEF NULL
<1> QED
  BY <1>2, <1>3

\* A slot for path and nothing else is new, unless the table is full.
LEMMA CommUp ==
    ASSUME NEW s \in Socket, NEW path \in Path
    PROVE  LET t == handleCommUpUnix(s, path)
           IN  /\ t \in Socket
               /\ Full(s) => t = s
               /\ ~Full(s) => Slots(t, path) = Slots(s, path) \cup {Len(s) + 1}
               /\ \A q : q # path => Slots(t, q) = Slots(s, q)
               /\ Full(s) => Full(t)
<1>1. s \in Seq(Path \cup {NoPath}) /\ Len(s) <= peers_max_count
  BY DEF Socket
<1>2. CASE Full(s)
  BY <1>2 DEF handleCommUpUnix
<1>3. CASE ~Full(s)
  <2> DEFINE t == Append(s, path)
  <2>1. t = handleCommUpUnix(s, path)
    BY <1>3 DEF handleCommUpUnix
  <2>2. /\ t \in Seq(Path \cup {NoPath}) /\ Len(t) = Len(s) + 1
        /\ DOMAIN t = DOMAIN s \cup {Len(s) + 1}
        /\ Len(s) + 1 \notin DOMAIN s
        /\ t[Len(s) + 1] = path /\ \A k \in DOMAIN s : t[k] = s[k]
    BY <1>1
  <2>3. t \in Socket
    BY <1>1, <1>3, <2>2 DEF Full, Socket
  <2> HIDE DEF t
  <2>4. Slots(t, path) = Slots(s, path) \cup {Len(s) + 1}
    BY <2>2 DEF Slots
  <2>5. ASSUME NEW q, q # path PROVE Slots(t, q) = Slots(s, q)
    BY <2>2, <2>5 DEF Slots
  <2> QED
    BY <1>3, <2>1, <2>3, <2>4, <2>5
<1> QED
  BY <1>2, <1>3

\* What a message does to the slots of its sender, and that it leaves the others alone.
LEMMA HandleMessage ==
    ASSUME NEW s \in Socket, NEW from \in Path, NEW msg \in Message,
           ~QuitFromStranger(s, from, msg)
    PROVE  LET t == handleMessageUnix(s, from, msg)
           IN  /\ t \in Socket
               /\ Full(s) => Full(t)
               /\ \A q \in Path : q # from => Slots(t, q) = Slots(s, q)
               /\ Single(s, from) => Single(t, from)
               /\ msg # "q" => Slots(t, from) # {} \/ Full(t)
               /\ msg # "q" /\ Slots(s, from) # {} => Slots(t, from) = Slots(s, from)
               /\ msg = "q" => Slots(t, from) \subseteq Slots(s, from)
               /\ msg = "q" /\ Single(s, from) => Slots(t, from) = {}
<1> DEFINE k == findPeerByPath(s, from)
           t == handleMessageUnix(s, from, msg)
<1>1. /\ k # NULL => k \in Slots(s, from)
      /\ k = NULL <=> Slots(s, from) = {}
  BY FindPeer
<1> HIDE DEF k
<1>2. CASE msg = "q"
  <2>1. k \in Slots(s, from)
    BY <1>1, <1>2 DEF QuitFromStranger, k
  <2>2. t = [s EXCEPT ![k] = NoPath]
    BY <1>2 DEF handleMessageUnix, handleGracefulShutdownUnix, removePeer, k
  <2>3. s \in Seq(Path \cup {NoPath}) /\ Len(s) <= peers_max_count /\ k \in DOMAIN s
    BY <2>1 DEF Socket, Slots
  <2> HIDE DEF t
  <2>4. /\ t \in Seq(Path \cup {NoPath}) /\ Len(t) = Len(s) /\ DOMAIN t = DOMAIN s
        /\ t[k] = NoPath /\ \A j \in DOMAIN s \ {k} : t[j] = s[j]
    BY <2>2, <2>3
  <2>5. t \in Socket /\ (Full(s) => Full(t))
    BY <2>3, <2>4 DEF Socket, Full
  <2>6. ASSUME NEW q \in Path PROVE Slots(t, q) = Slots(s, q) \ {k}
    BY <2>4, <2>6 DEF Slots
  <2>7. \A q \in Path : q # from => Slots(t, q) = Slots(s, q)
    BY <2>1, <2>6 DEF Slots
  <2>8. Slots(t, from) = Slots(s, from) \ {k}
    BY <2>6
  <2> QED
    BY <1>2, <2>1, <2>5, <2>7, <2>8 DEF Single, t
<1>3. CASE msg # "q" /\ k = NULL
  <2>1. t = handleCommUpUnix(s, from)
    BY <1>3 DEF handleMessageUnix, k
  <2>2. Slots(s, from) = {}
    BY <1>1, <1>3
  <2> HIDE DEF t
  <2>3. /\ t \in Socket /\ (Full(s) => t = s) /\ (Full(s) => Full(t))
        /\ ~Full(s) => Slots(t, from) = Slots(s, from) \cup {Len(s) + 1}
        /\ \A q : q # from => Slots(t, q) = Slots(s, q)
    BY <2>1, CommUp
  <2>4. Single(t, from) /\ (Slots(t, from) # {} \/ Full(t))
    BY <2>2, <2>3 DEF Single
  <2> QED
    BY <1>3, <2>2, <2>3, <2>4 DEF t
<1>4. CASE msg # "q" /\ k # NULL
  <2>1. t = s
    BY <1>4 DEF handleMessageUnix, k
  <2>2. Slots(s, from) # {}
    BY <1>1, <1>4
  <2> QED
    BY <1>4, <2>1, <2>2
<1> QED
  BY <1>2, <1>3, <1>4

\* Whatever the arguments are, the parser is always in one of these states.
Parsers ==
    [i : Nat \ {0}, filling : {"locals", "remotes"},
     config : Configuration(STRING \cup Nat)]

LEMMA FillKeeps ==
    ASSUME NEW p \in Parsers
    PROVE  /\ \A v \in {"sctp", "tcp", "udp", "udp_lite", "dccp", "unix", "fork"} :
                 Fill(p, "protocol", v) \in Parsers
           /\ \A v \in Nat, field \in {"path_mtu", "max_seg", "big_msg_size"} :
                 Fill(p, field, v) \in Parsers
           /\ \A v \in IPSocket(STRING \cup Nat) :
                 Fill(p, p.filling, Append(p.config[p.filling], v)) \in Parsers
           /\ [p EXCEPT !.filling = "remotes"] \in Parsers
           /\ \A i \in Nat \ {0} : [p EXCEPT !.i = i] \in Parsers
<1> DEFINE A == STRING \cup Nat
           S == IPSocket(A)
           C == Configuration(A)
<1>1. p.i \in Nat \ {0} /\ p.filling \in {"locals", "remotes"} /\ p.config \in C
  BY DEF Parsers
<1>2. ASSUME NEW c \in C PROVE [p EXCEPT !.config = c] \in Parsers
  <2> HIDE DEF C
  <2> QED
    BY <1>2 DEF Parsers, C
<1>3. /\ [p EXCEPT !.filling = "remotes"] \in Parsers
      /\ \A i \in Nat \ {0} : [p EXCEPT !.i = i] \in Parsers
  BY DEF Parsers
<1> HIDE DEF S, A
<1>4. /\ \A v \in {"sctp", "tcp", "udp", "udp_lite", "dccp", "unix", "fork"} :
            [p.config EXCEPT !["protocol"] = v] \in C
      /\ \A v \in Nat, field \in {"path_mtu", "max_seg", "big_msg_size"} :
            [p.config EXCEPT ![field] = v] \in C
      /\ \A v \in Seq(S), field \in {"locals", "remotes"} : [p.config EXCEPT ![field] = v] \in C
  BY <1>1 DEF Configuration, S
<1>5. ASSUME NEW v \in S PROVE Append(p.config[p.filling], v) \in Seq(S)
  <2>1. p.config.locals \in Seq(S) /\ p.config.remotes \in Seq(S)
    BY <1>1 DEF Configuration, S
  <2> QED
    BY <1>1, <2>1
<1> HIDE DEF C
<1> QED
  BY <1>1, <1>2, <1>3, <1>4, <1>5 DEF Fill, S, A

LEMMA ParseArgKeeps ==
    ASSUME NEW args \in Seq(Token), NEW p \in Parsers, p.i < Len(args)
    PROVE  ParseArg(args, p) \in Parsers
<1> DEFINE arg == args[p.i]
           succ == args[p.i + 1]
<1>1. p.i \in Nat \ {0} /\ p.i + 1 \in Nat \ {0} /\ p.i + 2 \in Nat \ {0}
  BY DEF Parsers
<1>2. arg \in Token /\ succ \in Token
  BY <1>1
<1> HIDE DEF arg, succ
<1>3. /\ arg.is \in STRING \cup Nat /\ atoi(succ) \in Nat
      /\ getProtocol(succ) \in {"sctp", "tcp", "udp", "udp_lite", "dccp", "unix", "fork"}
  BY <1>2 DEF Token, atoi, getProtocol
<1>4. [addr |-> arg.is, port |-> atoi(succ)] \in IPSocket(STRING \cup Nat)
  BY <1>3 DEF IPSocket
<1> DEFINE filled ==
            CASE IsOption(arg, "-p") -> Fill(p, "protocol", getProtocol(succ))
              [] IsOption(arg, "-mtu") -> Fill(p, "path_mtu", atoi(succ))
              [] IsOption(arg, "-seg") -> Fill(p, "max_seg", atoi(succ))
              [] IsOption(arg, "-msg") -> Fill(p, "big_msg_size", atoi(succ))
              [] IsOption(arg, "-r") -> [p EXCEPT !.filling = "remotes"]
              [] arg.kind = "option" /\ arg.is \notin SettingOptions \cup {"-r"} -> p
              [] OTHER ->
                    Fill(p, p.filling, Append(p.config[p.filling],
                                              [addr |-> arg.is, port |-> atoi(succ)]))
           takesNext == arg.kind # "option" \/ arg.is \in SettingOptions
<1>5. filled \in Parsers
  <2>1. /\ Fill(p, "protocol", getProtocol(succ)) \in Parsers
        /\ Fill(p, "path_mtu", atoi(succ)) \in Parsers
        /\ Fill(p, "max_seg", atoi(succ)) \in Parsers
        /\ Fill(p, "big_msg_size", atoi(succ)) \in Parsers
        /\ [p EXCEPT !.filling = "remotes"] \in Parsers
        /\ Fill(p, p.filling, Append(p.config[p.filling],
                                     [addr |-> arg.is, port |-> atoi(succ)])) \in Parsers
    BY <1>3, <1>4, FillKeeps
  <2> QED
    BY <2>1
<1>6. ParseArg(args, p) = [filled EXCEPT !.i = IF takesNext THEN p.i + 2 ELSE p.i + 1]
  BY DEF ParseArg, arg, succ
<1> HIDE DEF filled, takesNext
<1> QED
  BY <1>1, <1>5, <1>6, FillKeeps

\* The parser's loop, an iteration at a time.
ParseStep(args, p) == IF p.i < Len(args) THEN ParseArg(args, p) ELSE p

LEMMA ParsedInSteps ==
    ASSUME NEW args \in Seq(Token)
    PROVE  \E f \in [0 .. Len(args) -> Parsers] :
              /\ f[0] = Parser
              /\ \A k \in 1 .. Len(args) : f[k] = ParseStep(args, f[k - 1])
              /\ createNetworkConfiguration(args) = f[Len(args)].config
<1> DEFINE N == Len(args)
           step == [k \in 1 .. N |-> [p \in Parsers |-> ParseStep(args, p)]]
           Iteration(f, k) == IF k = 0 THEN Parser ELSE ParseStep(args, f[k - 1])
           parsed == CHOOSE f : f = [k \in 0 .. N |-> Iteration(f, k)]
<1>1. N \in Nat /\ Parser \in Parsers
  <2>1. <<>> \in Seq(IPSocket(STRING \cup Nat))
    OBVIOUS
  <2>2. zeroedConfiguration \in Configuration(STRING \cup Nat)
    BY <2>1 DEF zeroedConfiguration, Configuration
  <2> QED
    BY <2>2 DEF Parser, Parsers
<1>2. ASSUME NEW p \in Parsers PROVE ParseStep(args, p) \in Parsers
  BY <1>2, ParseArgKeeps DEF ParseStep
<1>3. createNetworkConfiguration(args) = parsed[N].config
  BY DEF createNetworkConfiguration, ParseArgs, ParseStep
<1> HIDE DEF N
<1>4. PICK f \in [0 .. N -> Parsers] :
               f[0] = Parser /\ \A k \in 1 .. N : f[k] = step[k][f[k - 1]]
  <2>1. step \in [1 .. N -> [Parsers -> Parsers]]
    BY <1>2
  <2> HIDE DEF step
  <2>2. Iterations(N, Parsers, Parser, step) # {}
    BY <1>1, <2>1, Iterated
  <2> QED
    BY <2>2 DEF Iterations
<1>5. ASSUME NEW k \in 1 .. N PROVE f[k] = ParseStep(args, f[k - 1])
  <2>1. f[k - 1] \in Parsers
    BY <1>1
  <2>2. f[k] = step[k][f[k - 1]]
    BY <1>4
  <2> QED
    BY <2>1, <2>2
<1> HIDE DEF step
<1>6. f = [k \in 0 .. N |-> Iteration(f, k)]
  <2>1. ASSUME NEW k \in 0 .. N PROVE f[k] = Iteration(f, k)
    <3>1. CASE k = 0
      BY <1>4, <3>1
    <3>2. CASE k # 0
      <4>1. k \in 1 .. N
        BY <3>2
      <4> QED
        BY <1>5, <3>2, <4>1
    <3> QED
      BY <3>1, <3>2
  <2> HIDE DEF Iteration
  <2> QED
    BY <2>1
<1>7. parsed = [k \in 0 .. N |-> Iteration(parsed, k)]
  <2> HIDE DEF Iteration
  <2> QED
    BY <1>6
<1>8. ASSUME NEW k \in 0 .. N PROVE parsed[k] = Iteration(parsed, k)
  <2> HIDE DEF Iteration, parsed
  <2> QED
    BY <1>7
<1> HIDE DEF parsed
<1>9. \A k \in 0 .. N : k \in {j \in 0 .. N : parsed[j] = f[j]}
  <2> DEFINE G == {j \in 0 .. N : parsed[j] = f[j]}
  <2>1. 0 \in G
    BY <1>1, <1>4, <1>8
  <2>2. ASSUME NEW k \in 1 .. N, k - 1 \in G PROVE k \in G
    <3>1. k \in 0 .. N /\ k # 0
      OBVIOUS
    <3>2. parsed[k] = ParseStep(args, parsed[k - 1])
      BY <1>8, <3>1
    <3>3. parsed[k - 1] = f[k - 1]
      BY <2>2
    <3> QED
      BY <1>5, <3>1, <3>2, <3>3
  <2> HIDE DEF G
  <2>3. \A k \in 0 .. N : k \in G
    BY <1>1, <2>1, <2>2, Induction
  <2> QED
    BY <2>3 DEF G
<1>10. createNetworkConfiguration(args) = f[N].config
  BY <1>1, <1>3, <1>9
<1> QED
  BY <1>4, <1>5, <1>10 DEF N

LEMMA Parsed ==
    ASSUME NEW args \in Seq(Token)
    PROVE  createNetworkConfiguration(args) \in Configuration(STRING \cup Nat)
<1>1. PICK f \in [0 .. Len(args) -> Parsers] :
               createNetworkConfiguration(args) = f[Len(args)].config
  BY ParsedInSteps
<1>2. Len(args) \in 0 .. Len(args)
  OBVIOUS
<1>3. f[Len(args)] \in Parsers
  BY <1>2
<1> QED
  BY <1>1, <1>3 DEF Parsers

------------------------------------------------------------------------------

\* FlattenSeq, a sequence at a time.
LEMMA FlattenedInSteps ==
    ASSUME NEW T, NEW seqs \in Seq(Seq(T))
    PROVE  \E f \in [0 .. Len(seqs) -> Seq(T)] :
              /\ f[0] = <<>> /\ f[Len(seqs)] = FlattenSeq(seqs)
              /\ \A k \in 1 .. Len(seqs) : f[k] = f[k - 1] \o seqs[k]
<1> DEFINE N == Len(seqs)
           step == [k \in 1 .. N |-> [x \in Seq(T) |-> x \o seqs[k]]]
           Iteration(f, k) == IF k = 1 THEN seqs[k] ELSE f[k - 1] \o seqs[k]
           flatten == CHOOSE f : f = [k \in 1 .. N |-> Iteration(f, k)]
<1>1. N \in Nat /\ <<>> \in Seq(T) /\ \A k \in 1 .. N : seqs[k] \in Seq(T)
  OBVIOUS
<1>2. FlattenSeq(seqs) = IF N = 0 THEN seqs ELSE flatten[N]
  BY DEF FlattenSeq
<1>3. N = 0 => seqs = <<>>
  OBVIOUS
<1> HIDE DEF N
<1>4. PICK f \in [0 .. N -> Seq(T)] :
               f[0] = <<>> /\ \A k \in 1 .. N : f[k] = step[k][f[k - 1]]
  <2>1. step \in [1 .. N -> [Seq(T) -> Seq(T)]]
    BY <1>1
  <2> HIDE DEF step
  <2>2. Iterations(N, Seq(T), <<>>, step) # {}
    BY <1>1, <2>1, Iterated
  <2> QED
    BY <2>2 DEF Iterations
<1>5. ASSUME NEW k \in 1 .. N PROVE f[k - 1] \in Seq(T) /\ f[k] = f[k - 1] \o seqs[k]
  <2>1. f[k - 1] \in Seq(T)
    BY <1>1
  <2>2. f[k] = step[k][f[k - 1]]
    BY <1>4
  <2> QED
    BY <2>1, <2>2
<1> HIDE DEF step
<1>6. ASSUME NEW k \in 1 .. N PROVE f[k] = Iteration(f, k)
  <2>1. CASE k = 1
    <3>1. f[k - 1] = <<>>
      BY <1>4, <2>1
    <3>2. f[k] = <<>> \o seqs[k] /\ seqs[k] \in Seq(T)
      BY <1>1, <1>5, <3>1
    <3>3. f[k] = seqs[k]
      BY <3>2
    <3> QED
      BY <2>1, <3>3
  <2>2. CASE k # 1
    BY <1>5, <2>2
  <2> QED
    BY <2>1, <2>2
<1>7. \E g : g = [k \in 1 .. N |-> Iteration(g, k)]
  <2> DEFINE g == [k \in 1 .. N |-> f[k]]
  <2>1. ASSUME NEW k \in 1 .. N PROVE Iteration(g, k) = Iteration(f, k)
    <3>1. k # 1 => k - 1 \in 1 .. N /\ g[k - 1] = f[k - 1]
      BY <1>1
    <3> HIDE DEF g
    <3> QED
      BY <3>1
  <2>2. g = [k \in 1 .. N |-> Iteration(g, k)]
    <3> HIDE DEF Iteration
    <3> QED
      BY <1>6, <2>1
  <2> HIDE DEF Iteration, g
  <2> QED
    BY <2>2
<1>8. ASSUME NEW k \in 1 .. N PROVE flatten[k] = Iteration(flatten, k)
  <2>1. flatten = [j \in 1 .. N |-> Iteration(flatten, j)]
    <3> HIDE DEF Iteration
    <3> QED
      BY <1>7
  <2> HIDE DEF Iteration, flatten
  <2> QED
    BY <2>1
<1> HIDE DEF flatten
<1>9. \A k \in 0 .. N : k \in {j \in 0 .. N : j = 0 \/ flatten[j] = f[j]}
  <2> DEFINE G == {j \in 0 .. N : j = 0 \/ flatten[j] = f[j]}
  <2>1. 0 \in G
    BY <1>1
  <2>2. ASSUME NEW k \in 1 .. N, k - 1 \in G PROVE k \in G
    <3>1. k = 1 \/ flatten[k - 1] = f[k - 1]
      BY <2>2
    <3>2. Iteration(flatten, k) = Iteration(f, k)
      BY <3>1
    <3> HIDE DEF Iteration
    <3>3. flatten[k] = f[k]
      BY <1>6, <1>8, <3>2
    <3> QED
      BY <3>3
  <2> HIDE DEF G
  <2>3. \A k \in 0 .. N : k \in G
    BY <1>1, <2>1, <2>2, Induction
  <2> QED
    BY <2>3 DEF G
<1>10. f[N] = FlattenSeq(seqs)
  <2>1. CASE N = 0
    BY <1>2, <1>3, <1>4, <2>1
  <2>2. CASE N # 0
    <3>1. N \in 0 .. N
      BY <1>1
    <3> QED
      BY <1>2, <1>9, <2>2, <3>1
  <2> QED
    BY <2>1, <2>2
<1> QED
  BY <1>4, <1>5, <1>10 DEF N

\* Where in the flattened sequence each of the sequences begins.
LEMMA Flattened ==
    ASSUME NEW T, NEW seqs \in Seq(Seq(T))
    PROVE  LET flat == FlattenSeq(seqs)
           IN  /\ flat \in Seq(T)
               /\ \E start \in [0 .. Len(seqs) -> Nat] :
                     /\ start[0] = 0 /\ start[Len(seqs)] = Len(flat)
                     /\ \A k \in 1 .. Len(seqs) :
                           /\ start[k] = start[k - 1] + Len(seqs[k])
                           /\ \A i \in 1 .. Len(seqs[k]) :
                                 flat[start[k - 1] + i] = seqs[k][i]
<1> DEFINE N == Len(seqs)
           flat == FlattenSeq(seqs)
<1>1. N \in Nat /\ \A k \in 1 .. N : seqs[k] \in Seq(T)
  OBVIOUS
<1>2. PICK f \in [0 .. N -> Seq(T)] :
               /\ f[0] = <<>> /\ f[N] = flat
               /\ \A k \in 1 .. N : f[k] = f[k - 1] \o seqs[k]
  BY FlattenedInSteps
<1> HIDE DEF N, flat
<1> DEFINE start == [k \in 0 .. N |-> Len(f[k])]
<1>3. flat \in Seq(T) /\ start \in [0 .. N -> Nat] /\ start[0] = 0 /\ start[N] = Len(flat)
  <2>1. 0 \in 0 .. N /\ N \in 0 .. N /\ Len(<<>>) = 0
    BY <1>1
  <2> QED
    BY <1>2, <2>1
<1>4. ASSUME NEW k \in 1 .. N
      PROVE  /\ k - 1 \in 0 .. N /\ k \in 0 .. N
             /\ f[k - 1] \in Seq(T) /\ f[k] \in Seq(T) /\ seqs[k] \in Seq(T)
             /\ Len(f[k]) = Len(f[k - 1]) + Len(seqs[k])
             /\ \A i \in 1 .. Len(f[k - 1]) : f[k][i] = f[k - 1][i]
             /\ \A i \in 1 .. Len(seqs[k]) : f[k][Len(f[k - 1]) + i] = seqs[k][i]
  <2>1. k - 1 \in 0 .. N /\ k \in 0 .. N /\ seqs[k] \in Seq(T)
    BY <1>1
  <2>2. f[k - 1] \in Seq(T) /\ f[k] \in Seq(T) /\ f[k] = f[k - 1] \o seqs[k]
    BY <1>2, <2>1
  <2> DEFINE x == f[k - 1]
             y == seqs[k]
  <2>3. x \in Seq(T) /\ y \in Seq(T) /\ f[k] = x \o y
    BY <2>1, <2>2
  <2> HIDE DEF x, y
  <2>4. /\ Len(x \o y) = Len(x) + Len(y)
        /\ \A i \in 1 .. Len(x) : (x \o y)[i] = x[i]
        /\ \A i \in 1 .. Len(y) : (x \o y)[Len(x) + i] = y[i]
    BY <2>3
  <2> QED
    BY <2>1, <2>2, <2>3, <2>4 DEF x, y
<1>5. ASSUME NEW j \in 0 .. N, NEW i \in 1 .. Len(f[j]) PROVE flat[i] = f[j][i]
  <2> DEFINE G == {k \in 0 .. N : k >= j => i \in 1 .. Len(f[k]) /\ f[k][i] = f[j][i]}
  <2>1. 0 \in G
    <3>1. j \in Nat /\ 0 \in 0 .. N
      BY <1>1
    <3>2. 0 >= j => j = 0
      BY <3>1
    <3> QED
      BY <3>1, <3>2
  <2>2. ASSUME NEW k \in 1 .. N, k - 1 \in G PROVE k \in G
    <3>1. k = j \/ k < j \/ k - 1 >= j
      BY <1>1
    <3>2. CASE k - 1 >= j
      <4>1. i \in 1 .. Len(f[k - 1]) /\ f[k - 1][i] = f[j][i]
        BY <2>2, <3>2
      <4>2. Len(f[k - 1]) \in Nat /\ Len(seqs[k]) \in Nat
        BY <1>4
      <4>3. i \in 1 .. Len(f[k])
        <5> DEFINE x == Len(f[k - 1])
                   y == Len(seqs[k])
        <5>1. Len(f[k]) = x + y /\ x \in Nat /\ y \in Nat /\ i \in 1 .. x
          BY <1>4, <4>1, <4>2
        <5> HIDE DEF x, y
        <5>2. i \in 1 .. x + y
          BY <5>1
        <5> QED
          BY <5>1, <5>2
      <4> QED
        BY <1>4, <4>1, <4>3
    <3>3. CASE k = j
      BY <3>3
    <3>4. CASE k < j
      <4>1. ~(k >= j)
        BY <1>1, <3>4
      <4> QED
        BY <1>4, <4>1
    <3> QED
      BY <3>1, <3>2, <3>3, <3>4
  <2> HIDE DEF G
  <2>3. \A k \in 0 .. N : k \in G
    BY <1>1, <2>1, <2>2, Induction
  <2>4. N \in G /\ N >= j
    BY <1>1, <2>3
  <2> QED
    BY <1>2, <2>4 DEF G
<1>6. ASSUME NEW k \in 1 .. N
      PROVE  /\ start[k] = start[k - 1] + Len(seqs[k])
             /\ \A i \in 1 .. Len(seqs[k]) : flat[start[k - 1] + i] = seqs[k][i]
  <2>1. start[k] = Len(f[k]) /\ start[k - 1] = Len(f[k - 1])
    BY <1>4
  <2>2. ASSUME NEW i \in 1 .. Len(seqs[k]) PROVE flat[Len(f[k - 1]) + i] = seqs[k][i]
    <3>1. Len(f[k - 1]) \in Nat /\ Len(seqs[k]) \in Nat
      BY <1>4
    <3>2. Len(f[k - 1]) + i \in 1 .. Len(f[k])
      <4> DEFINE x == Len(f[k - 1])
                 y == Len(seqs[k])
      <4>1. Len(f[k]) = x + y /\ x \in Nat /\ y \in Nat /\ i \in 1 .. y
        BY <1>4, <3>1
      <4> HIDE DEF x, y
      <4>2. x + i \in 1 .. x + y
        BY <4>1
      <4> QED
        BY <4>1, <4>2 DEF x
    <3>3. flat[Len(f[k - 1]) + i] = f[k][Len(f[k - 1]) + i]
      BY <1>4, <1>5, <3>2
    <3> QED
      BY <1>4, <3>3
  <2> HIDE DEF start
  <2> QED
    BY <1>4, <2>1, <2>2
<1> HIDE DEF start
<1> QED
  BY <1>3, <1>6 DEF N, flat

------------------------------------------------------------------------------

\* The items of a command line, by their first tokens.
IsSetting(x) ==
    /\ x.item = "setting" /\ Len(x.tokens) = 2
    /\ x.tokens[1].kind = "option" /\ x.tokens[1].is \in SettingOptions
IsSocket(x) == x.item = "socket" /\ Len(x.tokens) = 2 /\ x.tokens[1].kind # "option"
IsMark(x) == x.item = "remotes" /\ Len(x.tokens) = 1 /\ IsOption(x.tokens[1], "-r")
IsUnknown(x) ==
    /\ x.item = "unknown" /\ Len(x.tokens) = 1
    /\ x.tokens[1].kind = "option" /\ x.tokens[1].is \notin SettingOptions \cup {"-r"}
IsIncomplete(x) == x.item = "incomplete" /\ Len(x.tokens) = 1

SocketOf(x) == [addr |-> x.tokens[1].is, port |-> atoi(x.tokens[2])]

\* There are no other items.
LEMMA ItemKinds ==
    ASSUME NEW x \in CompleteItem \cup IncompleteItem
    PROVE  /\ x.tokens \in Seq(Token)
           /\ x \in CompleteItem => IsSetting(x) \/ IsSocket(x) \/ IsMark(x) \/ IsUnknown(x)
           /\ x \in IncompleteItem => IsIncomplete(x)
<1>1. ASSUME NEW S, S \subseteq Token, NEW t \in S \X Token
      PROVE  t \in Seq(Token) /\ Len(t) = 2 /\ t[1] \in S
  <2>1. PICK a \in S, b \in Token : t = <<a, b>>
    OBVIOUS
  <2>2. a \in Token
    BY <1>1
  <2> QED
    BY <2>1, <2>2
<1>2. ASSUME NEW S, S \subseteq Token, NEW t \in [1 .. 1 -> S]
      PROVE  t \in Seq(Token) /\ Len(t) = 1 /\ t[1] \in S
  <2>1. t \in [1 .. 1 -> Token] /\ t[1] \in S /\ DOMAIN t = 1 .. 1
    BY <1>2
  <2>2. t \in Seq(Token)
    BY <2>1, SeqDef
  <2>3. Len(t) \in Nat /\ 1 .. Len(t) = 1 .. 1
    BY <2>1, <2>2
  <2>4. Len(t) = 1
    <3>1. 1 \in 1 .. Len(t) /\ Len(t) + 1 \notin 1 .. Len(t)
      BY <2>3
    <3>2. \A l \in Nat : 1 .. l = 1 .. 1 => l = 1
      <4>1. ASSUME NEW l \in Nat, 1 .. l = 1 .. 1 PROVE l = 1
        <5>1. 1 \in 1 .. l /\ (l > 1 => l \in 1 .. l)
          BY <4>1
        <5> QED
          BY <4>1, <5>1
      <4> QED
        BY <4>1
    <3> QED
      BY <2>3, <3>2
  <2> QED
    BY <2>1, <2>2, <2>4
<1>3. /\ SettingToken \subseteq Token /\ AddressToken \subseteq Token
      /\ MarkToken \subseteq Token /\ UnknownToken \subseteq Token
  BY DEF SettingToken, AddressToken, MarkToken, UnknownToken
<1>4. x \in SettingItem => IsSetting(x) /\ x.tokens \in Seq(Token) /\ ~IsIncomplete(x)
  BY <1>1, <1>3 DEF SettingItem, SettingToken, IsSetting, IsIncomplete
<1>5. x \in SocketItem => IsSocket(x) /\ x.tokens \in Seq(Token) /\ ~IsIncomplete(x)
  BY <1>1, <1>3 DEF SocketItem, AddressToken, IsSocket, IsIncomplete
<1>6. x \in MarkItem => IsMark(x) /\ x.tokens \in Seq(Token) /\ ~IsIncomplete(x)
  BY <1>2, <1>3 DEF MarkItem, MarkToken, IsMark, IsIncomplete
<1>7. x \in UnknownItem => IsUnknown(x) /\ x.tokens \in Seq(Token) /\ ~IsIncomplete(x)
  <2> SUFFICES ASSUME x \in UnknownItem
               PROVE  IsUnknown(x) /\ x.tokens \in Seq(Token) /\ ~IsIncomplete(x)
    OBVIOUS
  <2>1. x.item = "unknown" /\ x.tokens \in [1 .. 1 -> UnknownToken]
    BY DEF UnknownItem
  <2>2. x.tokens \in Seq(Token) /\ Len(x.tokens) = 1 /\ x.tokens[1] \in UnknownToken
    BY <1>2, <1>3, <2>1
  <2>3. ASSUME NEW t \in UnknownToken
        PROVE  t.kind = "option" /\ t.is \notin SettingOptions \cup {"-r"}
    BY DEF UnknownToken, SettingToken, MarkToken, AddressToken, IsOption
  <2> QED
    BY <2>1, <2>2, <2>3 DEF IsUnknown, IsIncomplete
<1>8. x \in IncompleteItem => IsIncomplete(x) /\ x.tokens \in Seq(Token)
  BY <1>2 DEF IncompleteItem, IsIncomplete
<1> QED
  BY <1>4, <1>5, <1>6, <1>7, <1>8 DEF CompleteItem

\* What an iteration makes of p when it reads the item x.
ReadAs(q, p, x) ==
    LET o == x.tokens[1].is
        v == x.tokens[2]
    IN  /\ IsSetting(x) /\ o = "-p" =>
             q = [p EXCEPT !.i = p.i + 2,
                           !.config = [p.config EXCEPT !.protocol = getProtocol(v)]]
        /\ IsSetting(x) /\ o = "-mtu" =>
             q = [p EXCEPT !.i = p.i + 2,
                           !.config = [p.config EXCEPT !.path_mtu = atoi(v)]]
        /\ IsSetting(x) /\ o = "-seg" =>
             q = [p EXCEPT !.i = p.i + 2,
                           !.config = [p.config EXCEPT !.max_seg = atoi(v)]]
        /\ IsSetting(x) /\ o = "-msg" =>
             q = [p EXCEPT !.i = p.i + 2,
                           !.config = [p.config EXCEPT !.big_msg_size = atoi(v)]]
        /\ IsSocket(x) =>
             q = [p EXCEPT !.i = p.i + 2,
                  !.config = [p.config EXCEPT ![p.filling] = Append(@, SocketOf(x))]]
        /\ IsMark(x) => q = [p EXCEPT !.i = p.i + 1, !.filling = "remotes"]
        /\ IsUnknown(x) => q = [p EXCEPT !.i = p.i + 1]

LEMMA ParseItem ==
    ASSUME NEW args, NEW p \in Parsers, NEW x, args[p.i] = x.tokens[1],
           IsSetting(x) \/ IsSocket(x) => args[p.i + 1] = x.tokens[2]
    PROVE  ReadAs(ParseArg(args, p), p, x)
<1> DEFINE arg == args[p.i]
           succ == args[p.i + 1]
           filled ==
            CASE IsOption(arg, "-p") -> Fill(p, "protocol", getProtocol(succ))
              [] IsOption(arg, "-mtu") -> Fill(p, "path_mtu", atoi(succ))
              [] IsOption(arg, "-seg") -> Fill(p, "max_seg", atoi(succ))
              [] IsOption(arg, "-msg") -> Fill(p, "big_msg_size", atoi(succ))
              [] IsOption(arg, "-r") -> [p EXCEPT !.filling = "remotes"]
              [] arg.kind = "option" /\ arg.is \notin SettingOptions \cup {"-r"} -> p
              [] OTHER ->
                    Fill(p, p.filling, Append(p.config[p.filling],
                                              [addr |-> arg.is, port |-> atoi(succ)]))
           takesNext == arg.kind # "option" \/ arg.is \in SettingOptions
           o == x.tokens[1].is
           v == x.tokens[2]
           sock == SocketOf(x)
<1>1. ParseArg(args, p) = [filled EXCEPT !.i = IF takesNext THEN p.i + 2 ELSE p.i + 1]
  BY DEF ParseArg
<1>2. arg = x.tokens[1]
  OBVIOUS
<1>3. IsSetting(x) \/ IsSocket(x) => succ = v
  OBVIOUS
<1>4. \A field, w : Fill(p, field, w) = [p EXCEPT !.config = [p.config EXCEPT ![field] = w]]
  BY DEF Fill
<1>5. p = [i |-> p.i, filling |-> p.filling, config |-> p.config]
  BY DEF Parsers
<1> HIDE DEF arg, succ
<1>6. ASSUME IsSetting(x)
      PROVE  /\ takesNext /\ o \in {"-p", "-mtu", "-seg", "-msg"}
             /\ o = "-p" => filled = Fill(p, "protocol", getProtocol(v))
             /\ o = "-mtu" => filled = Fill(p, "path_mtu", atoi(v))
             /\ o = "-seg" => filled = Fill(p, "max_seg", atoi(v))
             /\ o = "-msg" => filled = Fill(p, "big_msg_size", atoi(v))
  <2>1. arg.kind = "option" /\ arg.is = o /\ o \in {"-p", "-mtu", "-seg", "-msg"}
    BY <1>2, <1>6 DEF IsSetting, SettingOptions
  <2>2. succ = v
    BY <1>3, <1>6
  <2> HIDE DEF v, o
  <2> QED
    BY <2>1, <2>2 DEF IsOption, SettingOptions
<1>7. ASSUME IsSocket(x)
      PROVE  takesNext /\ filled = Fill(p, p.filling, Append(p.config[p.filling], sock))
  <2>1. arg.kind # "option" /\ succ = v /\ sock = [addr |-> arg.is, port |-> atoi(succ)]
    BY <1>2, <1>3, <1>7 DEF IsSocket, SocketOf
  <2> HIDE DEF v, o, sock
  <2> QED
    BY <2>1 DEF IsOption
<1>8. ASSUME IsMark(x) PROVE ~takesNext /\ filled = [p EXCEPT !.filling = "remotes"]
  <2>1. arg.kind = "option" /\ arg.is = "-r"
    BY <1>2, <1>8 DEF IsMark, IsOption
  <2> QED
    BY <2>1 DEF IsOption, SettingOptions
<1>9. ASSUME IsUnknown(x) PROVE ~takesNext /\ filled = p
  <2>1. /\ arg.kind = "option" /\ arg.is # "-p" /\ arg.is # "-mtu" /\ arg.is # "-seg"
        /\ arg.is # "-msg" /\ arg.is # "-r"
    BY <1>2, <1>9 DEF IsUnknown, SettingOptions
  <2> QED
    BY <2>1 DEF IsOption, SettingOptions
<1> HIDE DEF filled, takesNext, o, v
<1>10. IsSetting(x) => ParseArg(args, p) = [filled EXCEPT !.i = p.i + 2]
  BY <1>1, <1>6
<1>18. \A n, c : [[p EXCEPT !.config = c] EXCEPT !.i = n] = [p EXCEPT !.i = n, !.config = c]
  BY <1>5
<1>11. IsSetting(x) /\ o = "-p" =>
          ParseArg(args, p) = [p EXCEPT !.i = p.i + 2,
                                        !.config = [p.config EXCEPT !.protocol = getProtocol(v)]]
  <2> DEFINE c == [p.config EXCEPT !.protocol = getProtocol(v)]
  <2>1. Fill(p, "protocol", getProtocol(v)) = [p EXCEPT !.config = c]
    BY DEF Fill
  <2> HIDE DEF c
  <2>2. IsSetting(x) /\ o = "-p" => filled = [p EXCEPT !.config = c]
    BY <1>6, <2>1
  <2>3. [[p EXCEPT !.config = c] EXCEPT !.i = p.i + 2] = [p EXCEPT !.i = p.i + 2, !.config = c]
    BY <1>18
  <2>4. IsSetting(x) /\ o = "-p" => ParseArg(args, p) = [p EXCEPT !.i = p.i + 2, !.config = c]
    BY <1>10, <2>2, <2>3
  <2> QED
    BY <2>4 DEF c
<1>12. IsSetting(x) /\ o = "-mtu" =>
          ParseArg(args, p) = [p EXCEPT !.i = p.i + 2,
                                        !.config = [p.config EXCEPT !.path_mtu = atoi(v)]]
  <2> DEFINE c == [p.config EXCEPT !.path_mtu = atoi(v)]
  <2>1. Fill(p, "path_mtu", atoi(v)) = [p EXCEPT !.config = c]
    BY DEF Fill
  <2> HIDE DEF c
  <2>2. IsSetting(x) /\ o = "-mtu" => filled = [p EXCEPT !.config = c]
    BY <1>6, <2>1
  <2>3. [[p EXCEPT !.config = c] EXCEPT !.i = p.i + 2] = [p EXCEPT !.i = p.i + 2, !.config = c]
    BY <1>18
  <2>4. IsSetting(x) /\ o = "-mtu" => ParseArg(args, p) = [p EXCEPT !.i = p.i + 2, !.config = c]
    BY <1>10, <2>2, <2>3
  <2> QED
    BY <2>4 DEF c
<1>13. IsSetting(x) /\ o = "-seg" =>
          ParseArg(args, p) = [p EXCEPT !.i = p.i + 2,
                                        !.config = [p.config EXCEPT !.max_seg = atoi(v)]]
  <2> DEFINE c == [p.config EXCEPT !.max_seg = atoi(v)]
  <2>1. Fill(p, "max_seg", atoi(v)) = [p EXCEPT !.config = c]
    BY DEF Fill
  <2> HIDE DEF c
  <2>2. IsSetting(x) /\ o = "-seg" => filled = [p EXCEPT !.config = c]
    BY <1>6, <2>1
  <2>3. [[p EXCEPT !.config = c] EXCEPT !.i = p.i + 2] = [p EXCEPT !.i = p.i + 2, !.config = c]
    BY <1>18
  <2>4. IsSetting(x) /\ o = "-seg" => ParseArg(args, p) = [p EXCEPT !.i = p.i + 2, !.config = c]
    BY <1>10, <2>2, <2>3
  <2> QED
    BY <2>4 DEF c
<1>14. IsSetting(x) /\ o = "-msg" =>
          ParseArg(args, p) = [p EXCEPT !.i = p.i + 2,
                                        !.config = [p.config EXCEPT !.big_msg_size = atoi(v)]]
  <2> DEFINE c == [p.config EXCEPT !.big_msg_size = atoi(v)]
  <2>1. Fill(p, "big_msg_size", atoi(v)) = [p EXCEPT !.config = c]
    BY DEF Fill
  <2> HIDE DEF c
  <2>2. IsSetting(x) /\ o = "-msg" => filled = [p EXCEPT !.config = c]
    BY <1>6, <2>1
  <2>3. [[p EXCEPT !.config = c] EXCEPT !.i = p.i + 2] = [p EXCEPT !.i = p.i + 2, !.config = c]
    BY <1>18
  <2>4. IsSetting(x) /\ o = "-msg" => ParseArg(args, p) = [p EXCEPT !.i = p.i + 2, !.config = c]
    BY <1>10, <2>2, <2>3
  <2> QED
    BY <2>4 DEF c
<1>15. ASSUME IsSocket(x)
       PROVE  ParseArg(args, p) =
                 [p EXCEPT !.i = p.i + 2,
                  !.config = [p.config EXCEPT ![p.filling] = Append(@, sock)]]
  <2> HIDE DEF sock
  <2>1. ParseArg(args, p) = [filled EXCEPT !.i = p.i + 2]
    BY <1>1, <1>7, <1>15
  <2>2. filled = [p EXCEPT !.config =
                     [p.config EXCEPT ![p.filling] = Append(p.config[p.filling], sock)]]
    BY <1>4, <1>7, <1>15
  <2> QED
    BY <1>5, <2>1, <2>2
<1>16. IsMark(x) => ParseArg(args, p) = [p EXCEPT !.i = p.i + 1, !.filling = "remotes"]
  BY <1>1, <1>5, <1>8
<1>17. IsUnknown(x) => ParseArg(args, p) = [p EXCEPT !.i = p.i + 1]
  BY <1>1, <1>9
<1> QED
  BY <1>11, <1>12, <1>13, <1>14, <1>15, <1>16, <1>17 DEF o, v, ReadAs

\* A position behind all others is the next and the greatest.
LEMMA NthOfMore ==
    ASSUME NEW m \in Nat, NEW S \in SUBSET (1 .. m)
    PROVE  LET T == S \cup {m + 1}
               c == Cardinality(S)
           IN  /\ c \in Nat /\ Cardinality(T) = c + 1
               /\ \A n \in 1 .. c : Nth(T, n) = Nth(S, n)
               /\ Nth(T, c + 1) = m + 1
<1> DEFINE T == S \cup {m + 1}
           c == Cardinality(S)
           InFront(ks, k) == {j \in ks : j < k}
           At(ks, n) == {k \in ks : Cardinality(InFront(ks, k)) = n - 1}
<1>1. IsFiniteSet(S) /\ c \in Nat
  <2>1. IsFiniteSet(1 .. m)
    BY FS_Interval
  <2> QED
    BY <2>1, FS_Subset, FS_CardinalityType
<1>2. m + 1 \notin S /\ Cardinality(T) = c + 1
  <2>1. m + 1 \notin S
    OBVIOUS
  <2> QED
    BY <1>1, <2>1, FS_AddElement
<1>3. InFront(T, m + 1) = S
  <2>1. \A j \in S : j \in T /\ j < m + 1
    OBVIOUS
  <2>2. \A j \in T : j < m + 1 => j \in S
    OBVIOUS
  <2> HIDE DEF T
  <2> QED
    BY <2>1, <2>2
<1>4. ASSUME NEW k \in S
      PROVE  InFront(T, k) = InFront(S, k) /\ Cardinality(InFront(S, k)) \in 0 .. c - 1
  <2>1. InFront(T, k) = InFront(S, k)
    OBVIOUS
  <2>2. InFront(S, k) \subseteq S /\ k \notin InFront(S, k)
    OBVIOUS
  <2> HIDE DEF InFront
  <2>3. /\ IsFiniteSet(InFront(S, k))
        /\ Cardinality(InFront(S, k)) <= c /\ Cardinality(InFront(S, k)) # c
    BY <1>1, <2>2, FS_Subset
  <2>4. Cardinality(InFront(S, k)) \in Nat
    BY <2>3, FS_CardinalityType
  <2> QED
    BY <1>1, <2>1, <2>3, <2>4
<1> HIDE DEF InFront, T, c
<1>5. ASSUME NEW n \in 1 .. c PROVE At(T, n) = At(S, n)
  <2>1. Cardinality(InFront(T, m + 1)) # n - 1
    BY <1>1, <1>3 DEF c
  <2>2. \A k \in S : InFront(T, k) = InFront(S, k)
    BY <1>4
  <2>3. At(T, n) \subseteq T /\ At(S, n) \subseteq S /\ S \subseteq T /\ m + 1 \notin At(T, n)
    BY <2>1 DEF T
  <2>4. \A k \in S : k \in At(T, n) <=> k \in At(S, n)
    BY <2>2, <2>3
  <2> HIDE DEF At
  <2> QED
    BY <2>3, <2>4 DEF T
<1>6. At(T, c + 1) = {m + 1}
  <2>1. ASSUME NEW k \in S PROVE Cardinality(InFront(T, k)) # c
    BY <1>1, <1>4
  <2>2. Cardinality(InFront(T, m + 1)) = c
    BY <1>3 DEF c
  <2>3. At(T, c + 1) \subseteq T /\ \A k \in S : k \notin At(T, c + 1)
    BY <1>1, <2>1
  <2>4. m + 1 \in At(T, c + 1)
    BY <1>1, <2>2 DEF T
  <2> HIDE DEF At
  <2> QED
    BY <2>3, <2>4 DEF T
<1>7. \A ks, n : Nth(ks, n) = CHOOSE k \in At(ks, n) : TRUE
  BY DEF Nth, InFront
<1> HIDE DEF At
<1>8. \A n \in 1 .. c : Nth(T, n) = Nth(S, n)
  BY <1>5, <1>7
<1>9. Nth(T, c + 1) = m + 1
  BY <1>6, <1>7
<1> QED
  BY <1>1, <1>2, <1>8, <1>9 DEF T, c

LEMMA MaxOfMore ==
    ASSUME NEW m \in Nat, NEW S \in SUBSET (1 .. m)
    PROVE  Max(S \cup {m + 1}) = m + 1
<1>1. m + 1 \in S \cup {m + 1} /\ \A y \in S \cup {m + 1} : m + 1 >= y
  OBVIOUS
<1>2. \A x \in S \cup {m + 1} : (\A y \in S \cup {m + 1} : x >= y) => x = m + 1
  OBVIOUS
<1> QED
  BY <1>1, <1>2 DEF Max

------------------------------------------------------------------------------

\* What a command line means up to its item k.
MarkedBefore(items, k) == \E j \in 1 .. k - 1 : items[j].item = "remotes"
SettingsUpTo(items, o, k) ==
    {j \in 1 .. k : items[j].item = "setting" /\ IsOption(items[j].tokens[1], o)}
LocalsUpTo(items, k) ==
    {j \in 1 .. k : items[j].item = "socket" /\ ~MarkedBefore(items, j)}
RemotesUpTo(items, k) ==
    {j \in 1 .. k : items[j].item = "socket" /\ MarkedBefore(items, j)}

Latest(items, ks) == items[Max(ks)].tokens[2]
ProtocolOf(items, ks) == IF ks = {} THEN "sctp" ELSE getProtocol(Latest(items, ks))
NumberOf(items, ks) == IF ks = {} THEN 0 ELSE atoi(Latest(items, ks))
Listed(items, ks) == [n \in 1 .. Cardinality(ks) |-> SocketOf(items[Nth(ks, n)])]

MeaningUpTo(items, k) ==
    [protocol |-> ProtocolOf(items, SettingsUpTo(items, "-p", k)),
     path_mtu |-> NumberOf(items, SettingsUpTo(items, "-mtu", k)),
     max_seg |-> NumberOf(items, SettingsUpTo(items, "-seg", k)),
     big_msg_size |-> NumberOf(items, SettingsUpTo(items, "-msg", k)),
     locals |-> Listed(items, LocalsUpTo(items, k)),
     remotes |-> Listed(items, RemotesUpTo(items, k))]

\* The meaning up to the last item is that of the command line.
LEMMA MeaningOfAll ==
    ASSUME NEW T, NEW items \in Seq(T)
    PROVE  Meaning(items) = MeaningUpTo(items, Len(items))
<1>1. DOMAIN items = 1 .. Len(items)
  OBVIOUS
<1> DEFINE Marked(k) == \E j \in 1 .. k - 1 : items[j].item = "remotes"
           Unmarked(k) == ~Marked(k)
           N == Len(items)
<1>2. /\ LastSetting(items, "-p", "sctp", getProtocol) =
            ProtocolOf(items, SettingsUpTo(items, "-p", N))
      /\ LastSetting(items, "-mtu", 0, atoi) = NumberOf(items, SettingsUpTo(items, "-mtu", N))
      /\ LastSetting(items, "-seg", 0, atoi) = NumberOf(items, SettingsUpTo(items, "-seg", N))
      /\ LastSetting(items, "-msg", 0, atoi) = NumberOf(items, SettingsUpTo(items, "-msg", N))
  BY <1>1 DEF LastSetting, SettingsUpTo, ProtocolOf, NumberOf, Latest
<1>3. SocketsWhere(items, Unmarked) = Listed(items, LocalsUpTo(items, N))
  BY <1>1 DEF SocketsWhere, Listed, SocketOf, LocalsUpTo, MarkedBefore
<1>4. SocketsWhere(items, Marked) = Listed(items, RemotesUpTo(items, N))
  BY <1>1 DEF SocketsWhere, Listed, SocketOf, RemotesUpTo, MarkedBefore
<1>5. Meaning(items) =
         [protocol |-> LastSetting(items, "-p", "sctp", getProtocol),
          path_mtu |-> LastSetting(items, "-mtu", 0, atoi),
          max_seg |-> LastSetting(items, "-seg", 0, atoi),
          big_msg_size |-> LastSetting(items, "-msg", 0, atoi),
          locals |-> SocketsWhere(items, Unmarked),
          remotes |-> SocketsWhere(items, Marked)]
  BY DEF Meaning
<1> QED
  BY <1>2, <1>3, <1>4, <1>5 DEF MeaningUpTo

\* One more socket comes last in the list.
LEMMA ListedMore ==
    ASSUME NEW items, NEW k \in Nat \ {0}, NEW S \in SUBSET (1 .. k - 1)
    PROVE  Listed(items, S \cup {k}) = Append(Listed(items, S), SocketOf(items[k]))
<1> DEFINE c == Cardinality(S)
           U == S \cup {k}
           e == SocketOf(items[k])
           f == Listed(items, S)
           g == Listed(items, U)
           R == {f[n] : n \in 1 .. c} \cup {e}
<1>1. /\ c \in Nat /\ Cardinality(U) = c + 1
      /\ \A n \in 1 .. c : Nth(U, n) = Nth(S, n)
      /\ Nth(U, c + 1) = k
  <2>1. k - 1 \in Nat /\ (k - 1) + 1 = k
    OBVIOUS
  <2> DEFINE m == k - 1
  <2>2. m \in Nat /\ m + 1 = k /\ S \in SUBSET (1 .. m)
    BY <2>1
  <2> HIDE DEF m
  <2>3. /\ Cardinality(S) \in Nat /\ Cardinality(S \cup {m + 1}) = Cardinality(S) + 1
        /\ \A n \in 1 .. Cardinality(S) : Nth(S \cup {m + 1}, n) = Nth(S, n)
        /\ Nth(S \cup {m + 1}, Cardinality(S) + 1) = m + 1
    BY <2>2, NthOfMore
  <2> QED
    BY <2>2, <2>3
<1>2. f = [n \in 1 .. c |-> SocketOf(items[Nth(S, n)])]
  BY DEF Listed
<1>3. g = [n \in 1 .. c + 1 |-> SocketOf(items[Nth(U, n)])]
  BY <1>1 DEF Listed
<1> HIDE DEF c, U, e, f, g
<1>4. /\ DOMAIN g = 1 .. c + 1 /\ g[c + 1] = e
      /\ \A n \in 1 .. c : g[n] = f[n]
  <2>1. c + 1 \in 1 .. c + 1 /\ \A n \in 1 .. c : n \in 1 .. c + 1
    BY <1>1
  <2> QED
    BY <1>1, <1>2, <1>3, <2>1 DEF e
<1>5. f \in Seq(R) /\ Len(f) = c /\ e \in R
  <2>1. f \in [1 .. c -> R] /\ e \in R
    BY <1>2
  <2> HIDE DEF R
  <2>2. f \in Seq(R)
    BY <1>1, <2>1, SeqDef
  <2>3. Len(f) \in Nat /\ DOMAIN f = 1 .. Len(f) /\ DOMAIN f = 1 .. c
    BY <2>1, <2>2
  <2>4. Len(f) = c
    <3>1. \A l \in Nat : 1 .. l = 1 .. c => l = c
      <4>1. ASSUME NEW l \in Nat, 1 .. l = 1 .. c PROVE l = c
        <5>1. (l > c => l \in 1 .. l) /\ (c > l => c \in 1 .. c)
          BY <1>1
        <5> QED
          BY <1>1, <4>1, <5>1
      <4> QED
        BY <4>1
    <3> QED
      BY <2>3, <3>1
  <2> QED
    BY <2>1, <2>2, <2>4
<1>6. g \in Seq(R) /\ Len(g) = c + 1
  <2>1. g \in [1 .. c + 1 -> R]
    <3>1. ASSUME NEW n \in 1 .. c + 1 PROVE g[n] \in R
      <4>1. n \in 1 .. c \/ n = c + 1
        BY <1>1
      <4> QED
        BY <1>4, <4>1
    <3> QED
      BY <1>3, <3>1
  <2> HIDE DEF R
  <2>2. c + 1 \in Nat
    BY <1>1
  <2>3. g \in Seq(R)
    BY <2>1, <2>2, SeqDef
  <2> QED
    BY <1>4, <2>2, <2>3
<1> HIDE DEF R
<1>7. g = Append(f, e)
  <2> DEFINE h == Append(f, e)
  <2>1. /\ h \in Seq(R) /\ Len(h) = c + 1 /\ h[c + 1] = e
        /\ \A n \in 1 .. c : h[n] = f[n]
    BY <1>1, <1>5
  <2> HIDE DEF h
  <2>2. \A n \in 1 .. c + 1 : g[n] = h[n]
    <3>1. \A n \in 1 .. c + 1 : n \in 1 .. c \/ n = c + 1
      BY <1>1
    <3> QED
      BY <1>4, <2>1, <3>1
  <2>3. g = h
    BY <1>6, <2>1, <2>2, SeqEqual
  <2> QED
    BY <2>3 DEF h
<1> QED
  BY <1>7 DEF f, g, U, e

\* A setting counts as soon as it is there; a socket is listed behind the others.
LEMMA SettingsMore ==
    ASSUME NEW items, NEW o, NEW k \in Nat \ {0}
    PROVE  LET S == SettingsUpTo(items, o, k - 1)
               U == SettingsUpTo(items, o, k)
           IN  IF items[k].item = "setting" /\ IsOption(items[k].tokens[1], o)
               THEN U # {} /\ Max(U) = k
               ELSE U = S
<1> DEFINE S == SettingsUpTo(items, o, k - 1)
           U == SettingsUpTo(items, o, k)
           m == k - 1
<1>1. m \in Nat /\ m + 1 = k /\ k \in 1 .. k
  OBVIOUS
<1>2. \A j \in 1 .. k : j = k \/ j \in 1 .. k - 1
  OBVIOUS
<1>3. \A j \in 1 .. k - 1 : j \in 1 .. k /\ j # k
  OBVIOUS
<1>4. CASE items[k].item = "setting" /\ IsOption(items[k].tokens[1], o)
  <2>1. U = S \cup {k} /\ S \subseteq 1 .. m
    BY <1>1, <1>2, <1>3, <1>4 DEF SettingsUpTo
  <2> HIDE DEF S, U, m
  <2>2. Max(S \cup {m + 1}) = m + 1
    BY <1>1, <2>1, MaxOfMore
  <2> QED
    BY <1>1, <1>4, <2>1, <2>2 DEF S, U
<1>5. CASE ~(items[k].item = "setting" /\ IsOption(items[k].tokens[1], o))
  BY <1>2, <1>3, <1>5 DEF SettingsUpTo
<1> QED
  BY <1>4, <1>5

LEMMA SocketsMore ==
    ASSUME NEW items, NEW k \in Nat \ {0}
    PROVE  LET x == items[k]
           IN  /\ Listed(items, LocalsUpTo(items, k)) =
                    IF x.item = "socket" /\ ~MarkedBefore(items, k)
                    THEN Append(Listed(items, LocalsUpTo(items, k - 1)), SocketOf(x))
                    ELSE Listed(items, LocalsUpTo(items, k - 1))
               /\ Listed(items, RemotesUpTo(items, k)) =
                    IF x.item = "socket" /\ MarkedBefore(items, k)
                    THEN Append(Listed(items, RemotesUpTo(items, k - 1)), SocketOf(x))
                    ELSE Listed(items, RemotesUpTo(items, k - 1))
<1>1. /\ k \in 1 .. k
      /\ \A j \in 1 .. k : j = k \/ j \in 1 .. k - 1
      /\ \A j \in 1 .. k - 1 : j \in 1 .. k /\ j # k
  OBVIOUS
<1> DEFINE M(j) == MarkedBefore(items, j)
           L == LocalsUpTo(items, k - 1)
           R == RemotesUpTo(items, k - 1)
<1>2. /\ L \subseteq 1 .. k - 1 /\ R \subseteq 1 .. k - 1
      /\ LocalsUpTo(items, k) = IF items[k].item = "socket" /\ ~M(k) THEN L \cup {k} ELSE L
      /\ RemotesUpTo(items, k) = IF items[k].item = "socket" /\ M(k) THEN R \cup {k} ELSE R
  <2> HIDE DEF M
  <2> QED
    BY <1>1 DEF LocalsUpTo, RemotesUpTo, M
<1> HIDE DEF L, R
<1>3. /\ Listed(items, L \cup {k}) = Append(Listed(items, L), SocketOf(items[k]))
      /\ Listed(items, R \cup {k}) = Append(Listed(items, R), SocketOf(items[k]))
  BY <1>2, ListedMore
<1> QED
  BY <1>2, <1>3 DEF L, R

\* What item k adds to the meaning of those in front of it.
LEMMA MeaningOfMore ==
    ASSUME NEW items, NEW k \in Nat \ {0}
    PROVE  LET x == items[k]
               o == x.tokens[1].is
               v == x.tokens[2]
               l == MeaningUpTo(items, k - 1)
               m == MeaningUpTo(items, k)
           IN  /\ IsSetting(x) /\ o = "-p" => m = [l EXCEPT !.protocol = getProtocol(v)]
               /\ IsSetting(x) /\ o = "-mtu" => m = [l EXCEPT !.path_mtu = atoi(v)]
               /\ IsSetting(x) /\ o = "-seg" => m = [l EXCEPT !.max_seg = atoi(v)]
               /\ IsSetting(x) /\ o = "-msg" => m = [l EXCEPT !.big_msg_size = atoi(v)]
               /\ IsSocket(x) /\ ~MarkedBefore(items, k) =>
                    m = [l EXCEPT !.locals = Append(@, SocketOf(x))]
               /\ IsSocket(x) /\ MarkedBefore(items, k) =>
                    m = [l EXCEPT !.remotes = Append(@, SocketOf(x))]
               /\ IsMark(x) \/ IsUnknown(x) \/ IsIncomplete(x) => m = l
<1> DEFINE x == items[k]
           o == x.tokens[1].is
           v == x.tokens[2]
           l == MeaningUpTo(items, k - 1)
           m == MeaningUpTo(items, k)
           S(q, j) == SettingsUpTo(items, q, j)
           L(j) == Listed(items, LocalsUpTo(items, j))
           R(j) == Listed(items, RemotesUpTo(items, j))
<1>1. /\ l.protocol = ProtocolOf(items, S("-p", k - 1))
      /\ m.protocol = ProtocolOf(items, S("-p", k))
      /\ l.path_mtu = NumberOf(items, S("-mtu", k - 1))
      /\ m.path_mtu = NumberOf(items, S("-mtu", k))
      /\ l.max_seg = NumberOf(items, S("-seg", k - 1))
      /\ m.max_seg = NumberOf(items, S("-seg", k))
      /\ l.big_msg_size = NumberOf(items, S("-msg", k - 1))
      /\ m.big_msg_size = NumberOf(items, S("-msg", k))
      /\ l.locals = L(k - 1) /\ m.locals = L(k) /\ l.remotes = R(k - 1) /\ m.remotes = R(k)
  BY DEF MeaningUpTo
<1>2. /\ l = [protocol |-> l.protocol, path_mtu |-> l.path_mtu, max_seg |-> l.max_seg,
              big_msg_size |-> l.big_msg_size, locals |-> l.locals, remotes |-> l.remotes]
      /\ m = [protocol |-> m.protocol, path_mtu |-> m.path_mtu, max_seg |-> m.max_seg,
              big_msg_size |-> m.big_msg_size, locals |-> m.locals, remotes |-> m.remotes]
  BY DEF MeaningUpTo
<1>3. /\ m.locals = IF x.item = "socket" /\ ~MarkedBefore(items, k)
                    THEN Append(l.locals, SocketOf(x)) ELSE l.locals
      /\ m.remotes = IF x.item = "socket" /\ MarkedBefore(items, k)
                     THEN Append(l.remotes, SocketOf(x)) ELSE l.remotes
  BY <1>1, SocketsMore
<1>4. \A ks : ks # {} /\ Max(ks) = k =>
                 ProtocolOf(items, ks) = getProtocol(v) /\ NumberOf(items, ks) = atoi(v)
  BY DEF ProtocolOf, NumberOf, Latest
<1>5. /\ IsSetting(x) => x.item = "setting" /\ \A q : IsOption(x.tokens[1], q) <=> o = q
      /\ IsSocket(x) => x.item = "socket"
      /\ IsMark(x) \/ IsUnknown(x) \/ IsIncomplete(x) => x.item \notin {"socket", "setting"}
  BY DEF IsSetting, IsSocket, IsMark, IsUnknown, IsIncomplete, IsOption
<1>6. ASSUME NEW q
      PROVE  /\ IsSetting(x) /\ o = q => S(q, k) # {} /\ Max(S(q, k)) = k
             /\ x.item # "setting" \/ (IsSetting(x) /\ o # q) => S(q, k) = S(q, k - 1)
  <2>1. IF x.item = "setting" /\ IsOption(x.tokens[1], q)
        THEN S(q, k) # {} /\ Max(S(q, k)) = k ELSE S(q, k) = S(q, k - 1)
    BY SettingsMore
  <2> QED
    BY <1>5, <2>1
<1> HIDE DEF S, L, R, x, o, v, l, m
<1>7. /\ IsSetting(x) /\ o = "-p" => m.protocol = getProtocol(v)
      /\ x.item # "setting" \/ (IsSetting(x) /\ o # "-p") => m.protocol = l.protocol
  BY <1>1, <1>4, <1>6
<1>8. /\ IsSetting(x) /\ o = "-mtu" => m.path_mtu = atoi(v)
      /\ x.item # "setting" \/ (IsSetting(x) /\ o # "-mtu") => m.path_mtu = l.path_mtu
  BY <1>1, <1>4, <1>6
<1>9. /\ IsSetting(x) /\ o = "-seg" => m.max_seg = atoi(v)
      /\ x.item # "setting" \/ (IsSetting(x) /\ o # "-seg") => m.max_seg = l.max_seg
  BY <1>1, <1>4, <1>6
<1>10. /\ IsSetting(x) /\ o = "-msg" => m.big_msg_size = atoi(v)
       /\ x.item # "setting" \/ (IsSetting(x) /\ o # "-msg") => m.big_msg_size = l.big_msg_size
  BY <1>1, <1>4, <1>6
<1>11. IsSetting(x) => m.locals = l.locals /\ m.remotes = l.remotes
  BY <1>3, <1>5
<1>12. x.item # "setting" =>
         /\ m.protocol = l.protocol /\ m.path_mtu = l.path_mtu
         /\ m.max_seg = l.max_seg /\ m.big_msg_size = l.big_msg_size
  BY <1>7, <1>8, <1>9, <1>10
<1>13. ASSUME IsSetting(x), o = "-p" PROVE m = [l EXCEPT !.protocol = getProtocol(v)]
  <2>1. m.path_mtu = l.path_mtu /\ m.max_seg = l.max_seg /\ m.big_msg_size = l.big_msg_size
    BY <1>7, <1>8, <1>9, <1>10, <1>13
  <2>2. m.protocol = getProtocol(v)
    BY <1>7, <1>13
  <2> QED
    BY <1>2, <1>11, <1>13, <2>1, <2>2
<1>14. ASSUME IsSetting(x), o = "-mtu" PROVE m = [l EXCEPT !.path_mtu = atoi(v)]
  <2>1. m.protocol = l.protocol /\ m.max_seg = l.max_seg /\ m.big_msg_size = l.big_msg_size
    BY <1>7, <1>8, <1>9, <1>10, <1>14
  <2>2. m.path_mtu = atoi(v)
    BY <1>8, <1>14
  <2> QED
    BY <1>2, <1>11, <1>14, <2>1, <2>2
<1>15. ASSUME IsSetting(x), o = "-seg" PROVE m = [l EXCEPT !.max_seg = atoi(v)]
  <2>1. m.protocol = l.protocol /\ m.path_mtu = l.path_mtu /\ m.big_msg_size = l.big_msg_size
    BY <1>7, <1>8, <1>9, <1>10, <1>15
  <2>2. m.max_seg = atoi(v)
    BY <1>9, <1>15
  <2> QED
    BY <1>2, <1>11, <1>15, <2>1, <2>2
<1>16. ASSUME IsSetting(x), o = "-msg" PROVE m = [l EXCEPT !.big_msg_size = atoi(v)]
  <2>1. m.protocol = l.protocol /\ m.path_mtu = l.path_mtu /\ m.max_seg = l.max_seg
    BY <1>7, <1>8, <1>9, <1>10, <1>16
  <2>2. m.big_msg_size = atoi(v)
    BY <1>10, <1>16
  <2> QED
    BY <1>2, <1>11, <1>16, <2>1, <2>2
<1>17. ASSUME IsSocket(x), ~MarkedBefore(items, k)
       PROVE  m = [l EXCEPT !.locals = Append(@, SocketOf(x))]
  <2>1. m.locals = Append(l.locals, SocketOf(x)) /\ m.remotes = l.remotes
    BY <1>3, <1>5, <1>17
  <2> QED
    BY <1>2, <1>5, <1>12, <1>17, <2>1
<1>18. ASSUME IsSocket(x), MarkedBefore(items, k)
       PROVE  m = [l EXCEPT !.remotes = Append(@, SocketOf(x))]
  <2>1. m.remotes = Append(l.remotes, SocketOf(x)) /\ m.locals = l.locals
    BY <1>3, <1>5, <1>18
  <2> QED
    BY <1>2, <1>5, <1>12, <1>18, <2>1
<1>19. IsMark(x) \/ IsUnknown(x) \/ IsIncomplete(x) => m = l
  BY <1>2, <1>3, <1>5, <1>12
<1> QED
  BY <1>13, <1>14, <1>15, <1>16, <1>17, <1>18, <1>19 DEF l, m, x, o, v

\* Where the parser is when it has read the items up to k, of which the next begins
\* behind position n.
ReadUpTo(items, k, n) ==
    [i |-> n + 1, filling |-> IF MarkedBefore(items, k + 1) THEN "remotes" ELSE "locals",
     config |-> MeaningUpTo(items, k)]

\* The parser starts in front of the first item.
LEMMA ReadNothing ==
    ASSUME NEW items
    PROVE  ReadUpTo(items, 0, 0) = Parser
<1>1. ~MarkedBefore(items, 0 + 1)
  BY DEF MarkedBefore
<1>2. /\ \A o : SettingsUpTo(items, o, 0) = {}
      /\ LocalsUpTo(items, 0) = {} /\ RemotesUpTo(items, 0) = {}
  BY DEF SettingsUpTo, LocalsUpTo, RemotesUpTo
<1>3. Listed(items, {}) = <<>>
  <2>1. Cardinality({}) = 0
    BY FS_EmptySet
  <2>2. Listed(items, {}) = [n \in 1 .. 0 |-> SocketOf(items[Nth({}, n)])]
    BY <2>1 DEF Listed
  <2> QED
    BY <2>2
<1>4. MeaningUpTo(items, 0) = zeroedConfiguration
  BY <1>2, <1>3 DEF MeaningUpTo, ProtocolOf, NumberOf, zeroedConfiguration
<1> QED
  BY <1>1, <1>4 DEF ReadUpTo, Parser

\* The tokens come next behind position n.
Follow(args, n, tokens) == \A i \in 1 .. Len(tokens) : args[n + i] = tokens[i]

\* One iteration reads one item.
LEMMA ReadItem ==
    ASSUME NEW args, NEW items, NEW k \in Nat \ {0}, NEW n \in Nat,
           ReadUpTo(items, k - 1, n) \in Parsers,
           items[k] \in CompleteItem,
           Follow(args, n, items[k].tokens)
    PROVE  ParseArg(args, ReadUpTo(items, k - 1, n)) =
              ReadUpTo(items, k, n + Len(items[k].tokens))
<1> DEFINE x == items[k]
           o == x.tokens[1].is
           v == x.tokens[2]
           p == ReadUpTo(items, k - 1, n)
           l == MeaningUpTo(items, k - 1)
           m == MeaningUpTo(items, k)
           marked == MarkedBefore(items, k)
           where == IF marked THEN "remotes" ELSE "locals"
           q == ReadUpTo(items, k, n + Len(x.tokens))
           whereNext == IF MarkedBefore(items, k + 1) THEN "remotes" ELSE "locals"
<1>1. IsSetting(x) \/ IsSocket(x) \/ IsMark(x) \/ IsUnknown(x)
  BY ItemKinds
<1>2. /\ p.i = n + 1 /\ p.filling = where /\ p.config = l
      /\ p = [i |-> n + 1, filling |-> where, config |-> l]
  <2>1. (k - 1) + 1 = k
    OBVIOUS
  <2> QED
    BY <2>1 DEF ReadUpTo
<1>3. q = [i |-> (n + Len(x.tokens)) + 1, filling |-> whereNext, config |-> m]
  BY DEF ReadUpTo
<1>4. MarkedBefore(items, k + 1) <=> marked \/ x.item = "remotes"
  <2>1. \A j \in 1 .. (k + 1) - 1 : j \in 1 .. k - 1 \/ j = k
    OBVIOUS
  <2>2. k \in 1 .. (k + 1) - 1 /\ \A j \in 1 .. k - 1 : j \in 1 .. (k + 1) - 1
    OBVIOUS
  <2> QED
    BY <2>1, <2>2 DEF MarkedBefore
<1>5. /\ IsSetting(x) \/ IsSocket(x) => Len(x.tokens) = 2 /\ x.item # "remotes"
      /\ IsMark(x) => Len(x.tokens) = 1 /\ x.item = "remotes"
      /\ IsUnknown(x) => Len(x.tokens) = 1 /\ x.item # "remotes"
  BY DEF IsSetting, IsSocket, IsMark, IsUnknown
<1>6. args[p.i] = x.tokens[1] /\ (IsSetting(x) \/ IsSocket(x) => args[p.i + 1] = v)
  <2>1. args[n + 1] = x.tokens[1]
    BY <1>1, <1>5 DEF Follow
  <2>2. IsSetting(x) \/ IsSocket(x) => args[n + 2] = v
    BY <1>5 DEF Follow
  <2>3. (n + 1) + 1 = n + 2
    OBVIOUS
  <2> HIDE DEF p, v
  <2> QED
    BY <1>2, <2>1, <2>2, <2>3
<1>7. whereNext = IF x.item = "remotes" THEN "remotes" ELSE where
  BY <1>4
<1>8. p \in Parsers
  OBVIOUS
<1>9. ReadAs(ParseArg(args, p), p, x)
  <2> HIDE DEF p, x, v
  <2>1. args[p.i] = x.tokens[1]
    BY <1>6
  <2>2. IsSetting(x) \/ IsSocket(x) => args[p.i + 1] = x.tokens[2]
    BY <1>6 DEF v
  <2> QED
    BY <1>8, <2>1, <2>2, ParseItem
<1>10. /\ IsSetting(x) /\ o = "-p" => m = [l EXCEPT !.protocol = getProtocol(v)]
       /\ IsSetting(x) /\ o = "-mtu" => m = [l EXCEPT !.path_mtu = atoi(v)]
       /\ IsSetting(x) /\ o = "-seg" => m = [l EXCEPT !.max_seg = atoi(v)]
       /\ IsSetting(x) /\ o = "-msg" => m = [l EXCEPT !.big_msg_size = atoi(v)]
       /\ IsSocket(x) /\ ~marked => m = [l EXCEPT !.locals = Append(@, SocketOf(x))]
       /\ IsSocket(x) /\ marked => m = [l EXCEPT !.remotes = Append(@, SocketOf(x))]
       /\ IsMark(x) \/ IsUnknown(x) => m = l
  BY MeaningOfMore
<1>11. IsSetting(x) => o \in {"-p", "-mtu", "-seg", "-msg"}
  BY DEF IsSetting, SettingOptions
<1>12. /\ Len(x.tokens) = 1 => p.i + 1 = (n + Len(x.tokens)) + 1
       /\ Len(x.tokens) = 2 => p.i + 2 = (n + Len(x.tokens)) + 1
  <2>1. \A c \in {1, 2} : (n + 1) + c = (n + c) + 1
    OBVIOUS
  <2> HIDE DEF p, x
  <2> QED
    BY <1>2, <2>1
<1> HIDE DEF whereNext, marked, where, p, q, l, m, x, o, v
<1>13. ASSUME IsSetting(x) PROVE ParseArg(args, p) = q
  <2>1. \E c : ParseArg(args, p) = [p EXCEPT !.i = p.i + 2, !.config = c] /\ m = c
    BY <1>2, <1>9, <1>10, <1>11, <1>13 DEF ReadAs, o, v
  <2>2. q = [i |-> p.i + 2, filling |-> where, config |-> m]
    BY <1>3, <1>5, <1>7, <1>12, <1>13
  <2> QED
    BY <1>2, <2>1, <2>2
<1>14. ASSUME IsSocket(x) PROVE ParseArg(args, p) = q
  <2> DEFINE e == SocketOf(x)
  <2>1. ParseArg(args, p) = [p EXCEPT !.i = p.i + 2,
                                      !.config = [l EXCEPT ![where] = Append(@, e)]]
    BY <1>2, <1>9, <1>14 DEF ReadAs
  <2>2. /\ ~marked => m = [l EXCEPT !.locals = Append(@, e)]
        /\ marked => m = [l EXCEPT !.remotes = Append(@, e)]
    BY <1>10, <1>14
  <2> HIDE DEF e
  <2>3. m = [l EXCEPT ![where] = Append(@, e)]
    BY <2>2 DEF where
  <2>4. q = [i |-> p.i + 2, filling |-> where, config |-> m]
    BY <1>3, <1>5, <1>7, <1>12, <1>14
  <2> QED
    BY <1>2, <2>1, <2>3, <2>4
<1>15. ASSUME IsMark(x) PROVE ParseArg(args, p) = q
  <2>1. q = [i |-> p.i + 1, filling |-> "remotes", config |-> l]
    BY <1>3, <1>5, <1>7, <1>10, <1>12, <1>15
  <2> QED
    BY <1>2, <1>9, <1>15, <2>1 DEF ReadAs
<1>16. ASSUME IsUnknown(x) PROVE ParseArg(args, p) = q
  <2>1. q = [i |-> p.i + 1, filling |-> where, config |-> l]
    BY <1>3, <1>5, <1>7, <1>10, <1>12, <1>16
  <2> QED
    BY <1>2, <1>9, <1>16, <2>1 DEF ReadAs
<1> QED
  BY <1>1, <1>13, <1>14, <1>15, <1>16 DEF p, q, x

\* The arguments of a command line, and where those of each item begin.
LEMMA ArgsOfItems ==
    ASSUME NEW items, IsCommandLine(items)
    PROVE  /\ Args(items) \in Seq(Token)
           /\ \E start \in [0 .. Len(items) -> Nat] :
                 /\ start[0] = 0 /\ start[Len(items)] = Len(Args(items))
                 /\ \A k \in 1 .. Len(items) :
                       /\ start[k] = start[k - 1] + Len(items[k].tokens)
                       /\ \A i \in 1 .. Len(items[k].tokens) :
                             Args(items)[start[k - 1] + i] = items[k].tokens[i]
<1> DEFINE N == Len(items)
           seqs == [k \in DOMAIN items |-> items[k].tokens]
<1>1. /\ N \in Nat /\ DOMAIN items = 1 .. N
      /\ \A k \in 1 .. N : items[k] \in CompleteItem \cup IncompleteItem
  BY DEF IsCommandLine
<1>2. \A k \in 1 .. N : items[k].tokens \in Seq(Token)
  BY <1>1, ItemKinds
<1> HIDE DEF N
<1>3. seqs \in [1 .. N -> Seq(Token)] /\ \A k \in 1 .. N : seqs[k] = items[k].tokens
  BY <1>1, <1>2
<1>4. Args(items) = FlattenSeq(seqs)
  BY DEF Args
<1> HIDE DEF seqs
<1>5. seqs \in Seq(Seq(Token)) /\ Len(seqs) = N
  <2>1. seqs \in Seq(Seq(Token))
    BY <1>1, <1>3, SeqDef
  <2>2. Len(seqs) \in Nat /\ 1 .. Len(seqs) = 1 .. N
    BY <1>3, <2>1
  <2> QED
    BY <1>1, <2>1, <2>2, SameInterval
<1>6. Args(items) \in Seq(Token)
  BY <1>4, <1>5, Flattened
<1>7. PICK start \in [0 .. N -> Nat] :
            /\ start[0] = 0 /\ start[N] = Len(Args(items))
            /\ \A k \in 1 .. N :
                  /\ start[k] = start[k - 1] + Len(seqs[k])
                  /\ \A i \in 1 .. Len(seqs[k]) : Args(items)[start[k - 1] + i] = seqs[k][i]
  <2>1. \E start \in [0 .. Len(seqs) -> Nat] :
            /\ start[0] = 0 /\ start[Len(seqs)] = Len(FlattenSeq(seqs))
            /\ \A k \in 1 .. Len(seqs) :
                  /\ start[k] = start[k - 1] + Len(seqs[k])
                  /\ \A i \in 1 .. Len(seqs[k]) :
                        FlattenSeq(seqs)[start[k - 1] + i] = seqs[k][i]
    BY <1>5, Flattened
  <2> QED
    BY <1>4, <1>5, <2>1
<1>8. ASSUME NEW k \in 1 .. N
      PROVE  /\ start[k] = start[k - 1] + Len(items[k].tokens)
             /\ \A i \in 1 .. Len(items[k].tokens) :
                   Args(items)[start[k - 1] + i] = items[k].tokens[i]
  BY <1>3, <1>7
<1> QED
  BY <1>6, <1>7, <1>8 DEF N

\* The parser makes of a command line what is meant by it.
LEMMA ParsedAsWritten ==
    ASSUME NEW items, IsCommandLine(items)
    PROVE  createNetworkConfiguration(Args(items)) = Meaning(items)
<1> DEFINE N == Len(items)
           args == Args(items)
           M == Len(args)
           Length(k) == Len(items[k].tokens)
           Alone == N # 0 /\ Length(N) = 1
           K == IF Alone THEN N - 1 ELSE N
<1>1. /\ N \in Nat
      /\ items \in Seq(CompleteItem \cup IncompleteItem)
      /\ \A k \in 1 .. N : items[k] \in CompleteItem \cup IncompleteItem
      /\ \A k \in 1 .. N - 1 : items[k] \in CompleteItem
  BY DEF IsCommandLine
<1>2. args \in Seq(Token) /\ M \in Nat
  <2>1. args \in Seq(Token)
    BY ArgsOfItems
  <2> HIDE DEF args
  <2> QED
    BY <2>1
<1>3. PICK start \in [0 .. N -> Nat] :
             /\ start[0] = 0 /\ start[N] = M
             /\ \A k \in 1 .. N :
                   /\ start[k] = start[k - 1] + Length(k)
                   /\ \A i \in 1 .. Length(k) : args[start[k - 1] + i] = items[k].tokens[i]
  BY ArgsOfItems
<1>4. PICK f \in [0 .. M -> Parsers] :
             /\ f[0] = Parser
             /\ \A k \in 1 .. M : f[k] = ParseStep(args, f[k - 1])
             /\ createNetworkConfiguration(args) = f[M].config
  BY <1>2, ParsedInSteps
<1>5. \A k \in 1 .. N :
         /\ Length(k) = 1 \/ Length(k) = 2
         /\ Length(k) = 2 => items[k] \in CompleteItem
         /\ Length(k) = 1 => IsMark(items[k]) \/ IsUnknown(items[k]) \/ IsIncomplete(items[k])
  <2> SUFFICES ASSUME NEW k \in 1 .. N
               PROVE  /\ Length(k) = 1 \/ Length(k) = 2
                      /\ Length(k) = 2 => items[k] \in CompleteItem
                      /\ Length(k) = 1 =>
                            IsMark(items[k]) \/ IsUnknown(items[k]) \/ IsIncomplete(items[k])
    OBVIOUS
  <2> DEFINE x == items[k]
  <2>1. x \in CompleteItem \cup IncompleteItem
    BY <1>1
  <2> HIDE DEF x
  <2>2. CASE x \in CompleteItem
    <3>1. IsSetting(x) \/ IsSocket(x) \/ IsMark(x) \/ IsUnknown(x)
      BY <2>1, <2>2, ItemKinds
    <3>2. /\ IsSetting(x) \/ IsSocket(x) => Len(x.tokens) = 2 /\ Len(x.tokens) # 1
          /\ IsMark(x) \/ IsUnknown(x) => Len(x.tokens) = 1
      BY DEF IsSetting, IsSocket, IsMark, IsUnknown
    <3>3. /\ Len(x.tokens) = 1 \/ Len(x.tokens) = 2
          /\ Len(x.tokens) = 1 => IsMark(x) \/ IsUnknown(x)
      BY <3>1, <3>2
    <3> QED
      BY <2>2, <3>3 DEF x
  <2>3. CASE x \in IncompleteItem
    <3>1. IsIncomplete(x) /\ Len(x.tokens) = 1
      BY <2>1, <2>3, ItemKinds DEF IsIncomplete
    <3> QED
      BY <3>1 DEF x
  <2> QED
    BY <2>1, <2>2, <2>3
<1> HIDE DEF N, args, M, Length
<1>6. \A k \in 1 .. N :
         /\ k - 1 \in 0 .. N /\ k \in 0 .. N /\ start[k] \in Nat /\ start[k - 1] \in Nat
         /\ start[k] = start[k - 1] + 1 \/ start[k] = start[k - 1] + 2
         /\ Length(k) = 2 => start[k] = start[k - 1] + 2
         /\ Length(k) = 1 => start[k] = start[k - 1] + 1
  <2>1. \A k \in 1 .. N : k - 1 \in 0 .. N /\ k \in 0 .. N
    BY <1>1
  <2> QED
    BY <1>3, <1>5, <2>1
\* Each item that follows takes at least one argument.
<1>7. ASSUME NEW k \in 0 .. N PROVE start[k] + (N - k) <= M
  <2> DEFINE G == {j \in 0 .. N : start[N - j] + j <= M}
  <2>1. 0 \in G
    BY <1>1, <1>2, <1>3
  <2>2. ASSUME NEW j \in 1 .. N, j - 1 \in G PROVE j \in G
    <3> DEFINE i == N - (j - 1)
    <3>1. i \in 1 .. N /\ i - 1 = N - j
      BY <1>1
    <3>2. start[i] + (j - 1) <= M
      BY <2>2
    <3> HIDE DEF i
    <3>3. start[N - j] \in Nat /\ start[i] \in Nat /\ start[i] >= start[N - j] + 1
      <4>1. /\ start[i] \in Nat /\ start[i - 1] \in Nat
            /\ start[i] = start[i - 1] + 1 \/ start[i] = start[i - 1] + 2
        BY <1>6, <3>1
      <4>2. start[i] >= start[i - 1] + 1
        BY <4>1
      <4> QED
        BY <3>1, <4>1, <4>2
    <3>4. start[N - j] + j <= M
      BY <1>2, <3>2, <3>3
    <3> QED
      BY <3>4
  <2> HIDE DEF G
  <2>3. \A j \in 0 .. N : j \in G
    BY <1>1, <2>1, <2>2, Induction
  <2>4. N - k \in 0 .. N /\ N - (N - k) = k
    BY <1>1
  <2>5. N - k \in G
    BY <2>3, <2>4
  <2> QED
    BY <2>4, <2>5 DEF G
<1>8. /\ K \in 0 .. N /\ K \in 0 .. M
      /\ start[K] \in Nat /\ start[K] + 1 >= M
      /\ K # N => N # 0 /\ K = N - 1 /\ Length(N) = 1
      /\ K = N /\ N # 0 => Length(N) # 1
  <2>1. /\ K \in 0 .. N /\ (K # N => N # 0 /\ K = N - 1 /\ Length(N) = 1)
        /\ K = N /\ N # 0 => Length(N) # 1
    BY <1>1
  <2>2. N <= M
    <3>1. start[0] + (N - 0) <= M /\ start[0] = 0
      BY <1>1, <1>3, <1>7
    <3> QED
      BY <1>1, <1>2, <3>1
  <2>3. start[K] \in Nat
    BY <1>3, <2>1
  <2>4. start[K] + 1 >= M
    <3>1. CASE K = N
      BY <1>2, <1>3, <3>1
    <3>2. CASE K # N
      <4>1. N \in 1 .. N /\ K = N - 1 /\ Length(N) = 1
        BY <1>1, <2>1, <3>2
      <4>2. M = start[K] + 1
        BY <1>3, <1>6, <4>1
      <4> QED
        BY <1>2, <4>2
    <3> QED
      BY <3>1, <3>2
  <2> HIDE DEF K
  <2> QED
    BY <1>1, <1>2, <2>1, <2>2, <2>3, <2>4
<1> HIDE DEF K
<1>9. ASSUME NEW k \in 1 .. K
      PROVE  /\ k \in 1 .. N /\ k \in 1 .. M
             /\ items[k] \in CompleteItem /\ start[k - 1] + 1 < M
  <2>1. k \in 1 .. N /\ (k \in 1 .. N - 1 \/ (k = N /\ K = N))
    BY <1>1, <1>8
  <2>2. CASE k \in 1 .. N - 1
    <3>1. items[k] \in CompleteItem
      BY <1>1, <2>2
    <3>2. start[k - 1] + (N - (k - 1)) <= M /\ start[k - 1] \in Nat
      BY <1>6, <1>7, <2>1
    <3>3. start[k - 1] + 1 < M
      BY <1>1, <1>2, <2>2, <3>2
    <3> QED
      BY <1>2, <1>8, <2>1, <3>1, <3>3
  <2>3. CASE k = N /\ K = N
    <3>1. Length(N) = 2
      BY <1>1, <1>5, <1>8, <2>1, <2>3
    <3>2. items[k] \in CompleteItem /\ M = start[k - 1] + 2 /\ start[k - 1] \in Nat
      BY <1>3, <1>5, <1>6, <2>1, <2>3, <3>1
    <3> QED
      BY <1>8, <2>1, <3>2
  <2> QED
    BY <2>1, <2>2, <2>3
\* The parser reads an item in every iteration ...
<1>10. \A k \in 0 .. K : f[k] = ReadUpTo(items, k, start[k])
  <2> DEFINE G == {k \in 0 .. K : f[k] = ReadUpTo(items, k, start[k])}
  <2>1. 0 \in G
    BY <1>3, <1>4, <1>8, ReadNothing
  <2>2. ASSUME NEW k \in 1 .. K, k - 1 \in G PROVE k \in G
    <3> DEFINE n == start[k - 1]
    <3>1. f[k - 1] = ReadUpTo(items, k - 1, n)
      BY <2>2
    <3>2. /\ k \in 1 .. N /\ k \in 1 .. M /\ k \in Nat \ {0}
          /\ items[k] \in CompleteItem /\ n + 1 < M
      BY <1>9
    <3>3. n \in Nat /\ start[k] = n + Length(k)
      BY <1>3, <1>6, <3>2
    <3>4. \A i \in 1 .. Length(k) : args[n + i] = items[k].tokens[i]
      BY <1>3, <3>2
    <3> HIDE DEF n
    <3>5. f[k - 1] \in Parsers /\ f[k] = ParseStep(args, f[k - 1])
      <4>1. k - 1 \in 0 .. M
        BY <1>2, <3>2
      <4> QED
        BY <1>4, <3>2, <4>1
    <3>6. f[k - 1].i < M
      BY <3>1, <3>2 DEF ReadUpTo
    <3>7. f[k] = ParseArg(args, ReadUpTo(items, k - 1, n))
      BY <3>1, <3>5, <3>6 DEF ParseStep, M
    <3>8. f[k] = ReadUpTo(items, k, n + Length(k))
      <4>1. ReadUpTo(items, k - 1, n) \in Parsers
        BY <3>1, <3>5
      <4>2. Follow(args, n, items[k].tokens)
        BY <3>4 DEF Length, Follow
      <4>3. k \in Nat \ {0} /\ n \in Nat /\ items[k] \in CompleteItem
        BY <3>2, <3>3
      <4>4. ParseArg(args, ReadUpTo(items, k - 1, n)) =
               ReadUpTo(items, k, n + Len(items[k].tokens))
        BY <4>1, <4>2, <4>3, ReadItem
      <4> QED
        BY <3>7, <4>4 DEF Length
    <3>9. f[k] = ReadUpTo(items, k, start[k])
      BY <3>3, <3>8
    <3> QED
      BY <3>9
  <2> HIDE DEF G
  <2>3. K \in Nat
    BY <1>1, <1>8
  <2>4. \A k \in 0 .. K : k \in G
    BY <2>1, <2>2, <2>3, Induction
  <2> QED
    BY <2>4 DEF G
\* ... until at most one argument is left.
<1>11. f[M] = f[K]
  <2> DEFINE G == {k \in 0 .. M : k >= K => f[k] = f[K]}
  <2>1. 0 \in G
    BY <1>2, <1>8
  <2>2. ASSUME NEW k \in 1 .. M, k - 1 \in G PROVE k \in G
    <3>1. CASE k - 1 >= K
      <4>1. f[k - 1] = f[K]
        BY <2>2, <3>1
      <4>2. f[k - 1].i = start[K] + 1
        <5>1. K \in 0 .. K
          BY <1>8
        <5>2. f[k - 1] = ReadUpTo(items, K, start[K])
          BY <1>10, <4>1, <5>1
        <5> QED
          BY <5>2 DEF ReadUpTo
      <4>3. ~(f[k - 1].i < M)
        BY <1>2, <1>8, <4>2
      <4>4. f[k] = f[K]
        BY <1>4, <4>1, <4>3 DEF ParseStep, M
      <4> QED
        BY <4>4
    <3>2. CASE ~(k - 1 >= K)
      <4>1. k >= K => k = K
        BY <1>8, <3>2
      <4> QED
        BY <4>1
    <3> QED
      BY <3>1, <3>2
  <2> HIDE DEF G
  <2>3. \A k \in 0 .. M : k \in G
    BY <1>2, <2>1, <2>2, Induction
  <2>4. M \in G /\ M >= K
    BY <1>2, <1>8, <2>3
  <2> QED
    BY <2>4 DEF G
<1>12. f[M].config = MeaningUpTo(items, K)
  <2>1. K \in 0 .. K
    BY <1>8
  <2>2. f[M] = ReadUpTo(items, K, start[K])
    BY <1>10, <1>11, <2>1
  <2> QED
    BY <2>2 DEF ReadUpTo
<1>13. MeaningUpTo(items, K) = MeaningUpTo(items, N)
  <2>1. CASE K # N
    <3>1. N \in 1 .. N /\ N \in Nat \ {0} /\ K = N - 1 /\ Length(N) = 1
      BY <1>1, <1>8, <2>1
    <3>2. IsMark(items[N]) \/ IsUnknown(items[N]) \/ IsIncomplete(items[N])
      BY <1>5, <3>1
    <3>3. MeaningUpTo(items, N) = MeaningUpTo(items, N - 1)
      BY <3>1, <3>2, MeaningOfMore
    <3> QED
      BY <3>1, <3>3
  <2> QED
    BY <2>1
<1>14. Meaning(items) = MeaningUpTo(items, N)
  BY <1>1, MeaningOfAll DEF N
<1> QED
  BY <1>4, <1>12, <1>13, <1>14 DEF args

------------------------------------------------------------------------------

LEMMA WellAddressed ==
    ASSUME NEW c \in Configuration(STRING \cup Nat),
           \A k \in DOMAIN c.locals : c.locals[k].addr \in Path,
           \A k \in DOMAIN c.remotes : c.remotes[k].addr \in Path
    PROVE  c \in Configuration(Path)
<1>1. ASSUME NEW s \in Seq(IPSocket(STRING \cup Nat)), \A k \in DOMAIN s : s[k].addr \in Path
      PROVE  s \in Seq(IPSocket(Path))
  <2>1. ASSUME NEW k \in DOMAIN s PROVE s[k] \in IPSocket(Path)
    <3>1. s[k] \in IPSocket(STRING \cup Nat) /\ s[k].addr \in Path
      BY <1>1
    <3> QED
      BY <3>1 DEF IPSocket
  <2> QED
    BY <2>1
<1>2. c.locals \in Seq(IPSocket(Path)) /\ c.remotes \in Seq(IPSocket(Path))
  BY <1>1 DEF Configuration
<1> QED
  BY <1>2 DEF Configuration

\* connectSocketUnix gives every remote the slot at its own place, as far as there is
\* room.  The function it is defined by is the one that does so after any number of
\* iterations: the first iteration at which the two differ cannot exist.
LEMMA Connected ==
    ASSUME NEW remotes \in Seq(IPSocket(Path))
    PROVE  /\ connectSocketUnix(remotes) \in Socket
           /\ \A r \in Path : Slots(connectSocketUnix(remotes), r) \subseteq
                                 {k \in DOMAIN remotes : remotes[k].addr = r}
<1> DEFINE N == Len(remotes)
           room(k) == IF k < peers_max_count THEN k ELSE peers_max_count
           table(k) == [j \in 1 .. room(k) |-> remotes[j].addr]
           Iteration(f, k) == IF k = 0 THEN <<>>
                          ELSE handleCommUpUnix(f[k - 1], remotes[k].addr)
           Solves(f) == f = [k \in 0 .. N |-> Iteration(f, k)]
           g == [k \in 0 .. N |-> table(k)]
<1>1. N \in Nat /\ peers_max_count \in Nat /\ \A k \in 1 .. N : remotes[k].addr \in Path
  <2>1. N \in Nat
    OBVIOUS
  <2>2. ASSUME NEW k \in 1 .. N PROVE remotes[k] \in IPSocket(Path)
    OBVIOUS
  <2> QED
    BY <2>1, <2>2 DEF IPSocket
<1>2. ASSUME NEW k \in 0 .. N
      PROVE  /\ table(k) \in Socket /\ Len(table(k)) = room(k)
             /\ room(k) \in 0 .. k /\ room(k) <= peers_max_count
  <2>1. room(k) \in Nat /\ room(k) <= k /\ room(k) <= peers_max_count /\ room(k) <= N
    BY <1>1
  <2> HIDE DEF room
  <2>2. table(k) \in [1 .. room(k) -> Path]
    BY <1>1, <2>1
  <2>3. table(k) \in Seq(Path \cup {NoPath}) /\ Len(table(k)) = room(k)
    BY <2>1, <2>2
  <2> QED
    BY <2>1, <2>3 DEF Socket
<1>3. table(0) = <<>>
  BY <1>1
<1>4. ASSUME NEW k \in 1 .. N
      PROVE  handleCommUpUnix(table(k - 1), remotes[k].addr) = table(k)
  <2>1. k - 1 \in 0 .. N /\ k \in 0 .. N
    BY <1>1
  <2>2. Len(table(k - 1)) = room(k - 1) /\ Len(table(k)) = room(k)
    BY <1>2, <2>1
  <2>3. CASE k - 1 >= peers_max_count
    BY <1>1, <2>2, <2>3 DEF handleCommUpUnix, Full
  <2>4. CASE k - 1 < peers_max_count
    <3>1. room(k - 1) = k - 1 /\ room(k) = k
      BY <1>1, <2>4
    <3>2. handleCommUpUnix(table(k - 1), remotes[k].addr) =
             Append(table(k - 1), remotes[k].addr)
      BY <2>2, <2>4, <3>1 DEF handleCommUpUnix, Full
    <3>3. table(k) = Append(table(k - 1), remotes[k].addr)
      BY <1>1, <3>1, <2>2
    <3> QED
      BY <3>2, <3>3
  <2> QED
    BY <1>1, <2>3, <2>4
<1> HIDE DEF table
<1>5. Solves(g)
  <2>1. ASSUME NEW k \in 0 .. N PROVE table(k) = Iteration(g, k)
    <3>1. CASE k = 0
      BY <1>3, <3>1
    <3>2. CASE k # 0
      <4>1. k \in 1 .. N /\ k - 1 \in 0 .. N
        BY <1>1, <3>2
      <4> QED
        BY <1>4, <3>2, <4>1
    <3> QED
      BY <3>1, <3>2
  <2> HIDE DEF Iteration
  <2> QED
    BY <2>1
<1> DEFINE f == CHOOSE f : Solves(f)
<1>6. Solves(f)
  <2> HIDE DEF Solves, g
  <2> QED
    BY <1>5
<1>7. connectSocketUnix(remotes) = f[N]
  BY DEF connectSocketUnix
<1> HIDE DEF f, N
<1>8. ASSUME NEW k \in 0 .. N PROVE f[k] = table(k)
  <2> DEFINE Bad == {i \in 0 .. N : f[i] # table(i)}
  <2> SUFFICES ASSUME Bad # {} PROVE FALSE
    OBVIOUS
  <2>1. PICK m \in Bad : \A i \in Bad : m <= i
    <3>1. Bad \in SUBSET Nat
      BY <1>1
    <3> HIDE DEF Bad
    <3> QED
      BY <3>1, LeastElement
  <2>2. m \in 0 .. N /\ f[m] # table(m) /\ f[m] = Iteration(f, m)
    BY <1>6, <2>1
  <2>3. m # 0
    BY <1>3, <2>2
  <2>4. m \in 1 .. N /\ m - 1 \in 0 .. N /\ m - 1 \notin Bad
    BY <1>1, <2>1, <2>2, <2>3
  <2>5. f[m] = handleCommUpUnix(table(m - 1), remotes[m].addr)
    BY <2>2, <2>3, <2>4
  <2> QED
    BY <1>4, <2>2, <2>4, <2>5
<1>9. f[N] = table(N) /\ N \in 0 .. N
  BY <1>1, <1>8
<1>10. ASSUME NEW r \in Path
       PROVE  Slots(table(N), r) \subseteq {k \in DOMAIN remotes : remotes[k].addr = r}
  <2>1. room(N) \in 0 .. N /\ DOMAIN remotes = 1 .. N
    BY <1>2, <1>9 DEF N
  <2> QED
    BY <1>1, <2>1 DEF Slots, table
<1> QED
  BY <1>2, <1>7, <1>9, <1>10

------------------------------------------------------------------------------

\* A datagram behind the others in a queue.
LEMMA Arrive ==
    ASSUME NEW q \in Seq(Datagram), NEW b \in Node, NEW msg \in Message, NEW Doubled
    PROVE  LET p == Append(q, [from |-> b, msg |-> msg])
           IN  /\ p \in Seq(Datagram) /\ Len(p) = Len(q) + 1
               /\ \A c : HasQuit(p, c) <=> HasQuit(q, c) \/ (msg = "q" /\ c = b)
               /\ \A c : HasText(p, c) <=> HasText(q, c) \/ (msg = "text" /\ c = b)
               /\ QuitsLast(q, Doubled) /\ (HasQuit(q, b) => msg = "q" /\ b \in Doubled)
                     => QuitsLast(p, Doubled)
<1> DEFINE d == [from |-> b, msg |-> msg]
           p == Append(q, d)
<1>1. d \in Datagram /\ d.from = b /\ d.msg = msg
  BY DEF Datagram
<1> HIDE DEF d
<1>2. /\ p \in Seq(Datagram) /\ Len(p) = Len(q) + 1
      /\ DOMAIN p = DOMAIN q \cup {Len(q) + 1} /\ p[Len(q) + 1] = d
      /\ \A i \in DOMAIN q : p[i] = q[i] /\ i < Len(q) + 1 /\ q[i] \in Datagram
      /\ DOMAIN p \subseteq Nat
  BY <1>1
<1> HIDE DEF p
<1>3. ASSUME NEW c
      PROVE  /\ HasQuit(p, c) <=> HasQuit(q, c) \/ (msg = "q" /\ c = b)
             /\ HasText(p, c) <=> HasText(q, c) \/ (msg = "text" /\ c = b)
  <2>1. d = [from |-> c, msg |-> "q"] <=> msg = "q" /\ c = b
    BY DEF d
  <2>2. d = [from |-> c, msg |-> "text"] <=> msg = "text" /\ c = b
    BY DEF d
  <2>3. HasQuit(p, c) <=> HasQuit(q, c) \/ d = [from |-> c, msg |-> "q"]
    BY <1>2 DEF HasQuit
  <2>4. HasText(p, c) <=> HasText(q, c) \/ d = [from |-> c, msg |-> "text"]
    BY <1>2 DEF HasText
  <2> QED
    BY <2>1, <2>2, <2>3, <2>4
<1>4. ASSUME QuitsLast(q, Doubled), HasQuit(q, b) => msg = "q" /\ b \in Doubled,
             NEW i \in DOMAIN p, NEW j \in DOMAIN p,
             i < j, p[i].msg = "q", p[j].from = p[i].from
      PROVE  p[j].msg = "q" /\ p[i].from \in Doubled
  <2>1. i \in DOMAIN q /\ p[i] = q[i]
    <3>1. i # Len(q) + 1
      BY <1>2, <1>4
    <3> QED
      BY <1>2, <3>1
  <2>2. CASE j \in DOMAIN q
    BY <1>2, <1>4, <2>1, <2>2 DEF QuitsLast
  <2>3. CASE j = Len(q) + 1
    <3>1. q[i] \in Datagram /\ q[i].msg = "q" /\ q[i].from = b
      BY <1>1, <1>2, <1>4, <2>1, <2>3
    <3>2. q[i] = [from |-> b, msg |-> "q"]
      BY <3>1 DEF Datagram
    <3>3. HasQuit(q, b)
      BY <2>1, <3>2 DEF HasQuit
    <3> QED
      BY <1>1, <1>2, <1>4, <2>1, <2>3, <3>1, <3>3
  <2> QED
    BY <1>2, <2>2, <2>3
<1> QED
  BY <1>2, <1>3, <1>4 DEF QuitsLast, p, d

\* The oldest datagram of a queue is taken.
LEMMA Take ==
    ASSUME NEW q \in Seq(Datagram), q # <<>>, NEW Doubled
    PROVE  LET p == Tail(q)
               d == Head(q)
           IN  /\ p \in Seq(Datagram) /\ Len(p) <= Len(q)
               /\ d.from \in Node /\ d.msg \in Message
               /\ \A c : HasQuit(q, c) <=> HasQuit(p, c) \/ (d.msg = "q" /\ c = d.from)
               /\ \A c : HasText(q, c) <=> HasText(p, c) \/ (d.msg = "text" /\ c = d.from)
               /\ QuitsLast(q, Doubled) => QuitsLast(p, Doubled)
               /\ QuitsLast(q, Doubled) /\ d.msg = "q" =>
                     ~HasText(p, d.from) /\ (HasQuit(p, d.from) => d.from \in Doubled)
<1> DEFINE p == Tail(q)
           d == Head(q)
<1>1. /\ p \in Seq(Datagram) /\ Len(p) = Len(q) - 1 /\ Len(q) \in Nat /\ Len(q) > 0
      /\ d = q[1] /\ 1 \in DOMAIN q /\ d \in Datagram
      /\ DOMAIN q \subseteq Nat /\ DOMAIN p \subseteq Nat
      /\ \A i \in DOMAIN p : i + 1 \in DOMAIN q /\ p[i] = q[i + 1] /\ 1 < i + 1
      /\ \A i \in DOMAIN q : i # 1 => i - 1 \in DOMAIN p /\ q[i] = p[i - 1]
  OBVIOUS
<1> HIDE DEF p, d
<1>2. d.from \in Node /\ d.msg \in Message /\ d = [from |-> d.from, msg |-> d.msg]
  BY <1>1 DEF Datagram
<1>3. ASSUME NEW e PROVE (\E i \in DOMAIN q : q[i] = e) <=> (\E i \in DOMAIN p : p[i] = e) \/ d = e
  <2>1. ASSUME NEW i \in DOMAIN q, q[i] = e PROVE (\E j \in DOMAIN p : p[j] = e) \/ d = e
    BY <1>1, <2>1
  <2>2. ASSUME NEW i \in DOMAIN p, p[i] = e PROVE \E j \in DOMAIN q : q[j] = e
    BY <1>1, <2>2
  <2>3. d = e => \E j \in DOMAIN q : q[j] = e
    BY <1>1
  <2> QED
    BY <2>1, <2>2, <2>3
<1>4. ASSUME NEW c
      PROVE  /\ HasQuit(q, c) <=> HasQuit(p, c) \/ (d.msg = "q" /\ c = d.from)
             /\ HasText(q, c) <=> HasText(p, c) \/ (d.msg = "text" /\ c = d.from)
  <2>1. d = [from |-> c, msg |-> "q"] <=> d.msg = "q" /\ c = d.from
    BY <1>2
  <2>2. d = [from |-> c, msg |-> "text"] <=> d.msg = "text" /\ c = d.from
    BY <1>2
  <2>3. HasQuit(q, c) <=> HasQuit(p, c) \/ d = [from |-> c, msg |-> "q"]
    BY <1>3 DEF HasQuit
  <2>4. HasText(q, c) <=> HasText(p, c) \/ d = [from |-> c, msg |-> "text"]
    BY <1>3 DEF HasText
  <2> QED
    BY <2>1, <2>2, <2>3, <2>4
<1>5. ASSUME QuitsLast(q, Doubled) PROVE QuitsLast(p, Doubled)
  <2> SUFFICES ASSUME NEW i \in DOMAIN p, NEW j \in DOMAIN p,
                      i < j, p[i].msg = "q", p[j].from = p[i].from
               PROVE  p[j].msg = "q" /\ p[i].from \in Doubled
    BY DEF QuitsLast
  <2>1. /\ i + 1 \in DOMAIN q /\ j + 1 \in DOMAIN q /\ i + 1 < j + 1
        /\ p[i] = q[i + 1] /\ p[j] = q[j + 1]
    BY <1>1
  <2> QED
    BY <1>5, <2>1 DEF QuitsLast
<1>6. ASSUME QuitsLast(q, Doubled), d.msg = "q"
      PROVE  ~HasText(p, d.from) /\ (HasQuit(p, d.from) => d.from \in Doubled)
  <2>1. ASSUME NEW i \in DOMAIN p, p[i].from = d.from
        PROVE  p[i].msg = "q" /\ d.from \in Doubled
    <3>1. i + 1 \in DOMAIN q /\ 1 \in DOMAIN q /\ 1 < i + 1 /\ p[i] = q[i + 1] /\ d = q[1]
      BY <1>1
    <3> QED
      BY <1>6, <2>1, <3>1 DEF QuitsLast
  <2> QED
    BY <2>1 DEF HasText, HasQuit
<1> QED
  BY <1>1, <1>2, <1>4, <1>5, <1>6 DEF p, d

------------------------------------------------------------------------------

\* The processes that c configures with n twice.
DoubledIn(c, n) == {b \in Node : Twice(c[b], n)}

\* b has begun to tell its peers that it ends, or it was killed.
Ending(b) == phase[b] \in {"quitting", "over", "failed"}

\* A quit message of b to n is still to be sent or to be read.
YetToLeave(b, n) ==
    \/ phase[b] \in {"unborn", "looping", "sending"}
    \/ phase[b] = "quitting" /\ Ahead(sockets[b], n, next[b])
    \/ HasQuit(queue[n], b)

\* b has told n that it ends.
Gone(b, n) ==
    /\ Slots(sockets[b], n) # {}
    /\ phase[b] = "over" \/ (phase[b] = "quitting" /\ Passed(sockets[b], n, next[b]))

Blank(n) ==
    /\ phase[n] = "unborn" => config[n] = zeroedConfiguration /\ sockets[n] = <<>>
    /\ ~Up(n) => queue[n] = <<>>
    /\ ~Sending(n) => next[n] = 1

InOrder(n) == QuitsLast(queue[n], DoubledIn(config, n))

\* What CrashNeedsSilence says of the sender b, and that nothing can change it afterwards:
\* b speaks no more.
Excused(b, n) ==
    /\ b \in Node /\ Ending(b)
    /\ \/ Full(sockets[n])
       \/ Wanted(config[b], n) # {} /\ <<b, n>> \notin spoken
       \/ Twice(config[b], n)

Caused(n) == phase[n] = "crashed" => Excused(cause[n], n)

\* Only the configuration gives a process two slots for one peer.
OneSlot(b, n) == Twice(config[b], n) \/ Single(sockets[b], n)

SpokenOfBorn(b, n) == <<b, n>> \in spoken => phase[b] # "unborn" /\ phase[n] # "unborn"

QuitIsLate(b, n) ==
    HasQuit(queue[n], b) =>
        /\ Ending(b) /\ Slots(sockets[b], n) # {}
        /\ phase[b] = "quitting" => Passed(sockets[b], n, next[b])

TextIsSpoken(b, n) == HasText(queue[n], b) => <<b, n>> \in spoken

\* A slot comes from the configuration or from a line that was received.
KnownBySpeech(b, n) ==
    Slots(sockets[b], n) # {} => Wanted(config[b], n) # {} \/ <<n, b>> \in spoken

\* After a line in either direction n knows b, or is about to, until b has left.
Acquainted(b, n) ==
    /\ Up(n) /\ YetToLeave(b, n) /\ ~Twice(config[b], n)
    /\ <<b, n>> \in spoken \/ <<n, b>> \in spoken
    => Slots(sockets[n], b) # {} \/ Full(sockets[n]) \/ HasText(queue[n], b)

\* While n has a slot for b or will get one, the quit message of b is not yet read.
GoneIsTold(b, n) ==
    Gone(b, n) =>
        /\ phase[n] # "unborn"
        /\ Up(n) =>
              /\ HasText(queue[n], b) => HasQuit(queue[n], b)
              /\ ~Twice(config[n], b) /\ Slots(sockets[n], b) # {} => HasQuit(queue[n], b)

ProcessInv(n) == Blank(n) /\ InOrder(n) /\ Caused(n)

PairInv(b, n) ==
    /\ OneSlot(b, n) /\ SpokenOfBorn(b, n)
    /\ QuitIsLate(b, n) /\ TextIsSpoken(b, n)
    /\ KnownBySpeech(b, n) /\ Acquainted(b, n)
    /\ GoneIsTold(b, n)

UnixInv ==
    /\ TypeOK
    /\ \A n \in Node : ProcessInv(n)
    /\ \A b, n \in Node : PairInv(b, n)

------------------------------------------------------------------------------

\* A configuration without remotes names none.
LEMMA NothingWanted ==
    ASSUME NEW r
    PROVE  Wanted(zeroedConfiguration, r) = {} /\ ~Twice(zeroedConfiguration, r)
<1>1. zeroedConfiguration.remotes = <<>>
  BY DEF zeroedConfiguration
<1>2. Wanted(zeroedConfiguration, r) = {}
  BY <1>1 DEF Wanted
<1>3. Cardinality({}) = 0
  BY FS_EmptySet
<1> QED
  BY <1>2, <1>3 DEF Twice

LEMMA Initially == Init => UnixInv
<1> SUFFICES ASSUME Init PROVE UnixInv
  OBVIOUS
<1>1. /\ zeroedConfiguration \in Configuration(Path) /\ <<>> \in Socket /\ <<>> \in Seq(Datagram)
      /\ Len(<<>>) = 0
  <2>1. <<>> \in Seq(IPSocket(Path)) /\ <<>> \in Seq(Path \cup {NoPath}) /\ <<>> \in Seq(Datagram)
    OBVIOUS
  <2>2. zeroedConfiguration \in Configuration(Path)
    BY <2>1 DEF zeroedConfiguration, Configuration
  <2> QED
    BY <2>1, <2>2 DEF Socket
<1>2. TypeOK
  <2>1. 1 \in 1 .. peers_max_count + 1
    OBVIOUS
  <2>2. \A n \in Node : Len(queue[n]) <= QueueLimit
    BY <1>1 DEF Init
  <2> QED
    BY <1>1, <2>1, <2>2 DEF Init, TypeOK
<1>3. ASSUME NEW n \in Node
      PROVE  /\ phase[n] = "unborn" /\ config[n] = zeroedConfiguration /\ sockets[n] = <<>>
             /\ next[n] = 1 /\ queue[n] = <<>> /\ spoken = {}
  BY DEF Init
<1>4. ASSUME NEW n \in Node PROVE ProcessInv(n)
  BY <1>3 DEF ProcessInv, Blank, InOrder, Caused, QuitsLast, Up, Sending
<1>5. ASSUME NEW b \in Node, NEW n \in Node PROVE PairInv(b, n)
  <2>1. Slots(sockets[b], n) = {} /\ ~HasQuit(queue[n], b) /\ ~HasText(queue[n], b)
    BY <1>3 DEF Slots, HasQuit, HasText
  <2> QED
    BY <1>3, <2>1 DEF PairInv, OneSlot, SpokenOfBorn, QuitIsLate, TextIsSpoken,
       KnownBySpeech, Acquainted, GoneIsTold, Gone, Single, Up
<1> QED
  BY <1>2, <1>4, <1>5 DEF UnixInv

\* A process that has not yet begun to leave turns to something else.
LEMMA TurnKeeps ==
    ASSUME UnixInv, NEW n \in Node, phase[n] \in {"looping", "sending"},
           NEW p \in {"looping", "sending", "quitting"},
           phase' = [phase EXCEPT ![n] = p], next' = [next EXCEPT ![n] = 1],
           UNCHANGED <<written, config, sockets, queue, spoken, cause>>
    PROVE  UnixInv'
<1>1. /\ TypeOK /\ \A m \in Node : ProcessInv(m) /\ \A b \in Node : PairInv(b, m)
  BY DEF UnixInv
<1>2. ASSUME NEW m \in Node
      PROVE  /\ phase'[m] = IF m = n THEN p ELSE phase[m]
             /\ next'[m] = IF m = n THEN 1 ELSE next[m]
  BY <1>1 DEF TypeOK
<1>3. TypeOK'
  <2>1. 1 \in 1 .. peers_max_count + 1
    OBVIOUS
  <2> QED
    BY <1>1, <2>1 DEF TypeOK
<1>4. ASSUME NEW m \in Node
      PROVE  /\ (Ending(m)' <=> IF m = n THEN p = "quitting" ELSE Ending(m))
             /\ (Up(m)' <=> Up(m)) /\ (Ending(n) <=> FALSE)
             /\ (phase'[m] = "unborn" <=> phase[m] = "unborn")
             /\ (phase'[m] = "crashed" <=> phase[m] = "crashed")
             /\ (Ending(m) => Ending(m)')
  BY <1>2 DEF Ending, Up
<1>5. ASSUME NEW m \in Node PROVE ProcessInv(m)'
  <2>1. Blank(m) /\ InOrder(m) /\ Caused(m)
    BY <1>1 DEF ProcessInv
  <2>2. Blank(m)'
    BY <1>2, <1>4, <2>1 DEF Blank, Sending
  <2>3. InOrder(m)'
    BY <2>1 DEF InOrder
  <2>4. Caused(m)'
    BY <1>4, <2>1 DEF Caused, Excused
  <2> QED
    BY <2>2, <2>3, <2>4 DEF ProcessInv
<1>6. ASSUME NEW b \in Node, NEW m \in Node PROVE PairInv(b, m)'
  <2>1. /\ OneSlot(b, m) /\ SpokenOfBorn(b, m) /\ QuitIsLate(b, m) /\ TextIsSpoken(b, m)
        /\ KnownBySpeech(b, m) /\ Acquainted(b, m) /\ GoneIsTold(b, m)
    BY <1>1 DEF PairInv
  <2>2. OneSlot(b, m)' /\ SpokenOfBorn(b, m)' /\ TextIsSpoken(b, m)' /\ KnownBySpeech(b, m)'
    BY <1>4, <2>1 DEF OneSlot, SpokenOfBorn, TextIsSpoken, KnownBySpeech
  <2>3. QuitIsLate(b, m)'
    BY <1>2, <1>4, <2>1 DEF QuitIsLate
  <2>4. YetToLeave(b, m)' => YetToLeave(b, m)
    BY <1>2 DEF YetToLeave
  <2>5. Acquainted(b, m)'
    BY <1>4, <2>1, <2>4 DEF Acquainted
  <2>6. Gone(b, m)' => Gone(b, m)
    <3>1. ~Passed(sockets[b], m, 1)
      <4>1. sockets[b] \in Socket
        BY <1>1 DEF TypeOK
      <4> QED
        BY <4>1 DEF Passed, Slots, Socket
    <3> QED
      BY <1>2, <3>1 DEF Gone
  <2>7. GoneIsTold(b, m)'
    BY <1>4, <2>1, <2>6 DEF GoneIsTold
  <2> QED
    BY <2>2, <2>3, <2>5, <2>7 DEF PairInv
<1> QED
  BY <1>3, <1>5, <1>6 DEF UnixInv

\* A process ends, in whichever way.
LEMMA LeaveKeeps ==
    ASSUME UnixInv, NEW n \in Node, Up(n), NEW how \in {"over", "failed", "crashed"},
           how = "over" => phase[n] = "quitting" /\ ToCome(n) = {},
           how = "crashed" => phase[n] = "looping" /\ Excused(cause'[n], n),
           phase' = [phase EXCEPT ![n] = how], queue' = [queue EXCEPT ![n] = <<>>],
           next' = [next EXCEPT ![n] = 1],
           cause' \in [Node -> Node \cup {NoPath}],
           \A m \in Node \ {n} : cause'[m] = cause[m],
           UNCHANGED <<written, config, sockets, spoken>>
    PROVE  UnixInv'
<1>1. /\ TypeOK /\ \A m \in Node : ProcessInv(m) /\ \A b \in Node : PairInv(b, m)
  BY DEF UnixInv
<1>2. ASSUME NEW m \in Node
      PROVE  /\ phase'[m] = IF m = n THEN how ELSE phase[m]
             /\ next'[m] = IF m = n THEN 1 ELSE next[m]
             /\ queue'[m] = IF m = n THEN <<>> ELSE queue[m]
  BY <1>1 DEF TypeOK
<1>3. TypeOK'
  <2>1. 1 \in 1 .. peers_max_count + 1 /\ <<>> \in Seq(Datagram) /\ Len(<<>>) <= QueueLimit
    OBVIOUS
  <2>2. \A m \in Node : Len(queue'[m]) <= QueueLimit
    BY <1>1, <1>2, <2>1 DEF TypeOK
  <2> QED
    BY <1>1, <2>1, <2>2 DEF TypeOK
<1>4. ASSUME NEW m \in Node
      PROVE  /\ (Up(m)' <=> Up(m) /\ m # n)
             /\ (phase'[m] = "unborn" <=> phase[m] = "unborn")
             /\ (phase'[m] = "crashed" => phase[m] = "crashed" \/ m = n)
             /\ (Ending(m) => Ending(m)')
             /\ \A b : (HasQuit(queue[m], b)' <=> HasQuit(queue[m], b) /\ m # n)
             /\ \A b : (HasText(queue[m], b)' <=> HasText(queue[m], b) /\ m # n)
  <2>1. DOMAIN <<>> = {}
    OBVIOUS
  <2>2. /\ \A b : (HasQuit(queue[m], b)' <=> HasQuit(queue[m], b) /\ m # n)
        /\ \A b : (HasText(queue[m], b)' <=> HasText(queue[m], b) /\ m # n)
    BY <1>2, <2>1 DEF HasQuit, HasText
  <2> QED
    BY <1>2, <2>2 DEF Ending, Up
<1>5. ASSUME NEW m \in Node PROVE ProcessInv(m)'
  <2>1. Blank(m) /\ InOrder(m) /\ Caused(m)
    BY <1>1 DEF ProcessInv
  <2>2. Blank(m)'
    BY <1>2, <1>4, <2>1 DEF Blank, Sending, Up
  <2>3. InOrder(m)'
    BY <1>2, <2>1 DEF InOrder, QuitsLast
  <2>4. Caused(m)'
    <3>1. CASE m = n
      BY <1>2, <1>4, <3>1 DEF Caused, Excused
    <3>2. CASE m # n
      BY <1>2, <1>4, <2>1, <3>2 DEF Caused, Excused
    <3> QED
      BY <3>1, <3>2
  <2> QED
    BY <2>2, <2>3, <2>4 DEF ProcessInv
<1>6. ASSUME NEW b \in Node, NEW m \in Node PROVE PairInv(b, m)'
  <2>1. /\ OneSlot(b, m) /\ SpokenOfBorn(b, m) /\ QuitIsLate(b, m) /\ TextIsSpoken(b, m)
        /\ KnownBySpeech(b, m) /\ Acquainted(b, m) /\ GoneIsTold(b, m)
    BY <1>1 DEF PairInv
  <2>2. OneSlot(b, m)' /\ SpokenOfBorn(b, m)' /\ TextIsSpoken(b, m)' /\ KnownBySpeech(b, m)'
    BY <1>4, <2>1 DEF OneSlot, SpokenOfBorn, TextIsSpoken, KnownBySpeech
  <2>3. QuitIsLate(b, m)'
    BY <1>2, <1>4, <2>1 DEF QuitIsLate
  <2>4. Up(m)' /\ YetToLeave(b, m)' => YetToLeave(b, m)
    BY <1>2, <1>4 DEF YetToLeave
  <2>5. Acquainted(b, m)'
    BY <1>4, <2>1, <2>4 DEF Acquainted
  <2>6. Gone(b, m)' => Gone(b, m)
    <3>1. ~Passed(sockets[b], m, 1)
      <4>1. sockets[b] \in Socket
        BY <1>1 DEF TypeOK
      <4> QED
        BY <4>1 DEF Passed, Slots, Socket
    <3>2. ASSUME b = n, how = "over", Slots(sockets[n], m) # {}
          PROVE  Passed(sockets[n], m, next[n])
      <4>1. sockets[n] \in Socket /\ next[n] \in Nat
        BY <1>1 DEF TypeOK
      <4>2. PICK k \in Slots(sockets[n], m) : TRUE
        BY <3>2
      <4>3. k \in Occupied(sockets[n]) /\ k \in Nat
        BY <4>1, <4>2 DEF Slots, Occupied, Socket, Node
      <4>4. ~(k >= next[n])
        BY <3>2, <4>3 DEF ToCome
      <4> QED
        BY <4>1, <4>2, <4>3, <4>4 DEF Passed
    <3>3. CASE b = n
      BY <1>2, <3>2, <3>3 DEF Gone
    <3>4. CASE b # n
      BY <1>2, <3>4 DEF Gone
    <3> QED
      BY <3>3, <3>4
  <2>7. GoneIsTold(b, m)'
    BY <1>4, <2>1, <2>6 DEF GoneIsTold
  <2> QED
    BY <2>2, <2>3, <2>5, <2>7 DEF PairInv
<1> QED
  BY <1>3, <1>5, <1>6 DEF UnixInv

\* The quit message of a sender without a slot: a line in either direction would have made
\* the sender known, and its lines are in front of its quit message.
LEMMA CrashIsCaused ==
    ASSUME UnixInv, NEW n \in Node, phase[n] = "looping", queue[n] # <<>>,
           QuitFromStranger(sockets[n], Head(queue[n]).from, Head(queue[n]).msg)
    PROVE  Excused(Head(queue[n]).from, n)
<1> DEFINE b == Head(queue[n]).from
<1>1. /\ sockets[n] \in Socket /\ queue[n] \in Seq(Datagram) /\ InOrder(n)
  BY DEF UnixInv, TypeOK, ProcessInv
<1>2. /\ b \in Node /\ HasQuit(queue[n], b) /\ ~HasText(queue[n], b)
  <2>1. Head(queue[n]).msg = "q"
    BY DEF QuitFromStranger
  <2>2. QuitsLast(queue[n], DoubledIn(config, n))
    BY <1>1 DEF InOrder
  <2> QED
    BY <1>1, <2>1, <2>2, Take
<1>3. Slots(sockets[n], b) = {}
  BY <1>1, FindPeer DEF QuitFromStranger
<1>4. /\ QuitIsLate(b, n) /\ KnownBySpeech(b, n) /\ Acquainted(b, n)
  BY <1>2 DEF UnixInv, PairInv
<1>5. Ending(b) /\ Slots(sockets[b], n) # {}
  BY <1>2, <1>4 DEF QuitIsLate
<1>6. ~Twice(config[b], n) /\ ~Full(sockets[n]) => <<b, n>> \notin spoken /\ <<n, b>> \notin spoken
  <2>1. Up(n) /\ YetToLeave(b, n)
    BY <1>2 DEF Up, YetToLeave
  <2> QED
    BY <1>2, <1>3, <1>4, <2>1 DEF Acquainted
<1> QED
  BY <1>2, <1>4, <1>5, <1>6 DEF Excused, KnownBySpeech

\* A process begins: it has the slots that its configuration gives it, and nobody has heard
\* of it or told it anything.
LEMMA BeginKeeps ==
    ASSUME UnixInv, NEW n \in Node, NEW items \in CommandLine, Begin(n, items)
    PROVE  UnixInv'
<1> DEFINE parsed == createNetworkConfiguration(Args(items))
           s == connectSocketUnix(parsed.remotes)
<1>1. /\ TypeOK /\ \A m \in Node : ProcessInv(m) /\ \A b \in Node : PairInv(b, m)
  BY DEF UnixInv
<1>2. /\ phase[n] = "unborn" /\ parsed.protocol = "unix"
      /\ phase' = [phase EXCEPT ![n] = "looping"]
      /\ written' = [written EXCEPT ![n] = items]
      /\ config' = [config EXCEPT ![n] = parsed]
      /\ sockets' = [sockets EXCEPT ![n] = s]
      /\ UNCHANGED <<next, queue, spoken, cause>>
  BY DEF Begin
<1>3. parsed \in Configuration(Path) /\ parsed.remotes \in Seq(IPSocket(Path))
  <2>1. parsed \in Configuration(STRING \cup Nat)
    <3>1. Args(items) \in Seq(Token)
      BY LineAssumption, ArgsOfItems
    <3> QED
      BY <3>1, Parsed
  <2>2. /\ \A k \in DOMAIN parsed.locals : parsed.locals[k].addr \in Path
        /\ \A k \in DOMAIN parsed.remotes : parsed.remotes[k].addr \in Path
    BY AddressAssumption
  <2> HIDE DEF parsed
  <2> QED
    BY <2>1, <2>2, WellAddressed DEF Configuration
<1> HIDE DEF parsed
<1>4. s \in Socket /\ \A r \in Node : Slots(s, r) \subseteq Wanted(parsed, r)
  BY <1>3, Connected DEF Wanted, Node
<1> HIDE DEF s
<1>5. ASSUME NEW m \in Node
      PROVE  /\ phase'[m] = IF m = n THEN "looping" ELSE phase[m]
             /\ config'[m] = IF m = n THEN parsed ELSE config[m]
             /\ sockets'[m] = IF m = n THEN s ELSE sockets[m]
             /\ queue'[m] = queue[m] /\ next'[m] = next[m]
  BY <1>1, <1>2 DEF TypeOK
<1>6. TypeOK'
  BY <1>1, <1>2, <1>3, <1>4 DEF TypeOK
<1>7. ASSUME NEW m \in Node
      PROVE  /\ (Ending(m)' <=> Ending(m)) /\ (Ending(m) => m # n)
             /\ (Up(m)' <=> Up(m) \/ m = n)
             /\ (phase'[m] = "unborn" => phase[m] = "unborn")
             /\ (phase'[m] = "crashed" => phase[m] = "crashed" /\ m # n)
             /\ (HasQuit(queue[m], n) <=> FALSE)
  <2>1. ~Ending(n)
    BY <1>2 DEF Ending
  <2>2. ~HasQuit(queue[m], n)
    BY <1>1, <2>1 DEF PairInv, QuitIsLate
  <2> QED
    BY <1>2, <1>5, <2>1, <2>2 DEF Ending, Up
<1>8. ~Up(n) /\ config[n] = zeroedConfiguration /\ sockets[n] = <<>> /\ next[n] = 1
  BY <1>1, <1>2 DEF ProcessInv, Blank, Up, Sending
<1>9. ASSUME NEW m \in Node PROVE ProcessInv(m)'
  <2>1. Blank(m) /\ InOrder(m) /\ Caused(m)
    BY <1>1 DEF ProcessInv
  <2>2. Blank(m)'
    BY <1>2, <1>5, <1>7, <1>8, <2>1 DEF Blank, Sending
  <2>3. DoubledIn(config, m) \subseteq DoubledIn(config', m)
    <3>1. ASSUME NEW b \in Node, Twice(config[b], m) PROVE Twice(config'[b], m)
      BY <1>5, <1>8, <3>1, NothingWanted
    <3> QED
      BY <3>1 DEF DoubledIn
  <2>4. InOrder(m)'
    <3>1. QuitsLast(queue[m], DoubledIn(config, m))
      BY <2>1 DEF InOrder
    <3>2. QuitsLast(queue[m], DoubledIn(config', m))
      BY <2>3, <3>1 DEF QuitsLast
    <3> QED
      BY <1>5, <3>2 DEF InOrder
  <2>5. Caused(m)'
    <3> SUFFICES ASSUME NEW b \in {cause[m]}, phase'[m] = "crashed" PROVE Excused(b, m)'
      BY <1>2 DEF Caused, Excused, Ending
    <3>1. Excused(b, m) /\ m # n
      BY <1>7, <2>1 DEF Caused
    <3>2. b \in Node /\ b # n /\ Ending(b)'
      BY <1>7, <3>1 DEF Excused
    <3> QED
      BY <1>2, <1>5, <3>1, <3>2 DEF Excused
  <2> QED
    BY <2>2, <2>4, <2>5 DEF ProcessInv
<1>10. ASSUME NEW b \in Node, NEW m \in Node PROVE PairInv(b, m)'
  <2>1. /\ OneSlot(b, m) /\ SpokenOfBorn(b, m) /\ QuitIsLate(b, m) /\ TextIsSpoken(b, m)
        /\ KnownBySpeech(b, m) /\ Acquainted(b, m) /\ GoneIsTold(b, m)
        /\ SpokenOfBorn(m, b)
    BY <1>1 DEF PairInv
  <2>2. OneSlot(b, m)'
    <3>1. CASE b = n
      <4>1. IsFiniteSet(Wanted(parsed, m))
        <5>1. IsFiniteSet(1 .. Len(parsed.remotes))
          <6>1. 1 \in Int /\ Len(parsed.remotes) \in Int
            BY <1>3
          <6> QED
            BY <6>1, FS_Interval
        <5>2. Wanted(parsed, m) \subseteq 1 .. Len(parsed.remotes)
          BY <1>3 DEF Wanted
        <5> QED
          BY <5>1, <5>2, FS_Subset
      <4>2. Twice(parsed, m) \/ Single(s, m)
        BY <1>4, <4>1, OneAtMost DEF Twice, Single
      <4> QED
        BY <1>5, <3>1, <4>2 DEF OneSlot
    <3>2. CASE b # n
      BY <1>5, <2>1, <3>2 DEF OneSlot
    <3> QED
      BY <3>1, <3>2
  <2>3. SpokenOfBorn(b, m)' /\ TextIsSpoken(b, m)'
    BY <1>2, <1>5, <1>7, <2>1 DEF SpokenOfBorn, TextIsSpoken
  <2>4. QuitIsLate(b, m)'
    BY <1>5, <1>7, <2>1 DEF QuitIsLate
  <2>5. KnownBySpeech(b, m)'
    <3>1. CASE b = n
      BY <1>4, <1>5, <3>1 DEF KnownBySpeech
    <3>2. CASE b # n
      BY <1>2, <1>5, <2>1, <3>2 DEF KnownBySpeech
    <3> QED
      BY <3>1, <3>2
  <2>6. Acquainted(b, m)'
    <3>1. CASE b = n \/ m = n
      BY <1>2, <2>1, <3>1 DEF Acquainted, SpokenOfBorn
    <3>2. CASE b # n /\ m # n
      BY <1>2, <1>5, <1>7, <2>1, <3>2 DEF Acquainted, YetToLeave
    <3> QED
      BY <3>1, <3>2
  <2>7. GoneIsTold(b, m)'
    <3>1. CASE b = n
      BY <1>5, <3>1 DEF GoneIsTold, Gone
    <3>2. CASE b # n
      <4>1. Gone(b, m)' <=> Gone(b, m)
        BY <1>5, <3>2 DEF Gone
      <4>2. Gone(b, m) => m # n
        BY <1>2, <2>1 DEF GoneIsTold
      <4> QED
        BY <1>5, <1>7, <2>1, <4>1, <4>2 DEF GoneIsTold
    <3> QED
      BY <3>1, <3>2
  <2> QED
    BY <2>2, <2>3, <2>4, <2>5, <2>6, <2>7 DEF PairInv
<1> QED
  BY <1>6, <1>9, <1>10 DEF UnixInv

\* A process reads a datagram and does not crash at it.
LEMMA ReceiveKeeps ==
    ASSUME UnixInv, NEW n \in Node, phase[n] = "looping", queue[n] # <<>>,
           NEW from, from = Head(queue[n]).from, NEW msg, msg = Head(queue[n]).msg,
           ~QuitFromStranger(sockets[n], from, msg),
           sockets' = [sockets EXCEPT ![n] = handleMessageUnix(sockets[n], from, msg)],
           queue' = [queue EXCEPT ![n] = Tail(queue[n])],
           UNCHANGED <<phase, written, config, next, spoken, cause>>
    PROVE  UnixInv'
<1> DEFINE t == handleMessageUnix(sockets[n], from, msg)
           q == queue[n]
           p == Tail(q)
<1>1. /\ TypeOK /\ \A m \in Node : ProcessInv(m) /\ \A b \in Node : PairInv(b, m)
  BY DEF UnixInv
<1>2. /\ p \in Seq(Datagram) /\ Len(p) <= Len(q)
      /\ from \in Node /\ msg \in Message
      /\ \A c : HasQuit(q, c) <=> HasQuit(p, c) \/ (msg = "q" /\ c = from)
      /\ \A c : HasText(q, c) <=> HasText(p, c) \/ (msg = "text" /\ c = from)
      /\ QuitsLast(p, DoubledIn(config, n))
      /\ msg = "q" =>
            ~HasText(p, from) /\ (HasQuit(p, from) => from \in DoubledIn(config, n))
  <2>1. q \in Seq(Datagram) /\ q # <<>>
    BY <1>1 DEF TypeOK
  <2>2. QuitsLast(q, DoubledIn(config, n))
    BY <1>1 DEF ProcessInv, InOrder
  <2> HIDE DEF q
  <2> QED
    BY <2>1, <2>2, Take DEF q
<1>3. /\ t \in Socket
      /\ Full(sockets[n]) => Full(t)
      /\ \A c \in Node : c # from => Slots(t, c) = Slots(sockets[n], c)
      /\ Single(sockets[n], from) => Single(t, from)
      /\ msg # "q" => Slots(t, from) # {} \/ Full(t)
      /\ msg # "q" /\ Slots(sockets[n], from) # {} => Slots(t, from) = Slots(sockets[n], from)
      /\ msg = "q" => Slots(t, from) \subseteq Slots(sockets[n], from)
      /\ msg = "q" /\ Single(sockets[n], from) => Slots(t, from) = {}
  <2>1. sockets[n] \in Socket
    BY <1>1 DEF TypeOK
  <2> QED
    BY <1>2, <2>1, HandleMessage DEF Node
<1> HIDE DEF t, p, q
<1>4. ASSUME NEW m \in Node
      PROVE  /\ sockets'[m] = IF m = n THEN t ELSE sockets[m]
             /\ queue'[m] = IF m = n THEN p ELSE queue[m]
             /\ phase'[m] = phase[m] /\ config'[m] = config[m] /\ next'[m] = next[m]
  BY <1>1 DEF TypeOK, t, p, q
<1>5. TypeOK'
  <2>1. \A m \in Node : Len(queue'[m]) <= QueueLimit
    <3>1. ASSUME NEW m \in Node PROVE Len(queue[m]) <= QueueLimit /\ Len(queue[m]) \in Nat
      BY <1>1 DEF TypeOK
    <3>2. Len(p) \in Nat
      BY <1>2
    <3> QED
      BY <1>2, <1>4, <3>1, <3>2 DEF q
  <2> QED
    BY <1>1, <1>2, <1>3, <2>1 DEF TypeOK, t, p, q
<1>6. ASSUME NEW m \in Node
      PROVE  /\ (Ending(m)' <=> Ending(m)) /\ (Ending(m) => m # n)
             /\ (Up(m)' <=> Up(m)) /\ Up(n)
             /\ \A b : HasQuit(queue'[m], b) => HasQuit(queue[m], b)
             /\ \A b : HasText(queue'[m], b) => HasText(queue[m], b)
  BY <1>2, <1>4 DEF Ending, Up, q
<1>7. ASSUME NEW m \in Node PROVE ProcessInv(m)'
  <2>1. Blank(m) /\ InOrder(m) /\ Caused(m)
    BY <1>1 DEF ProcessInv
  <2>2. Blank(m)'
    BY <1>4, <1>6, <2>1 DEF Blank, Sending
  <2>3. InOrder(m)'
    BY <1>2, <1>4, <2>1 DEF InOrder
  <2>4. Caused(m)'
    BY <1>4, <2>1 DEF Caused, Excused, Ending
  <2> QED
    BY <2>2, <2>3, <2>4 DEF ProcessInv
<1>8. ASSUME NEW b \in Node, NEW m \in Node PROVE PairInv(b, m)'
  <2>1. /\ OneSlot(b, m) /\ SpokenOfBorn(b, m) /\ QuitIsLate(b, m) /\ TextIsSpoken(b, m)
        /\ KnownBySpeech(b, m) /\ Acquainted(b, m) /\ GoneIsTold(b, m)
    BY <1>1 DEF PairInv
  <2>2. OneSlot(b, m)'
    <3>1. Single(sockets[b], m) => Single(sockets'[b], m)
      BY <1>3, <1>4 DEF Single
    <3> QED
      BY <1>4, <2>1, <3>1 DEF OneSlot
  <2>3. SpokenOfBorn(b, m)' /\ TextIsSpoken(b, m)'
    BY <1>4, <1>6, <2>1 DEF SpokenOfBorn, TextIsSpoken
  <2>4. QuitIsLate(b, m)'
    BY <1>4, <1>6, <2>1 DEF QuitIsLate
  <2>5. KnownBySpeech(b, m)'
    <3>1. CASE b = n /\ m = from /\ msg = "text"
      <4>1. TextIsSpoken(from, n) /\ HasText(queue[n], from)
        BY <1>1, <1>2, <3>1 DEF PairInv, q
      <4> QED
        BY <3>1, <4>1 DEF TextIsSpoken, KnownBySpeech
    <3>2. CASE b # n \/ m # from \/ msg = "q"
      <4>1. Slots(sockets'[b], m) \subseteq Slots(sockets[b], m)
        BY <1>3, <1>4, <3>2
      <4> QED
        BY <1>4, <2>1, <4>1 DEF KnownBySpeech
    <3> QED
      BY <1>2, <3>1, <3>2 DEF Message
  <2>6. YetToLeave(b, m)' => YetToLeave(b, m)
    <3>1. Ending(b) => sockets'[b] = sockets[b]
      BY <1>4, <1>6
    <3> QED
      BY <1>4, <1>6, <3>1 DEF YetToLeave, Ending
  <2>7. Acquainted(b, m)'
    <3>1. CASE m = n /\ b = from /\ msg = "q"
      <4>1. QuitIsLate(b, n) /\ OneSlot(b, n) /\ HasQuit(queue[n], b)
        BY <1>1, <1>2, <3>1 DEF PairInv, q
      <4>2. /\ Ending(b) /\ sockets'[b] = sockets[b] /\ b # n
            /\ phase[b] = "quitting" => Passed(sockets[b], n, next[b])
        BY <1>4, <1>6, <4>1 DEF QuitIsLate
      <4>3. ASSUME ~Twice(config[b], n) PROVE ~YetToLeave(b, n)'
        <5>1. ~HasQuit(p, b)
          BY <1>2, <3>1, <4>3 DEF DoubledIn
        <5>2. ~(phase[b] = "quitting" /\ Ahead(sockets[b], n, next[b]))
          <6>1. sockets[b] \in Socket /\ next[b] \in Nat /\ Single(sockets[b], n)
            BY <1>1, <4>1, <4>3 DEF OneSlot, TypeOK
          <6>2. Slots(sockets[b], n) \subseteq Nat
            BY <6>1 DEF Slots, Socket
          <6> QED
            BY <4>2, <6>1, <6>2 DEF Passed, Ahead, Single
        <5> QED
          BY <1>4, <4>2, <5>1, <5>2 DEF YetToLeave, Ending
      <4> QED
        BY <1>4, <3>1, <4>3 DEF Acquainted
    <3>2. CASE m = n /\ b = from /\ msg # "q"
      BY <1>3, <1>4, <3>2 DEF Acquainted
    <3>3. CASE m # n \/ b # from
      <4>1. /\ Slots(sockets'[m], b) = Slots(sockets[m], b)
            /\ Full(sockets[m]) => Full(sockets'[m])
            /\ HasText(queue[m], b) => HasText(queue'[m], b)
        BY <1>2, <1>3, <1>4, <3>3 DEF q
      <4> QED
        BY <1>4, <1>6, <2>1, <2>6, <4>1 DEF Acquainted
    <3> QED
      BY <3>1, <3>2, <3>3
  <2>8. GoneIsTold(b, m)'
    <3> SUFFICES ASSUME Gone(b, m)' PROVE GoneIsTold(b, m)'
      BY DEF GoneIsTold
    <3>1. Gone(b, m) /\ b # n
      BY <1>4 DEF Gone
    <3>2. CASE m = n /\ b = from /\ msg = "q"
      <4>1. ~HasText(p, b)
        BY <1>2, <3>2
      <4>2. ~Twice(config[n], b) => Slots(t, b) = {}
        BY <1>1, <1>3, <3>2 DEF PairInv, OneSlot
      <4> QED
        BY <1>4, <2>1, <3>1, <3>2, <4>1, <4>2 DEF GoneIsTold
    <3>3. CASE m = n /\ b = from /\ msg # "q"
      <4>1. HasText(queue[n], b)
        BY <1>2, <3>3 DEF q, Message
      <4>2. HasQuit(p, b)
        BY <1>2, <1>6, <2>1, <3>1, <3>3, <4>1 DEF GoneIsTold, q
      <4> QED
        BY <1>4, <2>1, <3>1, <3>3, <4>2 DEF GoneIsTold
    <3>4. CASE m # n \/ b # from
      <4>1. /\ Slots(sockets'[m], b) = Slots(sockets[m], b)
            /\ HasText(queue[m], b) <=> HasText(queue'[m], b)
            /\ HasQuit(queue[m], b) <=> HasQuit(queue'[m], b)
        BY <1>2, <1>3, <1>4, <3>4 DEF q
      <4> QED
        BY <1>4, <1>6, <2>1, <3>1, <4>1 DEF GoneIsTold
    <3> QED
      BY <3>2, <3>3, <3>4
  <2> QED
    BY <2>2, <2>3, <2>4, <2>5, <2>7, <2>8 DEF PairInv
<1> QED
  BY <1>5, <1>7, <1>8 DEF UnixInv

\* A process sends its message to the peer in slot k, the next one that it comes to.
LEMMA SendToKeeps ==
    ASSUME UnixInv, NEW n \in Node, NEW k \in ToCome(n), SendTo(n, k)
    PROVE  UnixInv'
<1> DEFINE r == sockets[n][k]
           msg == MessageOf(n)
           q == Append(queue[r], [from |-> n, msg |-> msg])
<1>1. /\ TypeOK /\ \A m \in Node : ProcessInv(m) /\ \A b \in Node : PairInv(b, m)
  BY DEF UnixInv
<1>2. /\ phase[n] \in {"sending", "quitting"} /\ k = Min(ToCome(n))
      /\ Up(r) /\ Len(queue[r]) < QueueLimit
      /\ queue' = [queue EXCEPT ![r] = q]
      /\ spoken' = IF phase[n] = "sending" THEN spoken \cup {<<n, r>>} ELSE spoken
      /\ next' = [next EXCEPT ![n] = k + 1]
      /\ UNCHANGED <<phase, written, config, sockets, cause>>
  BY DEF SendTo, Sending, Reachable
<1>3. /\ next[n] \in Nat /\ k \in Nat /\ k \in 1 .. peers_max_count /\ next[n] <= k
      /\ r \in Node /\ k \in Slots(sockets[n], r)
      /\ \A m \in Node : Slots(sockets[n], m) \subseteq Nat
  <2>1. /\ sockets[n] \in Seq(Path \cup {NoPath}) /\ Len(sockets[n]) <= peers_max_count
        /\ next[n] \in Nat
    BY <1>1 DEF TypeOK, Socket
  <2>2. k \in DOMAIN sockets[n] /\ r # NoPath /\ k >= next[n]
    BY DEF ToCome, Occupied
  <2> QED
    BY <2>1, <2>2 DEF Slots, Node
<1>4. ASSUME NEW m \in Node, NEW j \in Slots(sockets[n], m), j < k + 1, ~(j < next[n])
      PROVE  j = k
  <2>1. ToCome(n) \in SUBSET Nat /\ ToCome(n) # {}
    <3>1. sockets[n] \in Seq(Path \cup {NoPath})
      BY <1>1 DEF TypeOK, Socket
    <3> QED
      BY <3>1 DEF ToCome, Occupied
  <2>2. \E l \in ToCome(n) : \A i \in ToCome(n) : l <= i
    <3> DEFINE S == ToCome(n)
    <3>1. S \in SUBSET Nat /\ S # {}
      BY <2>1
    <3> HIDE DEF S
    <3>2. \E l \in S : \A i \in S : l <= i
      BY <3>1, LeastElement
    <3> QED
      BY <3>2 DEF S
  <2>3. \A i \in ToCome(n) : k <= i
    BY <1>2, <2>2 DEF Min
  <2>4. j \in ToCome(n)
    BY <1>3, <1>4 DEF ToCome, Occupied, Slots, Node
  <2> QED
    BY <1>3, <1>4, <2>3, <2>4
<1>5. msg \in Message /\ (msg = "q" <=> phase[n] = "quitting") /\ (msg = "text" <=> phase[n] = "sending")
  BY <1>2 DEF MessageOf, Message
<1> HIDE DEF r, msg
\* Only a second slot could get the peer a second quit message.
<1>6. HasQuit(queue[r], n) => msg = "q" /\ n \in DoubledIn(config, r)
  <2> SUFFICES ASSUME HasQuit(queue[r], n) PROVE msg = "q" /\ n \in DoubledIn(config, r)
    OBVIOUS
  <2>1. QuitIsLate(n, r) /\ OneSlot(n, r)
    BY <1>1, <1>3 DEF PairInv
  <2>2. phase[n] = "quitting" /\ Passed(sockets[n], r, next[n])
    BY <1>2, <2>1 DEF QuitIsLate, Ending
  <2>3. PICK j \in Slots(sockets[n], r) : j < next[n]
    BY <2>2 DEF Passed
  <2>4. j # k
    BY <1>3, <2>3
  <2> QED
    BY <1>3, <1>5, <2>1, <2>2, <2>3, <2>4 DEF OneSlot, Single, DoubledIn
<1>7. /\ q \in Seq(Datagram) /\ Len(q) = Len(queue[r]) + 1
      /\ \A c : HasQuit(q, c) <=> HasQuit(queue[r], c) \/ (msg = "q" /\ c = n)
      /\ \A c : HasText(q, c) <=> HasText(queue[r], c) \/ (msg = "text" /\ c = n)
      /\ QuitsLast(q, DoubledIn(config, r))
  <2>1. queue[r] \in Seq(Datagram)
    BY <1>1, <1>3 DEF TypeOK
  <2>2. QuitsLast(queue[r], DoubledIn(config, r))
    BY <1>1, <1>3 DEF ProcessInv, InOrder
  <2> QED
    BY <1>5, <1>6, <2>1, <2>2, Arrive
<1> HIDE DEF q
<1>8. ASSUME NEW m \in Node
      PROVE  /\ queue'[m] = IF m = r THEN q ELSE queue[m]
             /\ next'[m] = IF m = n THEN k + 1 ELSE next[m]
             /\ phase'[m] = phase[m] /\ config'[m] = config[m] /\ sockets'[m] = sockets[m]
  BY <1>1, <1>2 DEF TypeOK
<1>9. TypeOK'
  <2>1. \A m \in Node : Len(queue'[m]) <= QueueLimit
    <3>1. ASSUME NEW m \in Node PROVE Len(queue[m]) <= QueueLimit /\ Len(queue[m]) \in Nat
      BY <1>1 DEF TypeOK
    <3> QED
      BY <1>2, <1>3, <1>7, <1>8, <3>1
  <2>2. k + 1 \in 1 .. peers_max_count + 1
    BY <1>3
  <2>3. spoken' \subseteq Node \X Node
    BY <1>1, <1>2, <1>3 DEF TypeOK
  <2>4. queue' \in [Node -> Seq(Datagram)] /\ next' \in [Node -> 1 .. peers_max_count + 1]
    BY <1>1, <1>2, <1>7, <2>2 DEF TypeOK
  <2> QED
    BY <1>1, <1>2, <2>1, <2>3, <2>4 DEF TypeOK
<1>10. ASSUME NEW m \in Node
       PROVE  /\ (Ending(m)' <=> Ending(m)) /\ (Up(m)' <=> Up(m)) /\ Up(n) /\ Up(r)
              /\ \A b : HasQuit(queue'[m], b) <=>
                    HasQuit(queue[m], b) \/ (m = r /\ b = n /\ phase[n] = "quitting")
              /\ \A b : HasText(queue'[m], b) <=>
                    HasText(queue[m], b) \/ (m = r /\ b = n /\ phase[n] = "sending")
              /\ \A b : <<b, m>> \in spoken' <=>
                    <<b, m>> \in spoken \/ (m = r /\ b = n /\ phase[n] = "sending")
  <2>1. Up(n) /\ Up(r)
    BY <1>2 DEF Up
  <2>2. (Ending(m)' <=> Ending(m)) /\ (Up(m)' <=> Up(m))
    BY <1>8 DEF Ending, Up
  <2>3. /\ \A b : HasQuit(queue'[m], b) <=>
               HasQuit(queue[m], b) \/ (m = r /\ b = n /\ phase[n] = "quitting")
        /\ \A b : HasText(queue'[m], b) <=>
               HasText(queue[m], b) \/ (m = r /\ b = n /\ phase[n] = "sending")
    BY <1>5, <1>7, <1>8
  <2>4. ASSUME NEW b
        PROVE  <<b, m>> \in spoken' <=>
                  <<b, m>> \in spoken \/ (m = r /\ b = n /\ phase[n] = "sending")
    BY <1>2
  <2> QED
    BY <2>1, <2>2, <2>3, <2>4
<1>11. ASSUME NEW m \in Node PROVE ProcessInv(m)'
  <2>1. Blank(m) /\ InOrder(m) /\ Caused(m)
    BY <1>1 DEF ProcessInv
  <2>2. Blank(m)'
    BY <1>2, <1>8, <1>10, <2>1 DEF Blank, Sending
  <2>3. InOrder(m)'
    BY <1>2, <1>7, <1>8, <2>1 DEF InOrder
  <2>4. Caused(m)'
    <3> SUFFICES ASSUME NEW b \in {cause[m]}, phase[m] = "crashed" PROVE Excused(b, m)'
      BY <1>2 DEF Caused, Excused, Ending
    <3>1. Excused(b, m) /\ m # r /\ b \in Node
      BY <1>10, <2>1 DEF Caused, Excused, Up
    <3> QED
      BY <1>8, <1>10, <3>1 DEF Excused
  <2> QED
    BY <2>2, <2>3, <2>4 DEF ProcessInv
<1>12. ASSUME NEW b \in Node, NEW m \in Node PROVE PairInv(b, m)'
  <2>1. /\ OneSlot(b, m) /\ SpokenOfBorn(b, m) /\ QuitIsLate(b, m) /\ TextIsSpoken(b, m)
        /\ KnownBySpeech(b, m) /\ Acquainted(b, m) /\ GoneIsTold(b, m)
    BY <1>1 DEF PairInv
  <2>2. OneSlot(b, m)' /\ SpokenOfBorn(b, m)' /\ TextIsSpoken(b, m)' /\ KnownBySpeech(b, m)'
    <3>1. OneSlot(b, m)'
      BY <1>8, <2>1 DEF OneSlot
    <3>2. SpokenOfBorn(b, m)'
      BY <1>8, <1>10, <2>1 DEF SpokenOfBorn, Up
    <3>3. TextIsSpoken(b, m)'
      BY <1>10, <2>1 DEF TextIsSpoken
    <3>4. KnownBySpeech(b, m)'
      BY <1>8, <1>10, <2>1 DEF KnownBySpeech
    <3> QED
      BY <3>1, <3>2, <3>3, <3>4
  <2>3. /\ Passed(sockets[b], m, next[b]) => Passed(sockets[b], m, next'[b])
        /\ Ahead(sockets[b], m, next'[b]) => Ahead(sockets[b], m, next[b])
    <3>1. CASE b = n
      BY <1>3, <1>8, <3>1 DEF Passed, Ahead
    <3>2. CASE b # n
      BY <1>8, <3>2
    <3> QED
      BY <3>1, <3>2
  <2>4. QuitIsLate(b, m)'
    <3>1. CASE HasQuit(queue[m], b)
      BY <1>8, <1>10, <2>1, <2>3, <3>1 DEF QuitIsLate
    <3>2. CASE m = r /\ b = n /\ phase[n] = "quitting"
      <4>1. Passed(sockets[n], r, k + 1) /\ Slots(sockets[n], r) # {} /\ Ending(n)
        BY <1>3, <3>2 DEF Passed, Ending
      <4> QED
        BY <1>8, <1>10, <3>2, <4>1 DEF QuitIsLate
    <3> QED
      BY <1>10, <3>1, <3>2 DEF QuitIsLate
  <2>5. YetToLeave(b, m)' => YetToLeave(b, m)
    <3>1. m = r /\ b = n => Ahead(sockets[b], m, next[b])
      BY <1>3 DEF Ahead
    <3> QED
      BY <1>8, <1>10, <2>3, <3>1 DEF YetToLeave
  <2>6. Acquainted(b, m)'
    <3>1. CASE m = r /\ b = n /\ phase[n] = "sending"
      BY <1>10, <3>1 DEF Acquainted
    <3>2. CASE b = r /\ m = n
      <4>1. Slots(sockets'[m], b) # {}
        BY <1>3, <1>8, <3>2
      <4> QED
        BY <4>1 DEF Acquainted
    <3>3. CASE /\ ~(m = r /\ b = n /\ phase[n] = "sending")
               /\ ~(b = r /\ m = n)
      BY <1>8, <1>10, <2>1, <2>5, <3>3 DEF Acquainted
    <3> QED
      BY <3>1, <3>2, <3>3
  <2>7. GoneIsTold(b, m)'
    <3> SUFFICES ASSUME Gone(b, m)' PROVE GoneIsTold(b, m)'
      BY DEF GoneIsTold
    <3>1. Gone(b, m) \/ (b = n /\ m = r /\ phase[n] = "quitting")
      <4>1. CASE b # n
        BY <1>8, <4>1 DEF Gone
      <4>2. CASE b = n
        <5>1. phase[n] = "quitting" /\ Passed(sockets[n], m, k + 1)
          BY <1>2, <1>8, <4>2 DEF Gone
        <5>2. PICK j \in Slots(sockets[n], m) : j < k + 1
          BY <5>1 DEF Passed
        <5>3. CASE j < next[n]
          BY <4>2, <5>1, <5>3 DEF Gone, Passed
        <5>4. CASE ~(j < next[n])
          <6>1. j = k
            BY <1>4, <5>2, <5>4
          <6> QED
            BY <4>2, <5>1, <6>1 DEF Slots, r
        <5> QED
          BY <5>3, <5>4
      <4> QED
        BY <4>1, <4>2
    <3>2. CASE b = n /\ m = r /\ phase[n] = "quitting"
      BY <1>8, <1>10, <3>2 DEF GoneIsTold, Up
    <3>3. CASE Gone(b, m)
      <4>1. ~(b = n /\ phase[n] = "sending")
        BY <3>3 DEF Gone
      <4> QED
        BY <1>8, <1>10, <2>1, <3>3, <4>1 DEF GoneIsTold
    <3> QED
      BY <3>1, <3>2, <3>3
  <2> QED
    BY <2>2, <2>4, <2>6, <2>7 DEF PairInv
<1> QED
  BY <1>9, <1>11, <1>12 DEF UnixInv

------------------------------------------------------------------------------

LEMMA Stutter ==
    ASSUME UnixInv, UNCHANGED vars
    PROVE  UnixInv'
<1>1. TypeOK'
  BY DEF UnixInv, vars, TypeOK
<1>2. ASSUME NEW n \in Node PROVE ProcessInv(n)'
  <2>1. ProcessInv(n)
    BY DEF UnixInv
  <2> QED
    BY <2>1 DEF vars, ProcessInv, Blank, InOrder, Caused, Excused, Ending, Up, Sending
<1>3. ASSUME NEW b \in Node, NEW n \in Node PROVE PairInv(b, n)'
  <2>1. PairInv(b, n)
    BY DEF UnixInv
  <2> QED
    BY <2>1 DEF vars, PairInv, OneSlot, SpokenOfBorn, QuitIsLate, TextIsSpoken,
       KnownBySpeech, Acquainted, GoneIsTold, Gone, YetToLeave, Ending, Up
<1> QED
  BY <1>1, <1>2, <1>3 DEF UnixInv

LEMMA Steps == UnixInv /\ [Next]_vars => UnixInv'
<1> SUFFICES ASSUME UnixInv, [Next]_vars PROVE UnixInv'
  OBVIOUS
<1> USE DEF Ends
<1>1. TypeOK /\ \A n \in Node : Blank(n)
  BY DEF UnixInv, ProcessInv
<1>2. \A n \in Node : cause[n] \in Node \cup {NoPath}
  BY <1>1 DEF TypeOK
<1>3. ASSUME NEW n \in Node, NEW items \in CommandLine, Begin(n, items) PROVE UnixInv'
  BY <1>3, BeginKeeps
<1>4. ASSUME NEW n \in Node, Receive(n) PROVE UnixInv'
  <2> DEFINE m == Head(queue[n])
  <2>1. /\ phase[n] = "looping" /\ queue[n] # <<>> /\ Up(n)
        /\ UNCHANGED <<written, config, spoken>>
    BY <1>4 DEF Receive, Up
  <2>2. CASE QuitFromStranger(sockets[n], m.from, m.msg)
    <3>1. /\ phase' = [phase EXCEPT ![n] = "crashed"] /\ queue' = [queue EXCEPT ![n] = <<>>]
          /\ next' = [next EXCEPT ![n] = 1] /\ sockets' = sockets
          /\ cause' = [cause EXCEPT ![n] = m.from]
      BY <1>4, <2>2 DEF Receive
    <3>2. Excused(m.from, n)
      BY <2>1, <2>2, CrashIsCaused
    <3>3. /\ cause' \in [Node -> Node \cup {NoPath}] /\ cause'[n] = m.from
          /\ \A l \in Node \ {n} : cause'[l] = cause[l]
      BY <1>1, <3>1, <3>2 DEF TypeOK, Excused
    <3> HIDE DEF m, Ends
    <3> QED
      BY <2>1, <3>1, <3>2, <3>3, LeaveKeeps
  <2>3. CASE ~QuitFromStranger(sockets[n], m.from, m.msg)
    <3>1. /\ sockets' = [sockets EXCEPT ![n] = handleMessageUnix(sockets[n], m.from, m.msg)]
          /\ queue' = [queue EXCEPT ![n] = Tail(queue[n])]
          /\ UNCHANGED <<phase, next, cause>>
      BY <1>4, <2>3 DEF Receive
    <3> QED
      BY <2>1, <2>3, <3>1, ReceiveKeeps
  <2> QED
    BY <2>2, <2>3
<1>5. ASSUME NEW n \in Node, Say(n) \/ Quit(n) PROVE UnixInv'
  <2>1. next[n] = 1 /\ phase[n] = "looping"
    BY <1>1, <1>5 DEF Say, Quit, Blank, Sending
  <2>2. next' = [next EXCEPT ![n] = 1]
    BY <1>1, <1>5, <2>1 DEF Say, Quit, TypeOK
  <2>3. CASE Say(n)
    BY <2>1, <2>2, <2>3, TurnKeeps DEF Say
  <2>4. CASE Quit(n)
    BY <2>1, <2>2, <2>4, TurnKeeps DEF Quit
  <2> QED
    BY <1>5, <2>3, <2>4
<1>6. ASSUME NEW n \in Node, NEW k \in ToCome(n), SendTo(n, k) PROVE UnixInv'
  BY <1>6, SendToKeeps
<1>7. ASSUME NEW n \in Node, NEW k \in ToCome(n), SendFails(n, k) PROVE UnixInv'
  <2>1. Up(n)
    BY <1>7 DEF SendFails, Sending, Up
  <2>2. cause' \in [Node -> Node \cup {NoPath}] /\ \A l \in Node \ {n} : cause'[l] = cause[l]
    BY <1>1, <1>7 DEF SendFails, TypeOK
  <2> QED
    BY <1>7, <2>1, <2>2, LeaveKeeps DEF SendFails
<1>8. ASSUME NEW n \in Node, SentToAll(n) PROVE UnixInv'
  <2>1. CASE phase[n] = "sending"
    BY <1>8, <2>1, TurnKeeps DEF SentToAll
  <2>2. CASE phase[n] # "sending"
    <3>1. Up(n) /\ phase[n] = "quitting" /\ ToCome(n) = {}
      BY <1>8, <2>2 DEF SentToAll, Sending, Up
    <3>2. cause' \in [Node -> Node \cup {NoPath}] /\ \A l \in Node \ {n} : cause'[l] = cause[l]
      BY <1>1, <1>8 DEF SentToAll, TypeOK
    <3> QED
      BY <1>8, <2>2, <3>1, <3>2, LeaveKeeps DEF SentToAll
  <2> QED
    BY <2>1, <2>2
<1>9. ASSUME NEW n \in Node, Kill(n) PROVE UnixInv'
  <2>1. cause' \in [Node -> Node \cup {NoPath}] /\ \A l \in Node \ {n} : cause'[l] = cause[l]
    BY <1>1, <1>9 DEF Kill, TypeOK
  <2> QED
    BY <1>9, <2>1, LeaveKeeps DEF Kill
<1>10. CASE UNCHANGED vars
  BY <1>10, Stutter
<1> QED
  BY <1>3, <1>4, <1>5, <1>6, <1>7, <1>8, <1>9, <1>10 DEF Next, SendStep

LEMMA Invariance == Spec => []UnixInv
<1> QED
  BY Initially, Steps, PTL DEF Spec

\* Every variable keeps its type: no socket gets more slots than there are, whatever the
\* command lines and the senders (SocketUnix.c:16-25), no queue holds more than the kernel
\* lets it, and the loop of sendSocketUnix does not run past the slots.
THEOREM TypeCorrect == Spec => []TypeOK
<1>1. UnixInv => TypeOK
  BY DEF UnixInv
<1> QED
  BY <1>1, Invariance, PTL

\* A peer that is over has no slot with anyone whom it told so, once that one has read the
\* quit message; unless it is in the configuration twice (SocketUnix.c:27-31, 71-75).
THEOREM NoSlotForTheGoneHolds == Spec => []NoSlotForTheGone
<1>1. UnixInv => NoSlotForTheGone
  <2> SUFFICES ASSUME UnixInv, NEW a \in Node, NEW b \in Node,
                      Up(a), phase[b] = "over", Slots(sockets[a], b) # {},
                      Slots(sockets[b], a) # {}, ~(Cardinality(Configured(a, b)) > 1)
               PROVE  [from |-> b, msg |-> "q"] \in {queue[a][i] : i \in DOMAIN queue[a]}
    BY DEF NoSlotForTheGone
  <2>1. GoneIsTold(b, a) /\ Gone(b, a)
    BY DEF UnixInv, PairInv, Gone
  <2>2. ~Twice(config[a], b)
    BY DEF Twice, Wanted, Configured
  <2>3. HasQuit(queue[a], b)
    BY <2>1, <2>2 DEF GoneIsTold
  <2> QED
    BY <2>3 DEF HasQuit
<1> QED
  BY <1>1, Invariance, PTL

\* A process is ended by a quit message only with a full table, or by a sender that the
\* sender's own configuration let know of it without a line, or twice
\* (SocketUnix.c:27-31, 71-81).
THEOREM CrashNeedsSilenceHolds == Spec => []CrashNeedsSilence
<1>1. UnixInv => CrashNeedsSilence
  <2> SUFFICES ASSUME UnixInv, NEW n \in Node, phase[n] = "crashed"
               PROVE  \/ Full(sockets[n])
                      \/ Configured(cause[n], n) # {} /\ <<cause[n], n>> \notin spoken
                      \/ Cardinality(Configured(cause[n], n)) > 1
    BY DEF CrashNeedsSilence
  <2>1. Excused(cause[n], n)
    BY DEF UnixInv, ProcessInv, Caused
  <2>2. Wanted(config[cause[n]], n) = Configured(cause[n], n)
    BY DEF Wanted, Configured
  <2> QED
    BY <2>1, <2>2 DEF Excused, Twice
<1> QED
  BY <1>1, Invariance, PTL

\* Nothing but Begin sets the configuration, or makes a process out of nothing.
LEMMA ConfigurationIsKept ==
    ASSUME TypeOK, [Next]_vars
    PROVE  \/ \E n \in Node, items \in CommandLine : Begin(n, items)
           \/ /\ UNCHANGED <<written, config>>
              /\ \A m \in Node : phase'[m] # "unborn" => phase[m] # "unborn"
<1> DEFINE Kept == /\ UNCHANGED <<written, config>>
                   /\ \A m \in Node : phase'[m] # "unborn" => phase[m] # "unborn"
<1>1. phase \in [Node -> {"unborn", "looping", "sending", "quitting", "over", "failed",
                          "crashed"}]
  BY DEF TypeOK
<1>2. ASSUME NEW n \in Node, NEW how, phase[n] # "unborn", phase' = [phase EXCEPT ![n] = how]
      PROVE  \A m \in Node : phase'[m] # "unborn" => phase[m] # "unborn"
  BY <1>1, <1>2
<1>3. ASSUME NEW n \in Node, Receive(n) PROVE Kept
  <2>1. phase[n] = "looping" /\ UNCHANGED <<written, config>>
    BY <1>3 DEF Receive
  <2>2. phase' = phase \/ phase' = [phase EXCEPT ![n] = "crashed"]
    BY <1>3 DEF Receive, Ends
  <2> QED
    BY <1>2, <2>1, <2>2
<1>4. ASSUME NEW n \in Node, Say(n) \/ Quit(n) PROVE Kept
  <2>1. /\ phase[n] = "looping" /\ UNCHANGED <<written, config>>
        /\ \E how : phase' = [phase EXCEPT ![n] = how]
    BY <1>4 DEF Say, Quit
  <2> QED
    BY <1>2, <2>1
<1>5. ASSUME NEW n \in Node, SendStep(n) PROVE Kept
  <2>1. phase[n] # "unborn" /\ UNCHANGED <<written, config>>
    BY <1>5 DEF SendStep, SendTo, SendFails, SentToAll, Sending
  <2>2. phase' = phase \/ \E how : phase' = [phase EXCEPT ![n] = how]
    BY <1>5 DEF SendStep, SendTo, SendFails, SentToAll, Ends
  <2> QED
    BY <1>2, <2>1, <2>2
<1>6. ASSUME NEW n \in Node, Kill(n) PROVE Kept
  <2>1. /\ phase[n] # "unborn" /\ UNCHANGED <<written, config>>
        /\ phase' = [phase EXCEPT ![n] = "failed"]
    BY <1>6 DEF Kill, Up, Ends
  <2> QED
    BY <1>2, <2>1
<1>7. CASE UNCHANGED vars
  BY <1>7 DEF vars
<1> QED
  BY <1>3, <1>4, <1>5, <1>6, <1>7 DEF Next

\* Whatever the command line, a process runs with what it says
\* (NetworkConfiguration.c:45-73).
THEOREM ConfiguredAsWrittenHolds == Spec => []ConfiguredAsWritten
<1>1. Init => ConfiguredAsWritten
  BY DEF Init, ConfiguredAsWritten
<1>2. TypeOK /\ ConfiguredAsWritten /\ [Next]_vars => ConfiguredAsWritten'
  <2> SUFFICES ASSUME TypeOK, ConfiguredAsWritten, [Next]_vars,
                      NEW m \in Node, phase'[m] # "unborn"
               PROVE  config'[m] = Meaning(written'[m])
    BY DEF ConfiguredAsWritten
  <2>1. CASE \E n \in Node, items \in CommandLine : Begin(n, items)
    <3>1. PICK n \in Node, items \in CommandLine : Begin(n, items)
      BY <2>1
    <3>2. createNetworkConfiguration(Args(items)) = Meaning(items)
      BY LineAssumption, ParsedAsWritten
    <3>3. /\ phase' = [phase EXCEPT ![n] = "looping"]
          /\ written' = [written EXCEPT ![n] = items]
          /\ config' = [config EXCEPT ![n] = Meaning(items)]
      BY <3>1, <3>2 DEF Begin
    <3>4. m \in DOMAIN phase /\ m \in DOMAIN written /\ m \in DOMAIN config
      BY DEF TypeOK
    <3> QED
      BY <3>3, <3>4 DEF ConfiguredAsWritten
  <2>2. CASE /\ UNCHANGED <<written, config>>
             /\ \A n \in Node : phase'[n] # "unborn" => phase[n] # "unborn"
    BY <2>2 DEF ConfiguredAsWritten
  <2> QED
    BY <2>1, <2>2, ConfigurationIsKept
<1> QED
  BY <1>1, <1>2, TypeCorrect, PTL DEF Spec

=============================================================================
