------------------------- MODULE NetworkConfiguration -------------------------
(****************************************************************************)
(* The argument parser of NetworkConfiguration.c, and what a command line   *)
(* means.  A token is an option, a word or a number; words are written in   *)
(* lower case here, which getProtocol converts them to.                     *)
(****************************************************************************)

EXTENDS SequencesExt

Option(o) == [kind |-> "option", is |-> o]
Word(w) == [kind |-> "word", is |-> w]
Number(n) == [kind |-> "number", is |-> n]

\* The options that take the next argument.
SettingOptions == {"-p", "-mtu", "-seg", "-msg"}

IsOption(token, o) == token.kind = "option" /\ token.is = o

\* Whatever is no number is 0.
atoi(token) == IF token.kind = "number" THEN token.is ELSE 0

\* Whatever is no other protocol is SCTP.
getProtocol(token) ==
    IF token.kind = "word" /\ token.is \in {"tcp", "udp", "udp_lite", "dccp", "unix", "fork"}
    THEN token.is
    ELSE "sctp"

isUnix(protocol) == protocol \in {"unix", "fork"}

\* A zeroed configuration: SCTP is the first protocol.
zeroedConfiguration ==
    [protocol |-> "sctp", path_mtu |-> 0, max_seg |-> 0, big_msg_size |-> 0,
     locals |-> <<>>, remotes |-> <<>>]

\* Mutant of Parser: remotes are filled first.
ParserOfRemotes == [i |-> 1, filling |-> "remotes", config |-> zeroedConfiguration]

\* The loop of createNetworkConfiguration: the argument it has come to, and the list of
\* sockets that it fills.
Parser == [i |-> 1, filling |-> "locals", config |-> zeroedConfiguration]

Fill(p, field, v) == [p EXCEPT !.config = [p.config EXCEPT ![field] = v]]

\* One iteration: an option that takes the next argument, -r, an unknown option, or an
\* address that takes the next argument as its port.
ParseArg(args, p) ==
    LET arg == args[p.i]
        next == args[p.i + 1]
        filled ==
            CASE IsOption(arg, "-p") -> Fill(p, "protocol", getProtocol(next))
              [] IsOption(arg, "-mtu") -> Fill(p, "path_mtu", atoi(next))
              [] IsOption(arg, "-seg") -> Fill(p, "max_seg", atoi(next))
              [] IsOption(arg, "-msg") -> Fill(p, "big_msg_size", atoi(next))
              [] IsOption(arg, "-r") -> [p EXCEPT !.filling = "remotes"]
              [] arg.kind = "option" /\ arg.is \notin SettingOptions \cup {"-r"} -> p
              [] OTHER ->
                    Fill(p, p.filling, Append(p.config[p.filling],
                                              [addr |-> arg.is, port |-> atoi(next)]))
        takesNext == arg.kind # "option" \/ arg.is \in SettingOptions
    IN  [filled EXCEPT !.i = IF takesNext THEN p.i + 2 ELSE p.i + 1]

\* The loop stops in front of the last argument: parsed[k] is where it has come to after k
\* iterations, or when it stopped.
ParseArgs(args) ==
    LET parsed[k \in 0 .. Len(args)] ==
            IF k = 0 THEN Parser
            ELSE LET p == parsed[k - 1]
                 IN  IF p.i < Len(args) THEN ParseArg(args, p) ELSE p
    IN  parsed[Len(args)]

\* args are those after the name of the program.
createNetworkConfiguration(args) == ParseArgs(args).config

------------------------------------------------------------------------------

\* A command line as the user means it: settings, sockets and the mark behind which the
\* remotes come; at its end there may be something incomplete.
Setting(o, token) == [item |-> "setting", tokens |-> <<Option(o), token>>]
Address(a, n) == [item |-> "socket", tokens |-> <<Word(a), Number(n)>>]
RemotesFollow == [item |-> "remotes", tokens |-> <<Option("-r")>>]
Unknown == [item |-> "unknown", tokens |-> <<Option("-x")>>]
Incomplete(token) == [item |-> "incomplete", tokens |-> <<token>>]

\* All arguments there are, and all items that can be made of them.
Token == [kind : {"option", "word"}, is : STRING] \cup [kind : {"number"}, is : Nat]
SettingToken == {t \in Token : t.kind = "option" /\ t.is \in SettingOptions}
MarkToken == {t \in Token : IsOption(t, "-r")}
AddressToken == {t \in Token : t.kind # "option"}
UnknownToken == Token \ (SettingToken \cup MarkToken \cup AddressToken)

SettingItem == [item : {"setting"}, tokens : SettingToken \X Token]
SocketItem == [item : {"socket"}, tokens : AddressToken \X Token]
MarkItem == [item : {"remotes"}, tokens : [1 .. 1 -> MarkToken]]
UnknownItem == [item : {"unknown"}, tokens : [1 .. 1 -> UnknownToken]]
CompleteItem == SettingItem \cup SocketItem \cup MarkItem \cup UnknownItem
IncompleteItem == [item : {"incomplete"}, tokens : [1 .. 1 -> Token]]

\* Any list of arguments is written like this.
IsCommandLine(items) ==
    /\ items \in Seq(CompleteItem \cup IncompleteItem)
    /\ \A k \in 1 .. Len(items) - 1 : items[k] \in CompleteItem

\* The arguments that the user types for it.
Args(items) == FlattenSeq([k \in DOMAIN items |-> items[k].tokens])

\* What the option is set to last, if it is set at all.
LastSetting(items, o, default, Value(_)) ==
    LET settings == {k \in DOMAIN items :
                        items[k].item = "setting" /\ IsOption(items[k].tokens[1], o)}
    IN  IF settings = {} THEN default ELSE Value(items[Max(settings)].tokens[2])

\* The position in ks that has n - 1 others in front of it.
Nth(ks, n) == CHOOSE k \in ks : Cardinality({j \in ks : j < k}) = n - 1

\* The sockets before or behind the first mark, in their order.
SocketsWhere(items, InList(_)) ==
    LET ks == {k \in DOMAIN items : items[k].item = "socket" /\ InList(k)}
        Tokens(n) == items[Nth(ks, n)].tokens
    IN  [n \in 1 .. Cardinality(ks) |->
            [addr |-> Tokens(n)[1].is, port |-> atoi(Tokens(n)[2])]]

Meaning(items) ==
    LET Remote(k) == \E j \in 1 .. k - 1 : items[j].item = "remotes"
        Local(k) == ~Remote(k)
    IN  [protocol |-> LastSetting(items, "-p", "sctp", getProtocol),
         path_mtu |-> LastSetting(items, "-mtu", 0, atoi),
         max_seg |-> LastSetting(items, "-seg", 0, atoi),
         big_msg_size |-> LastSetting(items, "-msg", 0, atoi),
         locals |-> SocketsWhere(items, Local),
         remotes |-> SocketsWhere(items, Remote)]

=============================================================================
