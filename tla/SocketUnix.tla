------------------------------ MODULE SocketUnix ------------------------------
(****************************************************************************)
(* SocketUnix.c and the parts of Socket.c it uses, as functions of a        *)
(* socket.  A socket is the used part of Socket.peers: the path of each     *)
(* slot, empty once the peer was removed.                                   *)
(****************************************************************************)

EXTENDS Naturals, Sequences

CONSTANTS
    Path,               \* the names the kernel gives the sockets
    NoPath,             \* the empty path
    peers_max_count

ASSUME PathAssumption == NoPath \notin Path
ASSUME BoundAssumption == peers_max_count \in Nat

NULL == 0
Message == {"text", "q"}

Socket == {s \in Seq(Path \cup {NoPath}) : Len(s) <= peers_max_count}

------------------------------------------------------------------------------

Full(s) == Len(s) >= peers_max_count

\* Mutant of handleCommUpUnix: the bound of the table is not looked at.
handleCommUpUnchecked(s, path) == Append(s, path)

handleCommUpUnix(s, path) == IF Full(s) THEN s ELSE Append(s, path)

\* The first slot with the path, or NULL.
findPeerByPath(s, path) ==
    IF \E k \in DOMAIN s : s[k] = path
    THEN CHOOSE k \in DOMAIN s : s[k] = path /\ \A j \in 1 .. k - 1 : s[j] # path
    ELSE NULL

\* Mutant of removePeer: the path is not emptied.
removePeerKeepingPath(s, k) == s

\* The slot stays in use.
removePeer(s, k) == [s EXCEPT ![k] = NoPath]

handleGracefulShutdownUnix(s, path) == removePeer(s, findPeerByPath(s, path))

\* Mutant of handleMessageUnix: not is missing before findPeerByPath.
handleMessageOfKnown(s, from, msg) ==
    CASE msg = "q" -> handleGracefulShutdownUnix(s, from)
      [] msg # "q" /\ findPeerByPath(s, from) # NULL -> handleCommUpUnix(s, from)
      [] OTHER -> s

\* A quit message from a path without a slot is left to the caller: removePeer would be
\* given a NULL pointer.
QuitFromStranger(s, from, msg) == msg = "q" /\ findPeerByPath(s, from) = NULL

handleMessageUnix(s, from, msg) ==
    CASE msg = "q" -> handleGracefulShutdownUnix(s, from)
      [] msg # "q" /\ findPeerByPath(s, from) = NULL -> handleCommUpUnix(s, from)
      [] OTHER -> s

Slots(s, path) == {k \in DOMAIN s : s[k] = path}
Occupied(s) == {k \in DOMAIN s : s[k] # NoPath}

=============================================================================
