---------------------------- MODULE MCUnixNetwork ----------------------------
(****************************************************************************)
(* Three processes; the command lines name no peer, one, one twice, or two, *)
(* and have settings, unknown options and incomplete ends in several orders. *)
(****************************************************************************)

EXTENDS UnixNetwork

P == Setting("-p", Word("unix"))

MCCommandLine == {
    <<Setting("-p", Word("tcp")), Setting("-mtu", Number(9)), P, Incomplete(Word("a"))>>,
    <<Address("c", 7), RemotesFollow, Address("b", 1), Setting("-seg", Word("a")),
      Address("a", 2), P>>,
    <<P, RemotesFollow, Address("a", 0), Unknown, RemotesFollow, Address("a", 3),
      Incomplete(Option("-p"))>>}

=============================================================================
