------------------------------- MODULE Mailbox -------------------------------
(****************************************************************************)
(* What chat() promises its callers (Chat.c): the process has one message   *)
(* slot, and a call swaps the caller's message with the content of the slot *)
(* in one indivisible step.  The threads of the program talk to each other  *)
(* only through this exchange.                                              *)
(****************************************************************************)

CONSTANTS
    Thread,     \* the threads that call chat()
    Message,    \* what a ChatBuffer may hold
    Empty       \* the empty ChatBuffer; chat(NULL) posts it too

VARIABLES
    slot,       \* the message nobody has taken yet
    got         \* got[t]: what the last call of thread t returned

box == <<slot, got>>

Init ==
    /\ slot = Empty
    /\ got = [t \in Thread |-> Empty]

Exchange(t, m) ==
    /\ got' = [got EXCEPT ![t] = slot]
    /\ slot' = m

Next == \E t \in Thread, m \in Message : Exchange(t, m)

Spec == Init /\ [][Next]_box

=============================================================================
