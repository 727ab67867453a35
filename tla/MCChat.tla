-------------------------------- MODULE MCChat --------------------------------
(****************************************************************************)
(* Instances of Chat for TLC.  One thread may make the first call (the      *)
(* others start late enough), or all of them may.                           *)
(****************************************************************************)

EXTENDS Chat, TLC

CONSTANTS io, mme, enb

MCThread == {io, mme, enb}
OneFirstCaller == {mme}
AnyFirstCaller == MCThread

\* The other threads see a thread store its mutex before its flag, as the lines of
\* initChatMutex stand (Chat.c:19-20).  What goes wrong under SpecInOrder is not owed
\* to a compiler or a CPU that swaps the two.
InProgramOrder == \A t \in Thread : "mutex" \in unstored[t] => "flag" \in unstored[t]

SpecInOrder == Init /\ [][Next /\ InProgramOrder']_vars

=============================================================================
