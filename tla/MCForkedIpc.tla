----------------------------- MODULE MCForkedIpc -----------------------------
(****************************************************************************)
(* Three copies of a line in place of five, and a queue for two lines, as   *)
(* in the code: a third line may overflow it.                               *)
(****************************************************************************)

EXTENDS ForkedIpc

=============================================================================
