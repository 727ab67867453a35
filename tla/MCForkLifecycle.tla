--------------------------- MODULE MCForkLifecycle ---------------------------
(****************************************************************************)
(* A start and a restart, with every object and every kill.                 *)
(****************************************************************************)

EXTENDS ForkLifecycle

=============================================================================
