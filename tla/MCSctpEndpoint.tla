--------------------------- MODULE MCSctpEndpoint ---------------------------
(****************************************************************************)
(* An endpoint that connects to one remote; that one and another may make   *)
(* associations with it.                                                    *)
(****************************************************************************)

EXTENDS SctpEndpoint

CONSTANTS mme, enb

MCRemote == {mme, enb}
MCRemotes == <<mme>>

=============================================================================
