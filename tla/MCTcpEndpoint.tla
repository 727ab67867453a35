---------------------------- MODULE MCTcpEndpoint ----------------------------
(****************************************************************************)
(* An endpoint that connects to one remote; that one and another may        *)
(* connect to it.                                                           *)
(****************************************************************************)

EXTENDS TcpEndpoint, TLC

CONSTANTS mme, enb

MCRemote == {mme, enb}
MCRemotes == <<mme>>

=============================================================================
