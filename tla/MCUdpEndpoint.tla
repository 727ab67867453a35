---------------------------- MODULE MCUdpEndpoint ----------------------------
(****************************************************************************)
(* An endpoint that connects to one remote and hears from a second one.     *)
(****************************************************************************)

EXTENDS UdpEndpoint, TLC

CONSTANTS mme, enb

MCRemote == {mme, enb}
MCRemotes == <<mme>>

=============================================================================
