---------------------------- MODULE MCUdpNetwork ----------------------------
(****************************************************************************)
(* Two endpoints of main.c: the MME only listens, and an eNB connects to    *)
(* it.                                                                      *)
(****************************************************************************)

EXTENDS UdpNetwork, TLC

CONSTANTS mme, enb

MCRemote == {mme, enb}
MCRemotesOf == (mme :> <<>>) @@ (enb :> <<mme>>)

=============================================================================
