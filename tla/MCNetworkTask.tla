---------------------------- MODULE MCNetworkTask ----------------------------
(****************************************************************************)
(* The predefined configuration of main.c: three network tasks, of which    *)
(* eNB2 has a lifetime.                                                     *)
(****************************************************************************)

EXTENDS NetworkTask, TLC

CONSTANTS mme, enb1, enb2

MCTask == {mme, enb1, enb2}
MCMortal == {enb2}

=============================================================================
