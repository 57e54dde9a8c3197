---------------------------- MODULE MCTcpChannel ----------------------------
(***************************************************************************)
(* Instances of TcpChannel for TLC.  A packet of three bytes and one of    *)
(* four, a header of two: a connection of two bytes holds neither packet,  *)
(* so every packet is sent in pieces, and may be received in others.       *)
(***************************************************************************)
EXTENDS TcpChannel, TLC

CONSTANTS small, large

MCSize == small :> 3 @@ large :> 4

(* The client sends two packets, the server answers with one. *)
MCMaxPackets == Client :> 2 @@ Server :> 1
=============================================================================
