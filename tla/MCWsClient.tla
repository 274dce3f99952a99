----------------------------- MODULE MCWsClient -----------------------------
(* Instances of WsClient small enough for TLC. *)
EXTENDS WsClient, TLC

CONSTANTS s1, s2
=============================================================================
