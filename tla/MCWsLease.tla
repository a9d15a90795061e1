----------------------------- MODULE MCWsLease ------------------------------
(* WsLease on a small instance.                                            *)
EXTENDS WsLease
=============================================================================
