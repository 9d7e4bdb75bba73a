-------------------------- MODULE MCPushTransport --------------------------
(***************************************************************************)
(* PushTransport for TLC, over the lives in which every close() may raise and *)
(* those in which none does: what needs close() to succeed is asked of the     *)
(* latter alone.                                                             *)
(***************************************************************************)
EXTENDS PushTransport, TLC
=============================================================================
