-------------------------- MODULE MCSessionRunner --------------------------
(* SessionRunner has no parameters: one window, its worker and its control   *)
(* server.                                                                   *)
EXTENDS SessionRunner
=============================================================================
