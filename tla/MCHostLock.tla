----------------------------- MODULE MCHostLock -----------------------------
(* HostLock with two frontend threads, the Qt thread and one more, so that   *)
(* requests can overlap, one of them with the bounded wait of debugSnapshot. *)
EXTENDS HostLock
=============================================================================
