---------------------------- MODULE MCGuestInput ----------------------------
(* GuestInput on a short clock: a debounce interval of three cycles,         *)
(* instructions of one or two, so that edges fall due inside an instruction. *)
EXTENDS GuestInput
=============================================================================
