---------------------------- MODULE MCInputPacing ----------------------------
(* InputPacing with two keys, so that one can be released while another is   *)
(* held, and a tail of two frames: longer than one and shorter than the      *)
(* code's eight, which only adds states between the same two ends.           *)
EXTENDS InputPacing
=============================================================================
