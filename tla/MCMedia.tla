------------------------------ MODULE MCMedia -------------------------------
(* One drive of each kind: two images for the floppy, one disk, one CD-ROM. *)
EXTENDS Media

MCFloppies == {"fd"}
MCDisks == {"hd"}
MCCds == {"cd"}
MCMedia == {"f1", "f2", "h1", "c1"}
MCImages == [fd |-> {"f1", "f2"}, hd |-> {"h1"}, cd |-> {"c1"}]
MCModels == {"mac128k", "macplus", "maciicx"}
=============================================================================
