----------------------------- MODULE MCNcr5380 -----------------------------
(* Small commands of every kind executeCommand tells apart.                 *)
EXTENDS Ncr5380

Plain(op, reply) ==
  [op |-> op, count |-> 0, ip |-> FALSE, defects |-> 0, pattern |-> 0, reply |-> reply]
Sized(op, count) == [Plain(op, 0) EXCEPT !.count = count]
Format(ip, defects, pattern) ==
  [Sized("format", 1) EXCEPT !.ip = ip, !.defects = defects, !.pattern = pattern]

\* One MODE SELECT with a parameter byte is enough to leave a last byte pending.
MCModeSelect == {Sized("modeSelect6", 1)}

MCCommands ==
  {Plain("plain6", 0), Plain("plain6", 3), Plain("plain12", 1),
   Sized("write6", 0), Sized("write10", 0), Sized("write10", 1),
   Sized("modeSelect6", 0), Sized("modeSelect10", 1),
   Format(FALSE, 1, 0), Format(TRUE, 1, 1), Plain("format", 0)}
=============================================================================
