----------------------------- MODULE ScsiCdRom ------------------------------
(***************************************************************************)
(* A SCSI CD-ROM drive (ScsiCdRomDevice): the image in it, the sense it    *)
(* would report and the unit attention it owes.  What a command transfers  *)
(* is abstracted to the image it comes from; the logical block size MODE   *)
(* SELECT sets is left out.                                                *)
(***************************************************************************)
CONSTANTS Media,     \* disk images
          NoMedium   \* an empty path: no image

ASSUME NoMediumAssumption == NoMedium \notin Media

SenseKeys == {"none", "notReady", "illegal", "attention"}

\* attached: a target exists at the SCSI ID.
CdType == [attached : BOOLEAN, image : Media \cup {NoMedium}, sense : SenseKeys, attention : BOOLEAN]

NoDrive == [attached |-> FALSE, image |-> NoMedium, sense |-> "none", attention |-> FALSE]

Settled(image) == IF image = NoMedium THEN "notReady" ELSE "none"

\* A drive in which nothing was ever loaded.
EmptyDrive == [attached |-> TRUE, image |-> NoMedium, sense |-> "none", attention |-> FALSE]

\* Defect: the change of medium is not announced.
LoadImageSilently(cd, image) == [cd EXCEPT !.image = image]

LoadImage(cd, image) ==
  [cd EXCEPT !.image = image, !.sense = "attention", !.attention = TRUE]

\* Defect: the sense key is left to the next command.
EjectKeepsSense(cd) == [cd EXCEPT !.image = NoMedium, !.attention = TRUE]

Eject(cd) == [cd EXCEPT !.image = NoMedium, !.sense = "attention", !.attention = TRUE]

AcknowledgeMediaChange(cd) == [cd EXCEPT !.sense = Settled(cd.image), !.attention = FALSE]

-----------------------------------------------------------------------------
(* Commands.  valid says whether the parameters (the block range, the page, *)
(* the track, the parameter list) are ones the drive accepts.               *)

\* START STOP UNIT is "eject" with the eject bit alone and "start" otherwise.
WithoutMedium == {"sense", "inquiry", "modeSelect", "modeSense", "start", "eject", "prevent"}
Commands == WithoutMedium \cup {"ready", "read", "raw", "capacity", "toc", "unknown"}

\* A command's answer: the drive after it, the status, the sense key (of a CHECK
\* CONDITION, or the one REQUEST SENSE transfers) and the image the data came from.
Good(cd, data) == [cd |-> cd, status |-> "good", key |-> "none", data |-> data]
CheckCondition(cd, key) ==
  [cd |-> [cd EXCEPT !.sense = key], status |-> "check", key |-> key, data |-> NoMedium]
\* MODE SENSE and READ TOC are const: they fail without storing the key.
FailUnstored(cd) == [cd |-> cd, status |-> "check", key |-> "illegal", data |-> NoMedium]

RequestSense(cd) ==
  [Good(AcknowledgeMediaChange(cd), NoMedium) EXCEPT !.key = cd.sense]

Read(cd) == Good([cd EXCEPT !.sense = "none"], cd.image)

Dispatch(cd, command, valid) ==
  CASE command = "sense"                                         -> RequestSense(cd)
    [] command = "eject"                                         -> Good(Eject(cd), NoMedium)
    [] command = "read" /\ valid                                 -> Read(cd)
    [] command = "capacity" \/ (command \in {"raw", "toc"} /\ valid) -> Good(cd, cd.image)
    [] command \in {"toc", "modeSense"} /\ ~valid                -> FailUnstored(cd)
    [] command = "unknown"                                       -> CheckCondition(cd, "illegal")
    [] command \in {"read", "raw", "modeSelect"} /\ ~valid       -> CheckCondition(cd, "illegal")
    [] OTHER                                                     -> Good(cd, NoMedium)

ExecuteCommand(cd, command, valid) ==
  IF cd.attention /\ command \notin {"sense", "inquiry"}
  THEN CheckCondition([cd EXCEPT !.attention = FALSE], "attention")
  ELSE IF cd.image = NoMedium /\ command \notin WithoutMedium
  THEN CheckCondition(cd, "notReady")
  ELSE Dispatch(cd, command, valid)
=============================================================================
