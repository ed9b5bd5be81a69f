------------------------------- MODULE Media --------------------------------
(***************************************************************************)
(* Removable and fixed media, from the profile to the drives.  The window  *)
(* keeps the profile (m_configuration, saved on every change), the machine *)
(* keeps what is in its drives, and the guest takes media out of them on   *)
(* its own.                                                                *)
(*                                                                         *)
(* A handler of the window is a sequence of calls on the session, each     *)
(* under the session's lock; the guest runs between two of them.  What the *)
(* window does to its own record between two calls belongs to one of them, *)
(* since only the window's thread reads it.                                *)
(***************************************************************************)
EXTENDS ScsiCdRom, Naturals, Sequences

CONSTANTS Floppies, Disks, Cds,   \* drives: the IWM's, and SCSI IDs of either type
          Images,                 \* [drive -> the images the user may choose for it]
          Models                  \* the machines

Drives == Floppies \cup Disks \cup Cds
Removable == Floppies \cup Cds

ASSUME DrivesAssumption ==
  /\ Floppies \cap Disks = {} /\ Floppies \cap Cds = {} /\ Disks \cap Cds = {}
  /\ Images \in [Drives -> SUBSET Media]
  /\ Models # {} /\ Models \subseteq {"mac128k", "macplus", "maciicx"}

VARIABLES model,      \* the machine of this profile
          win,        \* the path the window's configuration, and the profile, give each drive
          floppy,     \* the image in each floppy drive
          mirror,     \* m_floppyPaths, where the machine keeps one
          disk,       \* the image of each hard disk
          cdrom,      \* the CD-ROM drives
          running,    \* the runner is not paused
          paused,     \* the window's m_paused, which also stops its frames
          wasPaused,  \* configureMachine's local
          todo,       \* the calls the window's handler has still to make
          wanted,     \* history: the user chose the medium and nobody ejected it since
          missed,     \* history: CD-ROM drives whose image could not be loaded at the last reset
          told,       \* history: the guest has heard of the last change of medium, per drive
          owed,       \* history: the key the next REQUEST SENSE must report, or "any"
          reply       \* history: the last command's data and sense, with told and owed before it

machine == <<floppy, mirror, disk, cdrom>>
window == <<win, paused, wasPaused, todo>>
guestView == <<told, owed, reply>>
vars == <<model, machine, window, running, wanted, missed, guestView>>

HasScsi == model # "mac128k"
Mirrors == model = "maciicx"
Configured == IF HasScsi THEN Drives ELSE Floppies

\* floppyImagePath and scsiImagePath.
Reported(d) ==
  CASE d \in Floppies -> IF Mirrors THEN mirror[d] ELSE floppy[d]
    [] d \in Disks    -> disk[d]
    [] d \in Cds      -> cdrom[d].image

Inside(d) == IF d \in Floppies THEN floppy[d] ELSE Reported(d)

Replies ==
  [data : Media \cup {NoMedium}, told : BOOLEAN, key : SenseKeys, owed : SenseKeys \cup {"any"}]
Silence == [data |-> NoMedium, told |-> TRUE, key |-> "none", owed |-> "any"]

-----------------------------------------------------------------------------
(* The window's handlers, as the calls they make.                           *)

CallNames == {"pause", "resume", "status", "reconfigure", "dialog", "restore"}

\* setPaused(true), then updateStatus.
PauseCalls == << "pause", "status" >>
\* Defect: the drives are looked at before the guest is stopped.
LoadAndResetLooksFirst == << "status", "pause", "reconfigure", "resume", "status", "status" >>

LoadAndResetCalls ==
  PauseCalls \o << "reconfigure", "resume", "status", "status" >>

\* setPaused(wasPaused), then updateStatus.
RestoreCalls == << "restore", "status" >>

\* The constructor: buildStatusBar, loadAndReset and, the runner being started
\* only now, the setPaused(false) that lets the guest run.  The first two looks at
\* the drives come before the machine has been given any medium, so they clear the
\* removable media of the profile that is being opened.
OpenCalls ==
  << "status" >> \o PauseCalls \o << "reconfigure", "status", "status", "resume", "status" >>

Init ==
  /\ model \in Models
  /\ win \in {f \in [Drives -> Media \cup {NoMedium}] :
                \A d \in Drives : f[d] \in {NoMedium} \cup IF d \in Configured THEN Images[d] ELSE {}}
  /\ floppy = [d \in Floppies |-> NoMedium] /\ mirror = floppy
  /\ disk = [d \in Disks |-> NoMedium]
  /\ cdrom = [d \in Cds |-> NoDrive]
  /\ running = FALSE /\ paused = TRUE /\ wasPaused = FALSE
  /\ todo = OpenCalls
  /\ wanted = [d \in Drives |-> win[d] # NoMedium]
  /\ missed = Cds
  /\ told = [d \in Cds |-> TRUE] /\ owed = [d \in Cds |-> "any"]
  /\ reply = [d \in Cds |-> Silence]

AtRest == todo = << >>
Calling(call) == ~AtRest /\ Head(todo) = call

-----------------------------------------------------------------------------
(* The calls.                                                               *)

Pause ==
  /\ Calling("pause")
  /\ paused' = TRUE /\ running' = FALSE /\ todo' = Tail(todo)
  /\ UNCHANGED <<model, machine, win, wasPaused, wanted, missed, guestView>>

Resume ==
  /\ Calling("resume")
  /\ paused' = FALSE /\ running' = TRUE /\ todo' = Tail(todo)
  /\ UNCHANGED <<model, machine, win, wasPaused, wanted, missed, guestView>>

\* configureMachine's last setPaused.
Restore ==
  /\ Calling("restore")
  /\ paused' = wasPaused /\ running' = ~wasPaused /\ todo' = Tail(todo)
  /\ UNCHANGED <<model, machine, win, wasPaused, wanted, missed, guestView>>

\* Defect: whatever is in no drive goes.
ReconciledDisksToo == [d \in Drives |-> IF Reported(d) = NoMedium THEN NoMedium ELSE win[d]]

\* reconcileGuestEjectedMedia: paths of removable media that are in no drive go.
Reconciled ==
  [d \in Drives |-> IF d \in Removable /\ Reported(d) = NoMedium THEN NoMedium ELSE win[d]]

UpdateStatus ==
  /\ Calling("status")
  /\ win' = Reconciled /\ todo' = Tail(todo)
  /\ UNCHANGED <<model, machine, paused, wasPaused, running, wanted, missed, guestView>>

\* Defect: the image is read before the drive is made and stays when it is not.
ReconfiguredHalfway(loaded) ==
  /\ floppy' = [d \in Floppies |-> IF d \in loaded THEN win[d] ELSE NoMedium]
  /\ disk' = [d \in Disks |-> IF d \in loaded THEN win[d] ELSE NoMedium]
  /\ cdrom' = [d \in Cds |->
        IF d \in loaded \/ win[d] = NoMedium THEN AcknowledgeMediaChange(LoadImage(EmptyDrive, win[d]))
        ELSE [NoDrive EXCEPT !.image = win[d]]]

\* reconfigure: a new machine, given every configured image that loads, and reset.
\* A CD-ROM drive is made when it is configured empty or its image loads.
Reconfigured(loaded) ==
  /\ floppy' = [d \in Floppies |-> IF d \in loaded THEN win[d] ELSE NoMedium]
  /\ disk' = [d \in Disks |-> IF d \in loaded THEN win[d] ELSE NoMedium]
  /\ cdrom' = [d \in Cds |->
        CASE d \in loaded                             -> AcknowledgeMediaChange(LoadImage(EmptyDrive, win[d]))
          [] d \in Configured /\ win[d] = NoMedium    -> AcknowledgeMediaChange(EmptyDrive)
          [] OTHER                                    -> NoDrive]

Reconfigure ==
  /\ Calling("reconfigure")
  /\ \E loaded \in SUBSET {d \in Configured : win[d] # NoMedium} :
        /\ Reconfigured(loaded)
        /\ missed' = {d \in Cds : d \notin Configured \/ (win[d] # NoMedium /\ d \notin loaded)}
  /\ mirror' = floppy'
  /\ told' = [d \in Cds |-> TRUE] /\ owed' = [d \in Cds |-> "any"]
  /\ reply' = [d \in Cds |-> Silence]
  /\ todo' = Tail(todo)
  /\ UNCHANGED <<model, win, paused, wasPaused, running, wanted>>

-----------------------------------------------------------------------------
(* The toolbar.                                                             *)

\* Defect: the window does not restore its record when the image fails to load.
RecordedAnyway(d, image, outcome) == [win EXCEPT ![d] = image]

\* The window sets its path first and restores it when the image does not load.
Recorded(d, image, outcome) == IF outcome = "loaded" THEN [win EXCEPT ![d] = image] ELSE win

\* insertFloppyPath, with loadFloppyImage's outcomes: the image is in the drive; it
\* cannot be read and the old one stays; or a single-sided machine refuses it,
\* having taken the old one out already.
InsertFloppyPath(d, image, outcome) ==
  /\ AtRest
  /\ outcome = "refused" => model = "mac128k"
  /\ floppy' = CASE outcome = "loaded"  -> [floppy EXCEPT ![d] = image]
                 [] outcome = "failed"  -> floppy
                 [] outcome = "refused" -> [floppy EXCEPT ![d] = NoMedium]
  /\ mirror' = IF outcome = "loaded" THEN [mirror EXCEPT ![d] = image] ELSE mirror
  /\ win' = Recorded(d, image, outcome)
  /\ IF outcome = "loaded"
     THEN wanted' = [wanted EXCEPT ![d] = TRUE] /\ todo' = << "status" >>
     ELSE UNCHANGED <<wanted, todo>>
  /\ UNCHANGED <<model, disk, cdrom, paused, wasPaused, running, missed, guestView>>

EjectFloppy(d) ==
  /\ AtRest
  /\ win' = [win EXCEPT ![d] = NoMedium]
  /\ floppy' = [floppy EXCEPT ![d] = NoMedium]
  /\ mirror' = [mirror EXCEPT ![d] = NoMedium]
  /\ wanted' = [wanted EXCEPT ![d] = FALSE]
  /\ todo' = << "status" >>
  /\ UNCHANGED <<model, disk, cdrom, paused, wasPaused, running, missed, guestView>>

\* A change of medium the guest has to hear of.
Unannounced(d) ==
  /\ told' = [told EXCEPT ![d] = FALSE]
  /\ owed' = [owed EXCEPT ![d] = "attention"]
  /\ UNCHANGED reply

\* insertScsiPath for a CD-ROM drive, made now if it was not there.
InsertScsiPath(d, image, loads) ==
  /\ AtRest /\ HasScsi
  /\ IF loads
     THEN /\ cdrom' = [cdrom EXCEPT ![d] =
                         LoadImage(IF cdrom[d].attached THEN cdrom[d] ELSE EmptyDrive, image)]
          /\ win' = [win EXCEPT ![d] = image]
          /\ wanted' = [wanted EXCEPT ![d] = TRUE]
          /\ missed' = missed \ {d}
          /\ todo' = << "status" >>
          /\ Unannounced(d)
     ELSE UNCHANGED <<cdrom, win, wanted, missed, todo, guestView>>
  /\ UNCHANGED <<model, floppy, mirror, disk, paused, wasPaused, running>>

\* Defect: ejectScsiDevice, which takes the target off the bus.
DetachedCd(cd) == NoDrive

\* The machine's ejectScsiCdRom.
EjectedCd(cd) == IF cd.attached THEN Eject(cd) ELSE cd

\* ejectScsiFromToolbar, enabled while the profile names an image.
EjectScsi(d) ==
  /\ AtRest /\ HasScsi /\ win[d] # NoMedium
  /\ win' = [win EXCEPT ![d] = NoMedium]
  /\ cdrom' = [cdrom EXCEPT ![d] = EjectedCd(cdrom[d])]
  /\ wanted' = [wanted EXCEPT ![d] = FALSE]
  /\ todo' = << "status" >>
  /\ IF cdrom[d].attached THEN Unannounced(d) ELSE UNCHANGED guestView
  /\ UNCHANGED <<model, floppy, mirror, disk, paused, wasPaused, running, missed>>

-----------------------------------------------------------------------------
(* The rest of the window.                                                  *)

\* The menu's and the toolbar's Pause/Resume; a guest's power-off pauses as well.
TogglePause ==
  /\ AtRest
  /\ todo' = << IF paused THEN "resume" ELSE "pause", "status" >>
  /\ UNCHANGED <<model, machine, win, paused, wasPaused, running, wanted, missed, guestView>>

\* The Reset actions, and a guest's restart.
LoadAndReset ==
  /\ AtRest
  /\ todo' = LoadAndResetCalls
  /\ UNCHANGED <<model, machine, win, paused, wasPaused, running, wanted, missed, guestView>>

\* Every fifteenth frame.
Frame ==
  /\ AtRest /\ ~paused
  /\ win' = Reconciled
  /\ UNCHANGED <<model, machine, paused, wasPaused, todo, running, wanted, missed, guestView>>

ConfigureMachine ==
  /\ AtRest
  /\ wasPaused' = paused
  /\ todo' = PauseCalls \o << "dialog" >>
  /\ UNCHANGED <<model, machine, win, paused, running, wanted, missed, guestView>>

\* The dialog is accepted with another image, or none, in drive d, or in no drive.
\* A hardware change asks for the reset as well.  loadAndReset looks at the drives of
\* the old machine first, and clears an image chosen for a drive that is empty there.
AcceptDialog(d, image, hardware) ==
  /\ Calling("dialog")
  /\ d \in Configured
  /\ win' = [win EXCEPT ![d] = image]
  /\ wanted' = IF win' = win THEN wanted ELSE [wanted EXCEPT ![d] = image # NoMedium]
  /\ todo' = (IF hardware \/ win' # win THEN LoadAndResetCalls ELSE << "status" >>) \o RestoreCalls
  /\ UNCHANGED <<model, machine, paused, wasPaused, running, missed, guestView>>

RejectDialog ==
  /\ Calling("dialog")
  /\ todo' = RestoreCalls
  /\ UNCHANGED <<model, machine, win, paused, wasPaused, running, wanted, missed, guestView>>

\* The window closes, in any state of the drives, and the profile is opened again.
Reopen ==
  /\ AtRest
  /\ floppy' = [d \in Floppies |-> NoMedium] /\ mirror' = floppy'
  /\ disk' = [d \in Disks |-> NoMedium]
  /\ cdrom' = [d \in Cds |-> NoDrive]
  /\ running' = FALSE /\ paused' = TRUE /\ wasPaused' = FALSE
  /\ todo' = OpenCalls
  /\ missed' = Cds
  /\ told' = [d \in Cds |-> TRUE] /\ owed' = [d \in Cds |-> "any"]
  /\ reply' = [d \in Cds |-> Silence]
  /\ UNCHANGED <<model, win, wanted>>

\* The control server runs on the window's event loop: between handlers, or while
\* the dialog is open.  It pauses the runner, not the window, and resets the machine.
EventLoop == AtRest \/ Calling("dialog")

ControlPause ==
  /\ EventLoop
  /\ running' \in BOOLEAN
  /\ UNCHANGED <<model, machine, window, wanted, missed, guestView>>

ControlReset ==
  /\ EventLoop
  /\ cdrom' = [d \in Cds |-> IF cdrom[d].attached THEN AcknowledgeMediaChange(cdrom[d]) ELSE cdrom[d]]
  /\ told' = [d \in Cds |-> TRUE] /\ owed' = [d \in Cds |-> "any"]
  /\ reply' = [d \in Cds |-> Silence]
  /\ UNCHANGED <<model, floppy, mirror, disk, window, running, wanted, missed>>

-----------------------------------------------------------------------------
(* The guest.                                                               *)

\* Defect: nobody set the callback.
NoCallback(d) == mirror

\* What setMediaEjectedCallback does to the machine's mirror.
MediaEjected(d) == [mirror EXCEPT ![d] = NoMedium]

\* ejectSelectedDrive.
GuestEjectsFloppy(d) ==
  /\ running
  /\ floppy' = [floppy EXCEPT ![d] = NoMedium]
  /\ mirror' = MediaEjected(d)
  /\ wanted' = [wanted EXCEPT ![d] = FALSE]
  /\ UNCHANGED <<model, disk, cdrom, window, running, missed, guestView>>

\* The failures whose key REQUEST SENSE does not report.
Unstored(command, answer) == command \in {"toc", "modeSense"} /\ answer.key = "illegal"

\* What the guest has heard, and what it may expect, after an answer.
Heard(d, command, answer) ==
  /\ told' = [told EXCEPT ![d] =
        IF command = "eject" /\ answer.status = "good" THEN FALSE ELSE @ \/ answer.key = "attention"]
  /\ owed' = [owed EXCEPT ![d] =
        CASE command = "inquiry"                                -> @
          [] command = "eject" /\ answer.status = "good"        -> "attention"
          [] answer.status = "check" /\ ~Unstored(command, answer) -> answer.key
          [] OTHER                                              -> "any"]
  /\ reply' = [reply EXCEPT ![d] =
        [data |-> answer.data, told |-> told[d], key |-> answer.key,
         owed |-> IF command = "sense" THEN owed[d] ELSE "any"]]

GuestCommand(d, command, valid) ==
  /\ running /\ cdrom[d].attached
  /\ LET answer == ExecuteCommand(cdrom[d], command, valid) IN
       /\ cdrom' = [cdrom EXCEPT ![d] = answer.cd]
       /\ wanted' = IF answer.cd.image # cdrom[d].image THEN [wanted EXCEPT ![d] = FALSE] ELSE wanted
       /\ Heard(d, command, answer)
  /\ UNCHANGED <<model, floppy, mirror, disk, window, running, missed>>

Calls == Pause \/ Resume \/ Restore \/ UpdateStatus \/ Reconfigure

Next ==
  \/ Calls
  \/ \E d \in Floppies :
       \/ \E image \in Images[d], outcome \in {"loaded", "failed", "refused"} :
            InsertFloppyPath(d, image, outcome)
       \/ EjectFloppy(d) \/ GuestEjectsFloppy(d)
  \/ \E d \in Cds :
       \/ \E image \in Images[d], loads \in BOOLEAN : InsertScsiPath(d, image, loads)
       \/ EjectScsi(d)
       \/ \E command \in Commands, valid \in BOOLEAN : GuestCommand(d, command, valid)
  \/ TogglePause \/ LoadAndReset \/ Frame \/ ConfigureMachine
  \/ \E d \in Drives : \E image \in Images[d] \cup {NoMedium}, hardware \in BOOLEAN :
       AcceptDialog(d, image, hardware)
  \/ RejectDialog \/ Reopen \/ ControlPause \/ ControlReset

\* The event loop makes progress: a handler makes its calls (the user may leave
\* the dialog open) and the frame timer fires while the window is not paused.
Spec == Init /\ [][Next]_vars /\ WF_vars(Calls) /\ WF_vars(Frame)

-----------------------------------------------------------------------------
(* Properties.                                                              *)

\* The variables have their types, a medium is only in a drive that exists, and a
\* machine without SCSI has no SCSI media.
TypeOK ==
  /\ model \in Models
  /\ win \in [Drives -> Media \cup {NoMedium}]
  /\ floppy \in [Floppies -> Media \cup {NoMedium}] /\ mirror \in [Floppies -> Media \cup {NoMedium}]
  /\ disk \in [Disks -> Media \cup {NoMedium}]
  /\ cdrom \in [Cds -> CdType]
  /\ \A d \in Cds : cdrom[d].image # NoMedium => cdrom[d].attached
  /\ \A d \in Drives \ Configured : win[d] = NoMedium /\ Inside(d) = NoMedium
  /\ running \in BOOLEAN /\ paused \in BOOLEAN /\ wasPaused \in BOOLEAN
  /\ todo \in Seq(CallNames) /\ Len(todo) <= 8
  /\ wanted \in [Drives -> BOOLEAN] /\ missed \subseteq Cds
  /\ told \in [Cds -> BOOLEAN] /\ owed \in [Cds -> SenseKeys \cup {"any"}]
  /\ reply \in [Cds -> Replies]

\* Between handlers every medium in a drive is the one the profile names for it: no
\* order of toolbar actions, failed or refused images, guest ejects, resets and
\* dialogs leaves the machine with a disk the toolbar cannot show or eject
\* (reconcileGuestEjectedMedia only ever clears paths and relies on this).
NamesWhatIsInside ==
  AtRest => \A d \in Drives : Inside(d) \in {NoMedium, win[d]}

\* A configured CD-ROM drive stays on the SCSI bus when it is emptied, by the toolbar
\* or the guest; it is missing only when its image could not be loaded at the last
\* reset (loadScsiCdRom returns before it makes the drive).
CdStaysSelectable == \A d \in Cds : cdrom[d].attached \/ d \in missed

\* Profile and machine agree on the drives: no medium inside that the profile does not
\* name, no configured CD-ROM drive missing because its medium went.
DrivesMatchProfile == NamesWhatIsInside /\ CdStaysSelectable

\* A medium that was ejected, by the guest or the user, does not come back into the
\* drive until the user chooses one again: loadAndReset, a guest's restart and an
\* accepted dialog reload the profile only after they stopped the guest and looked
\* at the drives.
EjectSticks ==
  [][\A d \in Removable : Inside(d) = NoMedium /\ Inside(d)' # NoMedium => wanted[d]' ]_vars

\* The guest never gets data of a CD-ROM it has not been told of: after a change of
\* medium the drive reports UNIT ATTENTION, or has its guest restarted, first,
\* whatever the guest asks and wherever the change falls among its commands.
CdChangeAnnounced == \A d \in Cds : reply[d].data # NoMedium => reply[d].told

\* REQUEST SENSE reports the CHECK CONDITION that was the drive's last answer, or
\* UNIT ATTENTION when the medium changed since (MODE SENSE and READ TOC excepted,
\* which do not store the key they fail with).
SenseExplains == \A d \in Cds : reply[d].owed \in {"any", reply[d].key}

\* What the CD-ROM drive tells its guest is true of the medium: no data before the
\* change is announced, and sense that explains the last failure, although window and
\* guest change the medium between any two commands.
GuestHearsOfCd == CdChangeAnnounced /\ SenseExplains

\* A removable medium that is no longer in its drive leaves the profile, or the drive
\* gets another, unless the window is paused and its frames with it.
EjectReachesProfile ==
  \A d \in Removable :
    (win[d] # NoMedium /\ Inside(d) = NoMedium)
      ~> (win[d] = NoMedium \/ Inside(d) # NoMedium \/ paused)

\* A hard disk leaves the profile only in the dialog, even when its image could not
\* be loaded at a reset and the machine reports none.
DisksStayInProfile ==
  [][\A d \in Disks : win[d] # NoMedium /\ win[d]' = NoMedium => Calling("dialog")]_vars

\* reconcileGuestEjectedMedia makes the profile follow the ejects, all of them and
\* nothing else: removable media that are gone leave it, hard disks do not.
ProfileFollowsEjects == EjectReachesProfile /\ DisksStayInProfile
=============================================================================
