---------------------------- MODULE Media_proofs -----------------------------
(***************************************************************************)
(* Profile, drives and guest agree, whatever the drives, the images and    *)
(* the number of each.  The window's handlers are sequences of calls, so   *)
(* the strengthening says which calls may still be to come and what they   *)
(* will find: a reconfigure follows a pause and a look at the drives       *)
(* (CallsInOrder, GuestStopped), so it puts back no removable medium that  *)
(* is not inside (LookedAt); the profile may name another medium than the  *)
(* drive holds only while a reconfigure is to come (NamedOrReloading).     *)
(* The CD-ROM's part is that an unannounced change shows in the drive's    *)
(* own state (Announces).                                                  *)
(***************************************************************************)
EXTENDS Media, SequenceTheorems, TLAPS

\* The machine's second record of its floppies is right where it keeps one.
MirrorKept == Mirrors => mirror = floppy

\* A handler pauses, looks and then reconfigures; the dialog is its last call.
Ordered(calls) ==
  /\ calls \in Seq(CallNames) /\ Len(calls) <= 8
  /\ \A i \in 1..Len(calls) :
       /\ calls[i] = "reconfigure" /\ i > 1 => calls[i - 1] = "status"
       /\ calls[i] = "reconfigure" /\ i > 2 => calls[i - 2] = "pause"
       /\ calls[i] = "dialog" => i = Len(calls)
CallsInOrder == Ordered(todo)

\* Once the handler has paused it, the guest stays stopped until the reconfigure.
GuestStopped ==
  \A i \in 1..Len(todo) : todo[i] = "reconfigure" /\ i <= 2 => ~running

\* After that look, the profile names no removable medium that is not inside.
LookedAt ==
  Calling("reconfigure") => \A d \in Removable : win[d] # NoMedium => Inside(d) # NoMedium

\* A medium the profile does not name goes with the reconfigure to come.
NamedOrReloading ==
  \/ \E i \in 1..Len(todo) : todo[i] = "reconfigure"
  \/ \A d \in Drives : Inside(d) \in {NoMedium, win[d]}

\* A change the guest has not heard of is the drive's unit attention, and the sense
\* the drive would report is the one it owes.
Announces ==
  \A d \in Cds :
    /\ cdrom[d].attention => cdrom[d].sense = "attention"
    /\ ~told[d] => cdrom[d].attention
    /\ owed[d] \in {"any", cdrom[d].sense}

Handlers == MirrorKept /\ CallsInOrder /\ GuestStopped /\ LookedAt /\ NamedOrReloading

CdRoms == CdStaysSelectable /\ Announces /\ GuestHearsOfCd

Inv == TypeOK /\ Handlers /\ CdRoms
-----------------------------------------------------------------------------
(* The lists of calls.                                                      *)

\* A handler's calls from the first on.
Complete(calls) ==
  Ordered(calls) /\ \A i \in 1..Len(calls) : calls[i] = "reconfigure" => i > 2

\* Every handler's list of calls is in order.
LEMMA HandlersComplete ==
  /\ Complete(OpenCalls) /\ Complete(LoadAndResetCalls)
  /\ Complete(PauseCalls \o << "dialog" >>) /\ Complete(RestoreCalls)
  /\ Complete(LoadAndResetCalls \o RestoreCalls) /\ Complete(<< "status" >> \o RestoreCalls)
  /\ Complete(<< "status" >>) /\ Complete(<< "resume", "status" >>) /\ Complete(<< "pause", "status" >>)
<1> USE DEF Complete, Ordered, CallNames
<1>1. Complete(OpenCalls)
  BY DEF OpenCalls, PauseCalls
<1>2. Complete(LoadAndResetCalls)
  BY DEF LoadAndResetCalls, PauseCalls
<1>3. Complete(PauseCalls \o << "dialog" >>) /\ Complete(RestoreCalls)
  BY DEF PauseCalls, RestoreCalls
<1>4. Complete(LoadAndResetCalls \o RestoreCalls)
  BY DEF LoadAndResetCalls, PauseCalls, RestoreCalls
<1>5. Complete(<< "status" >> \o RestoreCalls)
  BY DEF RestoreCalls
<1>6. Complete(<< "status" >>) /\ Complete(<< "resume", "status" >>) /\ Complete(<< "pause", "status" >>)
  OBVIOUS
<1> QED BY <1>1, <1>2, <1>3, <1>4, <1>5, <1>6

\* What is left of a list when its first call has been made.
LEMMA CallMade ==
  ASSUME TypeOK, CallsInOrder, GuestStopped, ~AtRest, todo' = Tail(todo)
  PROVE  /\ CallsInOrder'
         /\ \A i \in 1..Len(todo') : todo'[i] = "reconfigure" /\ i <= 2 =>
              \/ Head(todo) = "status" /\ ~running
              \/ Head(todo) = "pause"
         /\ Calling("reconfigure")' => Head(todo) = "status"
         /\ Head(todo) # "reconfigure" /\ (\E i \in 1..Len(todo) : todo[i] = "reconfigure")
              => \E i \in 1..Len(todo') : todo'[i] = "reconfigure"
<1>1. todo \in Seq(CallNames) /\ todo # << >> /\ Len(todo) <= 8
  BY DEF TypeOK, AtRest
<1>7. Len(todo) \in Nat /\ Len(todo') \in Nat /\ Len(todo') = Len(todo) - 1
  BY <1>1
<1>2. /\ todo' \in Seq(CallNames) /\ Len(todo') = Len(todo) - 1 /\ Len(todo) \in Nat
      /\ \A i \in 1..Len(todo') : todo'[i] = todo[i + 1]
      /\ Head(todo) = todo[1]
  BY <1>1
<1>3. CallsInOrder'
  <2>1. ASSUME NEW i \in 1..Len(todo')
        PROVE  /\ todo'[i] = "reconfigure" /\ i > 1 => todo'[i - 1] = "status"
               /\ todo'[i] = "reconfigure" /\ i > 2 => todo'[i - 2] = "pause"
               /\ todo'[i] = "dialog" => i = Len(todo')
    <3>1. i + 1 \in 1..Len(todo) /\ todo'[i] = todo[i + 1]
      BY <1>2
    <3>2. i > 1 => todo'[i - 1] = todo[(i + 1) - 1]
      BY <1>2
    <3>3. i > 2 => todo'[i - 2] = todo[(i + 1) - 2]
      BY <1>2
    <3>4. /\ todo[i + 1] = "reconfigure" /\ i + 1 > 1 => todo[(i + 1) - 1] = "status"
          /\ todo[i + 1] = "reconfigure" /\ i + 1 > 2 => todo[(i + 1) - 2] = "pause"
          /\ todo[i + 1] = "dialog" => i + 1 = Len(todo)
      BY <3>1, Zenon DEF CallsInOrder, Ordered
    <3>5. i + 1 > 1 /\ (i > 1 => i + 1 > 2) /\ (i + 1 = Len(todo) => i = Len(todo'))
      BY <1>7
    <3>6. i > 2 => i > 1
      OBVIOUS
    <3> QED BY <3>1, <3>2, <3>3, <3>4, <3>5, <3>6, Zenon
  <2>2. Len(todo') <= 8
    BY <1>1, <1>2
  <2> QED BY <1>2, <2>1, <2>2 DEF CallsInOrder, Ordered
<1>4. ASSUME NEW i \in 1..Len(todo'), todo'[i] = "reconfigure", i <= 2
      PROVE  (Head(todo) = "status" /\ ~running) \/ Head(todo) = "pause"
  <2>1. i + 1 \in 1..Len(todo) /\ todo[i + 1] = "reconfigure"
    BY <1>2, <1>4
  <2>2. i = 1 \/ i = 2
    BY <1>4
  <2>3. CASE i = 1
    <3>1. 2 \in 1..Len(todo) /\ todo[2] = "reconfigure"
      BY <2>1, <2>3
    <3>2. todo[2 - 1] = "status" /\ ~running
      BY <3>1 DEF CallsInOrder, Ordered, GuestStopped
    <3> QED BY <1>2, <3>2
  <2>4. CASE i = 2
    <3>1. 3 \in 1..Len(todo) /\ todo[3] = "reconfigure"
      BY <2>1, <2>4
    <3>2. todo[3 - 2] = "pause"
      BY <3>1 DEF CallsInOrder, Ordered
    <3> QED BY <1>2, <3>2
  <2> QED BY <2>2, <2>3, <2>4
<1>5. ASSUME Calling("reconfigure")' PROVE Head(todo) = "status"
  <2>1. todo' # << >> /\ Head(todo') = "reconfigure"
    BY <1>5 DEF Calling, AtRest
  <2>2. 1 \in 1..Len(todo') /\ todo'[1] = "reconfigure"
    BY <1>2, <2>1
  <2>3. 2 \in 1..Len(todo) /\ todo[2] = "reconfigure"
    BY <1>2, <2>2
  <2>4. todo[2 - 1] = "status"
    BY <2>3 DEF CallsInOrder, Ordered
  <2> QED BY <1>2, <2>4
<1>6. ASSUME Head(todo) # "reconfigure", NEW i \in 1..Len(todo), todo[i] = "reconfigure"
      PROVE  \E j \in 1..Len(todo') : todo'[j] = "reconfigure"
  <2>1. i # 1
    BY <1>2, <1>6
  <2>2. i - 1 \in 1..Len(todo') /\ todo'[i - 1] = todo[i]
    BY <1>2, <2>1
  <2> QED BY <1>6, <2>2
<1> QED BY <1>3, <1>4, <1>5, <1>6

\* While the event loop runs no handler is about to reconfigure.
LEMMA NothingToCome ==
  ASSUME TypeOK, CallsInOrder, EventLoop
  PROVE  \A i \in 1..Len(todo) : todo[i] # "reconfigure"
<1>1. todo \in Seq(CallNames) /\ Len(todo) \in Nat
  BY DEF TypeOK
<1>2. CASE AtRest
  BY <1>2 DEF AtRest
<1>3. CASE Calling("dialog")
  <2>1. todo # << >> /\ todo[1] = "dialog"
    BY <1>1, <1>3 DEF Calling, AtRest
  <2>2. 1 \in 1..Len(todo)
    BY <1>1, <2>1
  <2>3. Len(todo) = 1
    BY <2>1, <2>2, Zenon DEF CallsInOrder, Ordered
  <2>4. \A i \in 1..Len(todo) : i = 1
    BY <2>3
  <2> QED BY <2>1, <2>4
<1> QED BY <1>2, <1>3 DEF EventLoop

\* What a drive holds.
LEMMA Contents ==
  /\ \A d \in Floppies : d \in Drives /\ Inside(d) = floppy[d]
  /\ \A d \in Disks : d \in Drives /\ Inside(d) = disk[d]
  /\ \A d \in Cds : d \in Drives /\ Inside(d) = cdrom[d].image
  /\ \A d \in Floppies : Inside(d)' = floppy'[d]
  /\ \A d \in Disks : Inside(d)' = disk'[d]
  /\ \A d \in Cds : Inside(d)' = cdrom'[d].image
  /\ MirrorKept => \A d \in Drives : Reported(d) = Inside(d)
<1>1. Floppies \cap Disks = {} /\ Floppies \cap Cds = {} /\ Disks \cap Cds = {}
  BY DrivesAssumption
<1> QED BY <1>1 DEF Drives, Inside, Reported, MirrorKept, Mirrors

-----------------------------------------------------------------------------
(* The CD-ROM drive.                                                        *)

\* What the window's side does to a drive.
LEMMA DriveChanges ==
  ASSUME NEW cd \in CdType, NEW image \in Media \cup {NoMedium}
  PROVE  /\ LoadImage(cd, image) \in CdType /\ LoadImage(cd, image).attached = cd.attached
         /\ LoadImage(cd, image).image = image /\ LoadImage(cd, image).sense = "attention"
         /\ LoadImage(cd, image).attention = TRUE
         /\ Eject(cd) \in CdType /\ Eject(cd).attached = cd.attached
         /\ Eject(cd).image = NoMedium /\ Eject(cd).sense = "attention" /\ Eject(cd).attention = TRUE
         /\ AcknowledgeMediaChange(cd) \in CdType
         /\ AcknowledgeMediaChange(cd).attached = cd.attached
         /\ AcknowledgeMediaChange(cd).image = cd.image
         /\ AcknowledgeMediaChange(cd).attention = FALSE
BY DEF CdType, SenseKeys, LoadImage, Eject, AcknowledgeMediaChange, Settled

LEMMA FreshDrives ==
  /\ NoDrive \in CdType /\ ~NoDrive.attached /\ NoDrive.image = NoMedium /\ ~NoDrive.attention
  /\ EmptyDrive \in CdType /\ EmptyDrive.attached /\ EmptyDrive.image = NoMedium
  /\ ~EmptyDrive.attention
BY DEF NoDrive, EmptyDrive, CdType, SenseKeys

\* What a command answers: it transfers nothing while a change of medium is
\* unannounced, announces the change when it clears the attention, and leaves the
\* sense that explains its failure.
Answers(cd, command, answer) ==
  /\ answer.cd \in CdType /\ answer.cd.attached = cd.attached
  /\ answer.cd.image \in {cd.image, NoMedium}
  /\ answer.key \in SenseKeys /\ answer.data \in Media \cup {NoMedium}
  /\ answer.cd.attention => answer.cd.sense = "attention"
  /\ cd.attention => answer.data = NoMedium
  /\ cd.attention /\ ~answer.cd.attention => answer.key = "attention"
  /\ command = "eject" /\ answer.status = "good" => answer.cd.attention
  /\ command = "inquiry" => answer.cd = cd /\ answer.status = "good"
  /\ command # "inquiry" /\ answer.status = "check" /\ ~Unstored(command, answer)
       => answer.cd.sense = answer.key
  /\ command = "sense" => answer.key = cd.sense

LEMMA CommandAnswers ==
  ASSUME NEW cd \in CdType, cd.attention => cd.sense = "attention",
         NEW command \in Commands, NEW valid \in BOOLEAN
  PROVE  Answers(cd, command, ExecuteCommand(cd, command, valid))
<1> DEFINE answer == ExecuteCommand(cd, command, valid)
<1> SUFFICES Answers(cd, command, answer)
  OBVIOUS
<1> USE DEF Good, CheckCondition, Unstored
<1>1. /\ cd.attached \in BOOLEAN /\ cd.image \in Media \cup {NoMedium}
      /\ cd.sense \in SenseKeys /\ cd.attention \in BOOLEAN
  BY DEF CdType
<1>2. CASE cd.attention /\ command \notin {"sense", "inquiry"}
  <2>1. answer = CheckCondition([cd EXCEPT !.attention = FALSE], "attention")
    BY <1>2 DEF ExecuteCommand
  <2> HIDE DEF answer
  <2> QED BY <1>1, <1>2, <2>1 DEF Answers, CdType, SenseKeys
<1>3. CASE ~(cd.attention /\ command \notin {"sense", "inquiry"})
           /\ cd.image = NoMedium /\ command \notin WithoutMedium
  <2>1. answer = CheckCondition(cd, "notReady") /\ command \notin {"sense", "inquiry", "eject"}
    BY <1>3 DEF ExecuteCommand, WithoutMedium
  <2> HIDE DEF answer
  <2> QED BY <1>1, <1>3, <2>1 DEF Answers, CdType, SenseKeys
<1>4. CASE ~(cd.attention /\ command \notin {"sense", "inquiry"})
           /\ ~(cd.image = NoMedium /\ command \notin WithoutMedium)
  <2>1. answer = Dispatch(cd, command, valid)
    BY <1>4 DEF ExecuteCommand
  <2>2. \/ command = "sense" /\ answer = RequestSense(cd)
        \/ command = "eject" /\ answer = Good(Eject(cd), NoMedium)
        \/ command \notin {"sense", "eject", "inquiry"} /\ answer = Read(cd)
        \/ command \notin {"sense", "eject", "inquiry"} /\ answer = Good(cd, cd.image)
        \/ command \in {"toc", "modeSense"} /\ answer = FailUnstored(cd)
        \/ command \notin {"sense", "eject", "inquiry"} /\ answer = CheckCondition(cd, "illegal")
        \/ command \notin {"sense", "eject"} /\ answer = Good(cd, NoMedium)
    <3> HIDE DEF Good, CheckCondition
    <3> QED BY <2>1 DEF Dispatch
  <2> HIDE DEF answer
  <2>3. CASE command = "sense" /\ answer = RequestSense(cd)
    BY <1>1, <2>3 DEF RequestSense, AcknowledgeMediaChange, Settled, Answers, CdType, SenseKeys
  <2>4. CASE command = "eject" /\ answer = Good(Eject(cd), NoMedium)
    BY <1>1, <1>4, <2>4 DEF Eject, Answers, CdType, SenseKeys
  <2>5. CASE command \notin {"sense", "eject", "inquiry"} /\ answer = Read(cd)
    BY <1>1, <1>4, <2>5 DEF Read, Answers, CdType, SenseKeys
  <2>6. CASE command \notin {"sense", "eject", "inquiry"} /\ answer = Good(cd, cd.image)
    BY <1>1, <1>4, <2>6 DEF Answers, SenseKeys
  <2>7. CASE command \in {"toc", "modeSense"} /\ answer = FailUnstored(cd)
    BY <1>1, <1>4, <2>7 DEF FailUnstored, Answers, SenseKeys
  <2>8. CASE command \notin {"sense", "eject", "inquiry"} /\ answer = CheckCondition(cd, "illegal")
    BY <1>1, <1>4, <2>8 DEF Answers, CdType, SenseKeys
  <2>9. CASE command \notin {"sense", "eject"} /\ answer = Good(cd, NoMedium)
    BY <1>1, <1>4, <2>9 DEF Answers, SenseKeys
  <2> QED BY <2>2, <2>3, <2>4, <2>5, <2>6, <2>7, <2>8, <2>9
<1> QED BY <1>2, <1>3, <1>4

-----------------------------------------------------------------------------
(* The invariant, action by action.                                         *)

\* A handler that begins, or nothing left to call.
LEMMA HandlerBegins ==
  ASSUME Complete(todo'), MirrorKept', NamedOrReloading'
  PROVE  Handlers'
<1>1. CallsInOrder' /\ GuestStopped'
  BY DEF Complete, CallsInOrder, GuestStopped
<1>2. ~Calling("reconfigure")'
  <2>1. todo' \in Seq(CallNames) /\ \A i \in 1..Len(todo') : todo'[i] = "reconfigure" => i > 2
    BY DEF Complete, Ordered
  <2> QED BY <2>1 DEF Calling, AtRest
<1> QED BY <1>1, <1>2 DEF Handlers, LookedAt

LEMMA EmptyComplete == Complete(<< >>)
BY DEF Complete, Ordered, CallNames

\* What concerns the CD-ROM drives when nothing happens to them.
LEMMA CdsUntouched ==
  ASSUME CdRoms, UNCHANGED <<cdrom, missed, guestView>>
  PROVE  CdRoms'
BY DEF CdRoms, CdStaysSelectable, Announces, GuestHearsOfCd, CdChangeAnnounced, SenseExplains, guestView

\* The profile's drives, all empty, before the machine is given any medium.
LEMMA InitInv == Init => Inv
<1> SUFFICES ASSUME Init PROVE Inv
  OBVIOUS
<1>1. TypeOK
  <2>1. todo \in Seq(CallNames) /\ Len(todo) <= 8
    BY HandlersComplete DEF Init, Complete, Ordered
  <2>2. win \in [Drives -> Media \cup {NoMedium}] /\ \A d \in Drives \ Configured : win[d] = NoMedium
    BY DEF Init
  <2>3. cdrom \in [Cds -> CdType] /\ \A d \in Cds : cdrom[d].image = NoMedium
    BY FreshDrives DEF Init
  <2>4. \A d \in Drives : Inside(d) = NoMedium
    BY <2>3, Contents DEF Init, Drives
  <2>5. told \in [Cds -> BOOLEAN] /\ owed \in [Cds -> SenseKeys \cup {"any"}]
    BY DEF Init
  <2>6. reply \in [Cds -> Replies]
    BY DEF Init, Silence, Replies, SenseKeys
  <2>7. /\ floppy \in [Floppies -> Media \cup {NoMedium}] /\ mirror \in [Floppies -> Media \cup {NoMedium}]
        /\ disk \in [Disks -> Media \cup {NoMedium}]
    BY DEF Init
  <2>8. wanted \in [Drives -> BOOLEAN] /\ missed \subseteq Cds
    BY DEF Init
  <2> QED BY <2>1, <2>2, <2>3, <2>4, <2>5, <2>6, <2>7, <2>8 DEF Init, TypeOK
<1>2. Handlers
  <2>1. Complete(todo) /\ todo \in Seq(CallNames)
    BY HandlersComplete DEF Init, Complete, Ordered
  <2>2. ~Calling("reconfigure")
    BY <2>1 DEF Calling, AtRest, Complete
  <2>3. CallsInOrder /\ GuestStopped /\ LookedAt
    BY <2>1, <2>2 DEF Complete, CallsInOrder, GuestStopped, LookedAt
  <2>4. MirrorKept
    BY DEF Init, MirrorKept
  <2>5. NamedOrReloading
    BY <1>1, FreshDrives, Contents DEF Init, NamedOrReloading, Drives
  <2> QED BY <2>3, <2>4, <2>5 DEF Handlers
<1>3. CdRoms
  BY FreshDrives DEF Init, CdRoms, CdStaysSelectable, Announces, GuestHearsOfCd, CdChangeAnnounced,
     SenseExplains, Silence
<1> QED BY <1>1, <1>2, <1>3 DEF Inv

\* Calls that do not touch the machine's drives.  The look at the drives clears the
\* paths of empty ones only.
LEMMA CallInv ==
  ASSUME Inv, Pause \/ Resume \/ Restore \/ UpdateStatus
  PROVE  Inv'
<1>1. /\ ~AtRest /\ todo' = Tail(todo) /\ Head(todo) # "reconfigure"
      /\ UNCHANGED <<model, machine, wasPaused, wanted, missed, guestView>>
      /\ \/ Head(todo) = "status" /\ win' = Reconciled /\ UNCHANGED <<running, paused>>
         \/ /\ Head(todo) # "status" /\ win' = win /\ running' \in BOOLEAN /\ paused' \in BOOLEAN
            /\ Head(todo) = "pause" => ~running'
  BY DEF Inv, TypeOK, Pause, Resume, Restore, UpdateStatus, Calling
<1>2. TypeOK /\ MirrorKept /\ CallsInOrder /\ GuestStopped /\ NamedOrReloading /\ CdRoms
  BY DEF Inv, Handlers
<1>3. /\ CallsInOrder'
      /\ \A i \in 1..Len(todo') : todo'[i] = "reconfigure" /\ i <= 2 =>
           (Head(todo) = "status" /\ ~running) \/ Head(todo) = "pause"
      /\ Calling("reconfigure")' => Head(todo) = "status"
      /\ (\E i \in 1..Len(todo) : todo[i] = "reconfigure")
           => \E i \in 1..Len(todo') : todo'[i] = "reconfigure"
  BY <1>1, <1>2, CallMade
<1>4. \A d \in Drives : Inside(d)' = Inside(d) /\ Reported(d) = Inside(d)
  BY <1>1, <1>2, Contents DEF machine, Drives
<1>5. /\ \A d \in Drives : win'[d] = win[d] \/ (win'[d] = NoMedium /\ Inside(d) = NoMedium)
      /\ win' \in [Drives -> Media \cup {NoMedium}]
      /\ Head(todo) = "status" => \A d \in Removable : win'[d] # NoMedium => Inside(d) # NoMedium
  BY <1>1, <1>2, <1>4 DEF Reconciled, TypeOK, Removable, Drives
<1>6. TypeOK'
  <2>1. todo' \in Seq(CallNames) /\ Len(todo') <= 8
    BY <1>3 DEF CallsInOrder, Ordered
  <2>2. Configured' = Configured
    BY <1>1 DEF Configured, HasScsi
  <2>3. \A d \in Drives \ Configured : win'[d] = NoMedium /\ Inside(d)' = NoMedium
    BY <1>2, <1>4, <1>5 DEF TypeOK
  <2>4. running' \in BOOLEAN /\ paused' \in BOOLEAN
    BY <1>1, <1>2 DEF TypeOK
  <2> QED BY <1>1, <1>2, <1>5, <2>1, <2>2, <2>3, <2>4 DEF TypeOK, machine, guestView
<1>7. Handlers'
  <2>1. MirrorKept'
    BY <1>1, <1>2 DEF MirrorKept, Mirrors, machine
  <2>2. GuestStopped'
    BY <1>1, <1>3 DEF GuestStopped
  <2>3. LookedAt'
    BY <1>3, <1>4, <1>5 DEF LookedAt, Removable, Drives
  <2>4. NamedOrReloading'
    BY <1>2, <1>3, <1>4, <1>5 DEF NamedOrReloading
  <2> QED BY <1>3, <2>1, <2>2, <2>3, <2>4 DEF Handlers
<1>8. CdRoms'
  BY <1>1, <1>2, CdsUntouched DEF machine
<1> QED BY <1>6, <1>7, <1>8 DEF Inv

\* A new machine holds what the profile names, or nothing.
LEMMA ReconfigureInv ==
  ASSUME Inv, Reconfigure
  PROVE  Inv'
<1>1. TypeOK /\ CallsInOrder /\ GuestStopped
  BY DEF Inv, Handlers
<1>2. PICK loaded \in SUBSET {d \in Configured : win[d] # NoMedium} :
        /\ Reconfigured(loaded)
        /\ missed' = {d \in Cds : d \notin Configured \/ (win[d] # NoMedium /\ d \notin loaded)}
  BY DEF Reconfigure
<1>3. /\ ~AtRest /\ Head(todo) = "reconfigure" /\ todo' = Tail(todo) /\ mirror' = floppy'
      /\ told' = [d \in Cds |-> TRUE] /\ owed' = [d \in Cds |-> "any"] /\ reply' = [d \in Cds |-> Silence]
      /\ UNCHANGED <<model, win, paused, wasPaused, running, wanted>>
  BY DEF Reconfigure, Calling
<1>4. /\ CallsInOrder' /\ ~Calling("reconfigure")'
      /\ \A i \in 1..Len(todo') : ~(todo'[i] = "reconfigure" /\ i <= 2)
  BY <1>1, <1>3, CallMade
<1>5. ASSUME NEW d \in Cds
      PROVE  /\ cdrom'[d] \in CdType /\ ~cdrom'[d].attention
             /\ cdrom'[d].image \in {NoMedium, win[d]}
             /\ cdrom'[d].image # NoMedium => d \in loaded /\ cdrom'[d].attached
             /\ cdrom'[d].attached \/ d \in missed'
  <2>1. d \in Drives /\ win[d] \in Media \cup {NoMedium}
    BY <1>1 DEF TypeOK, Drives
  <2>2. cdrom'[d] = CASE d \in loaded -> AcknowledgeMediaChange(LoadImage(EmptyDrive, win[d]))
                      [] d \in Configured /\ win[d] = NoMedium -> AcknowledgeMediaChange(EmptyDrive)
                      [] OTHER -> NoDrive
    BY <1>2 DEF Reconfigured
  <2>3. CASE d \in loaded
    <3>1. cdrom'[d] = AcknowledgeMediaChange(LoadImage(EmptyDrive, win[d]))
      BY <1>2, <2>2, <2>3
    <3>2. LoadImage(EmptyDrive, win[d]) \in CdType /\ LoadImage(EmptyDrive, win[d]).attached
          /\ LoadImage(EmptyDrive, win[d]).image = win[d]
      BY <2>1, DriveChanges, FreshDrives
    <3> QED BY ZenonT(60), <2>1, <2>3, <3>1, <3>2, DriveChanges
  <2>4. CASE d \notin loaded /\ d \in Configured /\ win[d] = NoMedium
    <3>1. cdrom'[d] = AcknowledgeMediaChange(EmptyDrive)
      BY <2>2, <2>4
    <3> QED BY <3>1, DriveChanges, FreshDrives
  <2>5. CASE d \notin loaded /\ ~(d \in Configured /\ win[d] = NoMedium)
    <3>1. cdrom'[d] = NoDrive
      BY <2>2, <2>5
    <3> QED BY <1>2, <2>5, <3>1, FreshDrives
  <2> QED BY <2>3, <2>4, <2>5
<1>6. /\ floppy' = [d \in Floppies |-> IF d \in loaded THEN win[d] ELSE NoMedium]
      /\ disk' = [d \in Disks |-> IF d \in loaded THEN win[d] ELSE NoMedium]
      /\ cdrom' = [d \in Cds |-> cdrom'[d]]
  BY <1>2 DEF Reconfigured
<1>7. \A d \in Drives : Inside(d)' \in {NoMedium, win[d]} /\ (Inside(d)' # NoMedium => d \in loaded)
  BY <1>5, <1>6, Contents DEF Drives
<1>8. TypeOK'
  <2>1. todo' \in Seq(CallNames) /\ Len(todo') <= 8
    BY <1>4 DEF CallsInOrder, Ordered
  <2>2. Configured' = Configured
    BY <1>3 DEF Configured, HasScsi
  <2>3. \A d \in Drives \ Configured : win'[d] = NoMedium /\ Inside(d)' = NoMedium
    BY <1>1, <1>2, <1>3, <1>7 DEF TypeOK
  <2>4. /\ floppy' \in [Floppies -> Media \cup {NoMedium}] /\ mirror' \in [Floppies -> Media \cup {NoMedium}]
        /\ disk' \in [Disks -> Media \cup {NoMedium}] /\ cdrom' \in [Cds -> CdType]
    BY <1>1, <1>3, <1>5, <1>6 DEF TypeOK, Drives
  <2>5. told' \in [Cds -> BOOLEAN] /\ owed' \in [Cds -> SenseKeys \cup {"any"}] /\ reply' \in [Cds -> Replies]
    BY <1>3 DEF Silence, Replies, SenseKeys
  <2>6. missed' \subseteq Cds
    BY <1>2
  <2> QED BY <1>1, <1>3, <1>5, <2>1, <2>2, <2>3, <2>4, <2>5, <2>6 DEF TypeOK
<1>9. Handlers'
  <2>1. MirrorKept' /\ GuestStopped' /\ LookedAt'
    BY <1>3, <1>4 DEF MirrorKept, GuestStopped, LookedAt
  <2>2. NamedOrReloading'
    BY <1>3, <1>7 DEF NamedOrReloading
  <2> QED BY <1>4, <2>1, <2>2 DEF Handlers
<1>10. CdRoms'
  BY <1>3, <1>5 DEF CdRoms, CdStaysSelectable, Announces, GuestHearsOfCd, CdChangeAnnounced,
     SenseExplains, Silence
<1> QED BY <1>8, <1>9, <1>10 DEF Inv

\* With no call to come, the drives hold what the profile names.
LEMMA RestNamed ==
  ASSUME Inv, EventLoop
  PROVE  \A d \in Drives : Inside(d) \in {NoMedium, win[d]}
BY NothingToCome DEF Inv, Handlers, NamedOrReloading

\* The toolbar's floppy buttons.
LEMMA FloppyInv ==
  ASSUME Inv, NEW d \in Floppies,
         \/ \E image \in Images[d], outcome \in {"loaded", "failed", "refused"} :
              InsertFloppyPath(d, image, outcome)
         \/ EjectFloppy(d)
  PROVE  Inv'
<1>1. /\ AtRest /\ UNCHANGED <<model, disk, cdrom, paused, wasPaused, running, missed, guestView>>
      /\ todo' \in {<< "status" >>, << >>}
  BY DEF InsertFloppyPath, EjectFloppy, AtRest
<1>2. TypeOK /\ MirrorKept /\ CdRoms /\ d \in Drives /\ d \in Configured
  BY DEF Inv, Handlers, Drives, Configured
<1>3. PICK m \in Media \cup {NoMedium} :
        \/ /\ floppy' = [floppy EXCEPT ![d] = m] /\ mirror' = [mirror EXCEPT ![d] = m]
           /\ win' = [win EXCEPT ![d] = m] /\ wanted' \in [Drives -> BOOLEAN]
        \/ UNCHANGED <<floppy, mirror, win, wanted>>
        \/ /\ floppy' = [floppy EXCEPT ![d] = NoMedium] /\ model = "mac128k"
           /\ UNCHANGED <<mirror, win, wanted>>
  <2>1. CASE EjectFloppy(d)
    BY <1>2, <2>1 DEF EjectFloppy, TypeOK
  <2>2. ASSUME NEW image \in Images[d], NEW outcome \in {"loaded", "failed", "refused"},
               InsertFloppyPath(d, image, outcome)
        PROVE  \E m \in Media \cup {NoMedium} :
                 \/ /\ floppy' = [floppy EXCEPT ![d] = m] /\ mirror' = [mirror EXCEPT ![d] = m]
                    /\ win' = [win EXCEPT ![d] = m] /\ wanted' \in [Drives -> BOOLEAN]
                 \/ UNCHANGED <<floppy, mirror, win, wanted>>
                 \/ /\ floppy' = [floppy EXCEPT ![d] = NoMedium] /\ model = "mac128k"
                    /\ UNCHANGED <<mirror, win, wanted>>
    <3>1. image \in Media
      BY <1>2, DrivesAssumption
    <3>2. CASE outcome = "loaded"
      BY <1>2, <2>2, <3>1, <3>2 DEF InsertFloppyPath, Recorded, TypeOK
    <3>3. CASE outcome = "failed"
      BY <2>2, <3>3 DEF InsertFloppyPath, Recorded
    <3>4. CASE outcome = "refused"
      BY <2>2, <3>4 DEF InsertFloppyPath, Recorded
    <3> QED BY <3>2, <3>3, <3>4
  <2> QED BY <2>1, <2>2
<1>4. /\ floppy' \in [Floppies -> Media \cup {NoMedium}] /\ mirror' \in [Floppies -> Media \cup {NoMedium}]
      /\ win' \in [Drives -> Media \cup {NoMedium}] /\ wanted' \in [Drives -> BOOLEAN]
      /\ \A x \in Drives \ {d} : win'[x] = win[x]
      /\ \A x \in Floppies \ {d} : floppy'[x] = floppy[x]
      /\ floppy'[d] \in {NoMedium, win'[d]} \/ UNCHANGED <<floppy, win>>
      /\ Mirrors => mirror' = floppy'
  BY <1>2, <1>3 DEF TypeOK, MirrorKept, Mirrors
<1>5. \A x \in Drives \ {d} : Inside(x)' = Inside(x)
  BY <1>1, <1>4, Contents DEF Drives
<1>6. \A x \in Drives : Inside(x)' \in {NoMedium, win'[x]}
  <2>1. \A x \in Drives : Inside(x) \in {NoMedium, win[x]}
    BY <1>1, RestNamed DEF EventLoop
  <2>2. Inside(d)' \in {NoMedium, win'[d]}
    BY <1>4, <2>1, Contents
  <2> QED BY <1>4, <1>5, <2>1, <2>2
<1>7. TypeOK'
  <2>1. todo' \in Seq(CallNames) /\ Len(todo') <= 8
    BY <1>1, HandlersComplete, EmptyComplete DEF Complete, Ordered
  <2>2. Configured' = Configured
    BY <1>1 DEF Configured, HasScsi
  <2>3. \A x \in Drives \ Configured : win'[x] = NoMedium /\ Inside(x)' = NoMedium
    BY <1>2, <1>4, <1>5 DEF TypeOK
  <2> QED BY <1>1, <1>2, <1>4, <2>1, <2>2, <2>3 DEF TypeOK, guestView
<1>8. Handlers'
  <2>1. Complete(todo')
    BY <1>1, HandlersComplete, EmptyComplete
  <2>2. MirrorKept' /\ NamedOrReloading'
    BY <1>1, <1>4, <1>6 DEF MirrorKept, Mirrors, NamedOrReloading
  <2> QED BY <2>1, <2>2, HandlerBegins
<1>9. CdRoms'
  BY <1>1, <1>2, CdsUntouched
<1> QED BY <1>7, <1>8, <1>9 DEF Inv

\* One CD-ROM drive changes: the window's side announces what it does, and so does
\* what the guest asks for.
LEMMA OneCdChanges ==
  ASSUME TypeOK, CdRoms, NEW d \in Cds, NEW c \in CdType, NEW t \in BOOLEAN,
         NEW o \in SenseKeys \cup {"any"}, NEW r \in Replies,
         cdrom' = [cdrom EXCEPT ![d] = c], told' = [told EXCEPT ![d] = t],
         owed' = [owed EXCEPT ![d] = o], reply' = [reply EXCEPT ![d] = r],
         missed' \in {missed, missed \ {d}},
         c.image # NoMedium => c.attached,
         c.attached \/ d \in missed',
         c.attention => c.sense = "attention", ~t => c.attention, o \in {"any", c.sense},
         r.data # NoMedium => r.told, r.owed \in {"any", r.key}
  PROVE  /\ CdRoms'
         /\ cdrom' \in [Cds -> CdType] /\ told' \in [Cds -> BOOLEAN]
         /\ owed' \in [Cds -> SenseKeys \cup {"any"}] /\ reply' \in [Cds -> Replies]
         /\ missed' \subseteq Cds
         /\ \A x \in Cds : cdrom'[x].image # NoMedium => cdrom'[x].attached
<1>1. /\ cdrom' \in [Cds -> CdType] /\ told' \in [Cds -> BOOLEAN]
      /\ owed' \in [Cds -> SenseKeys \cup {"any"}] /\ reply' \in [Cds -> Replies]
      /\ missed' \subseteq Cds
  BY DEF TypeOK
<1>2. /\ cdrom'[d] = c /\ told'[d] = t /\ owed'[d] = o /\ reply'[d] = r
      /\ \A x \in Cds \ {d} : /\ cdrom'[x] = cdrom[x] /\ told'[x] = told[x]
                             /\ owed'[x] = owed[x] /\ reply'[x] = reply[x]
                             /\ x \in missed => x \in missed'
  BY DEF TypeOK
<1>3. \A x \in Cds : cdrom'[x].image # NoMedium => cdrom'[x].attached
  BY <1>2 DEF TypeOK
<1>4. CdStaysSelectable'
  BY <1>2 DEF CdRoms, CdStaysSelectable
<1>5. Announces'
  BY <1>2 DEF CdRoms, Announces
<1>6. GuestHearsOfCd'
  BY <1>2 DEF CdRoms, GuestHearsOfCd, CdChangeAnnounced, SenseExplains
<1> QED BY <1>1, <1>3, <1>4, <1>5, <1>6 DEF CdRoms

\* The toolbar's CD-ROM buttons.
LEMMA ScsiInv ==
  ASSUME Inv, NEW d \in Cds,
         \/ \E image \in Images[d], loads \in BOOLEAN : InsertScsiPath(d, image, loads)
         \/ EjectScsi(d)
  PROVE  Inv'
<1>1. /\ AtRest /\ HasScsi /\ UNCHANGED <<model, floppy, mirror, disk, paused, wasPaused, running>>
      /\ todo' \in {<< "status" >>, << >>}
  BY DEF InsertScsiPath, EjectScsi, AtRest
<1>2. TypeOK /\ MirrorKept /\ CdRoms /\ d \in Drives /\ d \in Configured /\ cdrom[d] \in CdType
  BY <1>1 DEF Inv, Handlers, Drives, Configured, TypeOK
<1>3. reply[d] \in Replies /\ told[d] \in BOOLEAN /\ owed[d] \in SenseKeys \cup {"any"}
  BY <1>2 DEF TypeOK
<1>4. UNCHANGED reply /\ reply = [reply EXCEPT ![d] = reply[d]]
  BY <1>2 DEF InsertScsiPath, EjectScsi, Unannounced, TypeOK, guestView
<1> DEFINE Nothing == UNCHANGED <<cdrom, missed, guestView, win, wanted>>
           Forgotten ==
             /\ UNCHANGED <<cdrom, missed, guestView>> /\ ~cdrom[d].attached
             /\ win' = [win EXCEPT ![d] = NoMedium] /\ wanted' = [wanted EXCEPT ![d] = FALSE]
           Changed(m, c, w) ==
             /\ cdrom' = [cdrom EXCEPT ![d] = c] /\ Unannounced(d)
             /\ missed' \in {missed, missed \ {d}}
             /\ win' = [win EXCEPT ![d] = m] /\ wanted' = [wanted EXCEPT ![d] = w]
             /\ c.attached /\ c.image = m /\ c.sense = "attention" /\ c.attention = TRUE
<1>5. \/ Nothing
      \/ Forgotten
      \/ \E m \in Media \cup {NoMedium}, c \in CdType, w \in BOOLEAN : Changed(m, c, w)
  <2>1. ASSUME NEW image \in Images[d], InsertScsiPath(d, image, TRUE)
        PROVE  \E m \in Media \cup {NoMedium}, c \in CdType, w \in BOOLEAN : Changed(m, c, w)
    <3> DEFINE old == IF cdrom[d].attached THEN cdrom[d] ELSE EmptyDrive
               c == LoadImage(old, image)
    <3>1. image \in Media \cup {NoMedium}
      BY <1>2, DrivesAssumption
    <3>2. old \in CdType /\ old.attached
      BY <1>2, FreshDrives
    <3>3. c \in CdType /\ c.attached /\ c.image = image /\ c.sense = "attention" /\ c.attention = TRUE
      <4> HIDE DEF old
      <4> QED BY ZenonT(60), <3>1, <3>2, DriveChanges
    <3>4. /\ cdrom' = [cdrom EXCEPT ![d] = c] /\ Unannounced(d) /\ missed' = missed \ {d}
          /\ win' = [win EXCEPT ![d] = image] /\ wanted' = [wanted EXCEPT ![d] = TRUE]
      BY <2>1 DEF InsertScsiPath
    <3> HIDE DEF c
    <3> QED BY <3>1, <3>3, <3>4
  <2>2. ASSUME NEW image \in Images[d], InsertScsiPath(d, image, FALSE)
        PROVE  Nothing
    BY <2>2 DEF InsertScsiPath
  <2>3. ASSUME EjectScsi(d), cdrom[d].attached
        PROVE  \E m \in Media \cup {NoMedium}, c \in CdType, w \in BOOLEAN : Changed(m, c, w)
    <3>1. /\ Eject(cdrom[d]) \in CdType /\ Eject(cdrom[d]).attached /\ Eject(cdrom[d]).image = NoMedium
          /\ Eject(cdrom[d]).sense = "attention" /\ Eject(cdrom[d]).attention = TRUE
      BY <1>2, <2>3, DriveChanges
    <3>2. /\ cdrom' = [cdrom EXCEPT ![d] = Eject(cdrom[d])] /\ Unannounced(d) /\ missed' = missed
          /\ win' = [win EXCEPT ![d] = NoMedium] /\ wanted' = [wanted EXCEPT ![d] = FALSE]
      BY <2>3 DEF EjectScsi, EjectedCd
    <3> QED BY <3>1, <3>2
  <2>4. ASSUME EjectScsi(d), ~cdrom[d].attached PROVE Forgotten
    <3>1. [cdrom EXCEPT ![d] = cdrom[d]] = cdrom
      BY <1>2 DEF TypeOK
    <3> QED BY <2>4, <3>1 DEF EjectScsi, EjectedCd, guestView
  <2> QED BY <2>1, <2>2, <2>3, <2>4
<1> DEFINE Recordings ==
             /\ win' \in [Drives -> Media \cup {NoMedium}] /\ wanted' \in [Drives -> BOOLEAN]
             /\ \A x \in Drives \ {d} : win'[x] = win[x]
             /\ cdrom'[d].image \in {NoMedium, win'[d]} \/ UNCHANGED <<cdrom, win>>
             /\ \A x \in Cds \ {d} : cdrom'[x] = cdrom[x]
           CdTypes ==
             /\ cdrom' \in [Cds -> CdType] /\ told' \in [Cds -> BOOLEAN]
             /\ owed' \in [Cds -> SenseKeys \cup {"any"}] /\ reply' \in [Cds -> Replies]
             /\ missed' \subseteq Cds
             /\ \A x \in Cds : cdrom'[x].image # NoMedium => cdrom'[x].attached
<1>6. Recordings
  <2>1. CASE Nothing
    BY <1>2, <2>1 DEF TypeOK
  <2>2. CASE Forgotten
    BY <1>2, <2>2 DEF TypeOK
  <2>3. ASSUME NEW m \in Media \cup {NoMedium}, NEW c \in CdType, NEW w \in BOOLEAN, Changed(m, c, w)
        PROVE  Recordings
    BY <1>2, <2>3 DEF TypeOK
  <2> QED BY <1>5, <2>1, <2>2, <2>3
<1>7. CdRoms' /\ CdTypes
  <2>1. CASE UNCHANGED <<cdrom, missed, guestView>>
    BY <1>2, <2>1, CdsUntouched DEF TypeOK, guestView
  <2>2. ASSUME NEW c \in CdType, cdrom' = [cdrom EXCEPT ![d] = c], Unannounced(d),
               missed' \in {missed, missed \ {d}}, c.attached, c.sense = "attention", c.attention = TRUE
        PROVE  CdRoms' /\ CdTypes
    <3>1. told' = [told EXCEPT ![d] = FALSE] /\ owed' = [owed EXCEPT ![d] = "attention"]
      BY <2>2 DEF Unannounced
    <3>2. reply' = [reply EXCEPT ![d] = reply[d]] /\ "attention" \in SenseKeys \cup {"any"}
      BY <1>4 DEF SenseKeys
    <3>3. (reply[d].data # NoMedium => reply[d].told) /\ reply[d].owed \in {"any", reply[d].key}
      BY <1>2 DEF CdRoms, GuestHearsOfCd, CdChangeAnnounced, SenseExplains
    <3> QED BY <1>2, <1>3, <2>2, <3>1, <3>2, <3>3, OneCdChanges
  <2> QED BY <1>5, <2>1, <2>2
<1>8. \A x \in Drives : Inside(x)' \in {NoMedium, win'[x]} /\ (x # d => Inside(x)' = Inside(x))
  <2>1. \A x \in Drives : Inside(x) \in {NoMedium, win[x]}
    BY <1>1, RestNamed DEF EventLoop
  <2>2. \A x \in Drives \ {d} : Inside(x)' = Inside(x)
    BY <1>1, <1>6, Contents DEF Drives
  <2>3. Inside(d)' \in {NoMedium, win'[d]}
    BY <1>6, <2>1, Contents
  <2> QED BY <1>6, <2>1, <2>2, <2>3
<1>9. TypeOK'
  <2>1. todo' \in Seq(CallNames) /\ Len(todo') <= 8
    BY <1>1, HandlersComplete, EmptyComplete DEF Complete, Ordered
  <2>2. Configured' = Configured
    BY <1>1 DEF Configured, HasScsi
  <2>3. \A x \in Drives \ Configured : win'[x] = NoMedium /\ Inside(x)' = NoMedium
    BY <1>2, <1>6, <1>8 DEF TypeOK
  <2> QED BY <1>1, <1>2, <1>6, <1>7, <2>1, <2>2, <2>3 DEF TypeOK
<1>10. Handlers'
  <2>1. Complete(todo')
    BY <1>1, HandlersComplete, EmptyComplete
  <2>2. MirrorKept' /\ NamedOrReloading'
    BY <1>1, <1>2, <1>8 DEF MirrorKept, Mirrors, NamedOrReloading
  <2> QED BY <2>1, <2>2, HandlerBegins
<1> QED BY <1>7, <1>9, <1>10 DEF Inv

\* Handlers that begin between two of the event loop's and touch nothing yet.
LEMMA BeginInv ==
  ASSUME Inv, TogglePause \/ LoadAndReset \/ ConfigureMachine \/ RejectDialog
  PROVE  Inv'
<1>1. /\ EventLoop /\ Complete(todo') /\ wasPaused' \in BOOLEAN
      /\ UNCHANGED <<model, machine, win, paused, running, wanted, missed, guestView>>
  BY HandlersComplete DEF Inv, TypeOK, TogglePause, LoadAndReset, ConfigureMachine, RejectDialog, EventLoop
<1>2. \A d \in Drives : Inside(d)' = Inside(d)
  BY <1>1, Contents DEF machine, Drives
<1>3. TypeOK'
  <2>1. todo' \in Seq(CallNames) /\ Len(todo') <= 8
    BY <1>1 DEF Complete, Ordered
  <2>2. Configured' = Configured
    BY <1>1 DEF Configured, HasScsi
  <2> QED BY <1>1, <1>2, <2>1, <2>2 DEF Inv, TypeOK, machine, guestView
<1>4. Handlers'
  <2>1. MirrorKept'
    BY <1>1 DEF Inv, Handlers, MirrorKept, Mirrors, machine
  <2>2. NamedOrReloading'
    BY <1>1, <1>2, RestNamed DEF NamedOrReloading
  <2> QED BY <1>1, <2>1, <2>2, HandlerBegins
<1>5. CdRoms'
  BY <1>1, CdsUntouched DEF Inv, machine
<1> QED BY <1>3, <1>4, <1>5 DEF Inv

\* The frame timer's look at the drives.
LEMMA FrameInv ==
  ASSUME Inv, Frame
  PROVE  Inv'
<1>1. /\ AtRest /\ win' = Reconciled
      /\ UNCHANGED <<model, machine, paused, wasPaused, todo, running, wanted, missed, guestView>>
  BY DEF Frame
<1>2. TypeOK /\ MirrorKept /\ CallsInOrder /\ CdRoms
  BY DEF Inv, Handlers
<1>3. \A d \in Drives : Inside(d)' = Inside(d) /\ Reported(d) = Inside(d)
  BY <1>1, <1>2, Contents DEF machine, Drives
<1>4. /\ \A d \in Drives : win'[d] = win[d] \/ (win'[d] = NoMedium /\ Inside(d) = NoMedium)
      /\ win' \in [Drives -> Media \cup {NoMedium}]
  BY <1>1, <1>2, <1>3 DEF Reconciled, TypeOK
<1>5. TypeOK'
  <2>1. Configured' = Configured
    BY <1>1 DEF Configured, HasScsi
  <2>2. \A d \in Drives \ Configured : win'[d] = NoMedium /\ Inside(d)' = NoMedium
    BY <1>2, <1>3, <1>4 DEF TypeOK
  <2> QED BY <1>1, <1>2, <1>4, <2>1, <2>2 DEF TypeOK, machine, guestView
<1>6. Handlers'
  <2>1. Complete(todo')
    BY <1>1, EmptyComplete DEF AtRest
  <2>2. MirrorKept'
    BY <1>1, <1>2 DEF MirrorKept, Mirrors, machine
  <2>3. NamedOrReloading'
    BY <1>1, <1>3, <1>4, RestNamed DEF NamedOrReloading, EventLoop
  <2> QED BY <2>1, <2>2, <2>3, HandlerBegins
<1>7. CdRoms'
  BY <1>1, <1>2, CdsUntouched DEF machine
<1> QED BY <1>5, <1>6, <1>7 DEF Inv

\* The dialog changes the profile before the machine, and then reconfigures it.
LEMMA AcceptInv ==
  ASSUME Inv, NEW d \in Drives, NEW image \in Images[d] \cup {NoMedium}, NEW hardware \in BOOLEAN,
         AcceptDialog(d, image, hardware)
  PROVE  Inv'
<1>1. /\ EventLoop /\ d \in Configured /\ win' = [win EXCEPT ![d] = image]
      /\ wanted' = IF win' = win THEN wanted ELSE [wanted EXCEPT ![d] = image # NoMedium]
      /\ \/ todo' = LoadAndResetCalls \o RestoreCalls
         \/ todo' = << "status" >> \o RestoreCalls /\ win' = win
      /\ UNCHANGED <<model, machine, paused, wasPaused, running, missed, guestView>>
  BY DEF AcceptDialog, EventLoop
<1>2. TypeOK /\ MirrorKept /\ CdRoms
  BY DEF Inv, Handlers
<1>3. image \in Media \cup {NoMedium}
  BY DrivesAssumption
<1>4. \A x \in Drives : Inside(x)' = Inside(x)
  BY <1>1, Contents DEF machine, Drives
<1>5. Complete(todo')
  BY <1>1, HandlersComplete
<1>6. TypeOK'
  <2>1. todo' \in Seq(CallNames) /\ Len(todo') <= 8
    BY <1>5 DEF Complete, Ordered
  <2>2. Configured' = Configured
    BY <1>1 DEF Configured, HasScsi
  <2>3. win' \in [Drives -> Media \cup {NoMedium}] /\ wanted' \in [Drives -> BOOLEAN]
    BY <1>1, <1>2, <1>3 DEF TypeOK
  <2>4. \A x \in Drives \ Configured : win'[x] = NoMedium /\ Inside(x)' = NoMedium
    BY <1>1, <1>2, <1>4 DEF TypeOK
  <2> QED BY <1>1, <1>2, <2>1, <2>2, <2>3, <2>4 DEF TypeOK, machine, guestView
<1>7. Handlers'
  <2>1. MirrorKept'
    BY <1>1, <1>2 DEF MirrorKept, Mirrors, machine
  <2>2. CASE todo' = LoadAndResetCalls \o RestoreCalls
    <3>1. 3 \in 1..Len(todo') /\ todo'[3] = "reconfigure"
      BY <2>2 DEF LoadAndResetCalls, PauseCalls, RestoreCalls
    <3>2. NamedOrReloading'
      BY <3>1 DEF NamedOrReloading
    <3> QED BY <1>5, <2>1, <3>2, HandlerBegins
  <2>3. CASE win' = win
    <3>1. NamedOrReloading'
      BY <1>1, <1>4, <2>3, RestNamed DEF NamedOrReloading
    <3> QED BY <1>5, <2>1, <3>1, HandlerBegins
  <2> QED BY <1>1, <2>2, <2>3
<1>8. CdRoms'
  BY <1>1, <1>2, CdsUntouched DEF machine
<1> QED BY <1>6, <1>7, <1>8 DEF Inv

\* A window that opens has a machine with empty drives.
LEMMA ReopenInv ==
  ASSUME Inv, Reopen
  PROVE  Inv'
<1>1. /\ floppy' = [d \in Floppies |-> NoMedium] /\ mirror' = floppy'
      /\ disk' = [d \in Disks |-> NoMedium] /\ cdrom' = [d \in Cds |-> NoDrive]
      /\ running' = FALSE /\ paused' = TRUE /\ wasPaused' = FALSE
      /\ todo' = OpenCalls /\ missed' = Cds
      /\ told' = [d \in Cds |-> TRUE] /\ owed' = [d \in Cds |-> "any"] /\ reply' = [d \in Cds |-> Silence]
      /\ UNCHANGED <<model, win, wanted>>
  BY DEF Reopen
<1>2. TypeOK
  BY DEF Inv
<1>3. \A d \in Drives : Inside(d)' = NoMedium
  BY <1>1, Contents, FreshDrives DEF Drives
<1>4. Complete(todo')
  BY <1>1, HandlersComplete
<1>5. TypeOK'
  <2>1. todo' \in Seq(CallNames) /\ Len(todo') <= 8
    BY <1>4 DEF Complete, Ordered
  <2>2. Configured' = Configured
    BY <1>1 DEF Configured, HasScsi
  <2>3. cdrom' \in [Cds -> CdType] /\ \A d \in Cds : cdrom'[d].image = NoMedium
    BY <1>1, FreshDrives
  <2>4. told' \in [Cds -> BOOLEAN] /\ owed' \in [Cds -> SenseKeys \cup {"any"}] /\ reply' \in [Cds -> Replies]
    BY <1>1 DEF Silence, Replies, SenseKeys
  <2>5. /\ floppy' \in [Floppies -> Media \cup {NoMedium}] /\ mirror' \in [Floppies -> Media \cup {NoMedium}]
        /\ disk' \in [Disks -> Media \cup {NoMedium}]
    BY <1>1
  <2> QED BY <1>1, <1>2, <1>3, <2>1, <2>2, <2>3, <2>4, <2>5 DEF TypeOK
<1>6. Handlers'
  <2>1. MirrorKept' /\ NamedOrReloading'
    BY <1>1, <1>3 DEF MirrorKept, NamedOrReloading
  <2> QED BY <1>4, <2>1, HandlerBegins
<1>7. CdRoms'
  BY <1>1, FreshDrives DEF CdRoms, CdStaysSelectable, Announces, GuestHearsOfCd, CdChangeAnnounced,
     SenseExplains, Silence
<1> QED BY <1>5, <1>6, <1>7 DEF Inv

\* The guest does not run, and the event loop does not either, when the machine is
\* about to be replaced.
LEMMA NotReconfiguring ==
  ASSUME TypeOK, CallsInOrder, GuestStopped, running \/ EventLoop
  PROVE  ~Calling("reconfigure")
<1> SUFFICES ASSUME Calling("reconfigure") PROVE FALSE
  OBVIOUS
<1>1. 1 \in 1..Len(todo) /\ todo[1] = "reconfigure"
  BY DEF TypeOK, Calling, AtRest
<1>2. CASE running
  BY <1>1, <1>2 DEF GuestStopped
<1>3. CASE EventLoop
  BY <1>1, <1>3, NothingToCome
<1> QED BY <1>2, <1>3

\* Media only leave drives while the window's list of calls stays as it is.
LEMMA OnlyEmptied ==
  ASSUME Inv, UNCHANGED <<model, window>>, running \/ EventLoop, running' = running \/ EventLoop,
         MirrorKept', \A d \in Drives : Inside(d)' \in {NoMedium, Inside(d)}
  PROVE  Handlers'
<1>1. TypeOK /\ CallsInOrder /\ GuestStopped /\ NamedOrReloading /\ UNCHANGED <<win, todo>>
  BY DEF Inv, Handlers, window
<1>2. CallsInOrder'
  BY <1>1 DEF CallsInOrder
<1>3. GuestStopped'
  BY <1>1, NothingToCome DEF GuestStopped
<1>4. ~Calling("reconfigure")'
  BY <1>1, NotReconfiguring DEF Calling, AtRest
<1>5. NamedOrReloading'
  BY <1>1 DEF NamedOrReloading
<1> QED BY <1>2, <1>3, <1>4, <1>5 DEF Handlers, LookedAt

\* The control server's pause and reset.
LEMMA ControlInv ==
  ASSUME Inv, ControlPause \/ ControlReset
  PROVE  Inv'
<1>1. TypeOK /\ MirrorKept /\ CdRoms
  BY DEF Inv, Handlers
<1>2. CASE ControlPause
  <2>1. EventLoop /\ running' \in BOOLEAN /\ UNCHANGED <<model, machine, window, wanted, missed, guestView>>
    BY <1>2 DEF ControlPause
  <2>2. \A d \in Drives : Inside(d)' = Inside(d)
    BY <2>1, Contents DEF machine, Drives
  <2>3. MirrorKept' /\ Configured' = Configured
    BY <1>1, <2>1 DEF MirrorKept, Mirrors, machine, Configured, HasScsi
  <2>4. Handlers'
    BY <2>1, <2>2, <2>3, OnlyEmptied
  <2>5. TypeOK'
    BY <1>1, <2>1, <2>2, <2>3 DEF TypeOK, machine, window, guestView
  <2> QED BY <1>1, <2>1, <2>4, <2>5, CdsUntouched DEF Inv, machine
<1>3. CASE ControlReset
  <2>1. /\ EventLoop /\ UNCHANGED <<model, floppy, mirror, disk, window, running, wanted, missed>>
        /\ cdrom' = [d \in Cds |->
              IF cdrom[d].attached THEN AcknowledgeMediaChange(cdrom[d]) ELSE cdrom[d]]
        /\ told' = [d \in Cds |-> TRUE] /\ owed' = [d \in Cds |-> "any"]
        /\ reply' = [d \in Cds |-> Silence]
    BY <1>3 DEF ControlReset
  <2>2. ASSUME NEW d \in Cds
        PROVE  /\ cdrom'[d] \in CdType /\ cdrom'[d].image = cdrom[d].image
               /\ cdrom'[d].attached = cdrom[d].attached
               /\ cdrom'[d].attention => cdrom'[d].sense = "attention"
    <3>1. cdrom[d] \in CdType /\ (cdrom[d].attention => cdrom[d].sense = "attention")
      BY <1>1 DEF TypeOK, CdRoms, Announces
    <3>2. CASE cdrom[d].attached
      BY <2>1, <3>1, <3>2, DriveChanges
    <3>3. CASE ~cdrom[d].attached
      BY <2>1, <3>1, <3>3
    <3> QED BY <3>2, <3>3
  <2>3. cdrom' \in [Cds -> CdType]
    BY <2>1, <2>2
  <2>4. \A d \in Drives : Inside(d)' = Inside(d)
    BY <2>1, <2>2, Contents DEF Drives
  <2>5. MirrorKept' /\ Configured' = Configured
    BY <1>1, <2>1 DEF MirrorKept, Mirrors, Configured, HasScsi
  <2>6. Handlers'
    BY <2>1, <2>4, <2>5, OnlyEmptied
  <2>7. TypeOK'
    <3>1. told' \in [Cds -> BOOLEAN] /\ owed' \in [Cds -> SenseKeys \cup {"any"}] /\ reply' \in [Cds -> Replies]
      BY <2>1 DEF Silence, Replies, SenseKeys
    <3> QED BY <1>1, <2>1, <2>2, <2>3, <2>4, <2>5, <3>1 DEF TypeOK, window
  <2>8. CdRoms'
    BY <1>1, <2>1, <2>2 DEF CdRoms, CdStaysSelectable, Announces, GuestHearsOfCd, CdChangeAnnounced,
       SenseExplains, Silence
  <2> QED BY <2>6, <2>7, <2>8 DEF Inv
<1> QED BY <1>2, <1>3

\* The guest ejects a floppy; the callback keeps the machine's second record.
LEMMA GuestFloppyInv ==
  ASSUME Inv, NEW d \in Floppies, GuestEjectsFloppy(d)
  PROVE  Inv'
<1>1. /\ running /\ UNCHANGED <<model, disk, cdrom, window, running, missed, guestView>>
      /\ floppy' = [floppy EXCEPT ![d] = NoMedium] /\ mirror' = [mirror EXCEPT ![d] = NoMedium]
      /\ wanted' = [wanted EXCEPT ![d] = FALSE]
  BY DEF GuestEjectsFloppy, MediaEjected
<1>2. TypeOK /\ MirrorKept /\ CdRoms
  BY DEF Inv, Handlers
<1>3. \A x \in Drives : Inside(x)' \in {NoMedium, Inside(x)}
  BY <1>1, <1>2, Contents DEF Drives, TypeOK
<1>4. MirrorKept' /\ Configured' = Configured
  BY <1>1, <1>2 DEF MirrorKept, Mirrors, Configured, HasScsi
<1>5. Handlers'
  BY <1>1, <1>3, <1>4, OnlyEmptied
<1>6. TypeOK'
  <2>1. /\ floppy' \in [Floppies -> Media \cup {NoMedium}] /\ mirror' \in [Floppies -> Media \cup {NoMedium}]
        /\ wanted' \in [Drives -> BOOLEAN]
    BY <1>1, <1>2 DEF TypeOK
  <2>2. \A x \in Drives \ Configured : win'[x] = NoMedium /\ Inside(x)' = NoMedium
    BY <1>1, <1>2, <1>3 DEF TypeOK, window
  <2> QED BY <1>1, <1>2, <1>4, <2>1, <2>2 DEF TypeOK, window, guestView
<1>7. CdRoms'
  BY <1>1, <1>2, CdsUntouched
<1> QED BY <1>5, <1>6, <1>7 DEF Inv

\* The guest sends a CD-ROM drive a command.
LEMMA GuestCommandInv ==
  ASSUME Inv, NEW d \in Cds, NEW command \in Commands, NEW valid \in BOOLEAN,
         GuestCommand(d, command, valid)
  PROVE  Inv'
<1> DEFINE cd == cdrom[d]
           answer == ExecuteCommand(cd, command, valid)
           t == IF command = "eject" /\ answer.status = "good" THEN FALSE
                ELSE told[d] \/ answer.key = "attention"
           o == CASE command = "inquiry" -> owed[d]
                  [] command = "eject" /\ answer.status = "good" -> "attention"
                  [] answer.status = "check" /\ ~Unstored(command, answer) -> answer.key
                  [] OTHER -> "any"
           r == [data |-> answer.data, told |-> told[d], key |-> answer.key,
                 owed |-> IF command = "sense" THEN owed[d] ELSE "any"]
<1>1. TypeOK /\ MirrorKept /\ CdRoms /\ cd \in CdType /\ told[d] \in BOOLEAN
      /\ owed[d] \in SenseKeys \cup {"any"}
  BY DEF Inv, Handlers, TypeOK
<1>2. /\ cd.attention => cd.sense = "attention"
      /\ ~told[d] => cd.attention
      /\ owed[d] \in {"any", cd.sense}
  BY <1>1 DEF CdRoms, Announces
<1>3. Answers(cd, command, answer)
  BY <1>1, <1>2, CommandAnswers
<1>4. /\ running /\ cd.attached /\ cdrom' = [cdrom EXCEPT ![d] = answer.cd]
      /\ wanted' \in {wanted, [wanted EXCEPT ![d] = FALSE]}
      /\ told' = [told EXCEPT ![d] = t] /\ owed' = [owed EXCEPT ![d] = o]
      /\ reply' = [reply EXCEPT ![d] = r]
      /\ UNCHANGED <<model, floppy, mirror, disk, window, running, missed>>
  <2>1. GuestCommand(d, command, valid)
    OBVIOUS
  <2> QED BY <2>1 DEF GuestCommand, Heard
<1> HIDE DEF answer, cd
<1>5. t \in BOOLEAN /\ (~t => answer.cd.attention)
  BY <1>1, <1>2, <1>3 DEF Answers
<1>6. o \in SenseKeys \cup {"any"} /\ o \in {"any", answer.cd.sense}
  <2>1. answer.key \in SenseKeys /\ answer.cd \in CdType
    BY <1>3 DEF Answers
  <2>2. CASE command = "inquiry"
    <3>1. answer.cd = cd /\ answer.status = "good"
      BY <1>3, <2>2 DEF Answers
    <3>2. o = owed[d]
      BY <2>2, <3>1
    <3> HIDE DEF o
    <3> QED BY <1>1, <1>2, <3>1, <3>2
  <2>3. CASE command = "eject" /\ answer.status = "good"
    <3>1. o = "attention"
      BY <2>3
    <3>2. answer.cd.sense = "attention"
      BY <1>3, <2>3 DEF Answers
    <3> HIDE DEF o
    <3> QED BY <3>1, <3>2 DEF SenseKeys
  <2>4. CASE command # "inquiry" /\ ~(command = "eject" /\ answer.status = "good")
             /\ answer.status = "check" /\ ~Unstored(command, answer)
    BY <1>3, <2>1, <2>4 DEF Answers
  <2>5. CASE command # "inquiry" /\ ~(command = "eject" /\ answer.status = "good")
             /\ ~(answer.status = "check" /\ ~Unstored(command, answer))
    BY <2>5
  <2> QED BY <2>2, <2>3, <2>4, <2>5
<1>7. /\ r \in Replies /\ r.data = answer.data /\ r.told = told[d] /\ r.key = answer.key
      /\ r.owed = IF command = "sense" THEN owed[d] ELSE "any"
  BY <1>1, <1>3 DEF Answers, Replies
<1> HIDE DEF t, o, r
<1>8. (r.data # NoMedium => r.told) /\ r.owed \in {"any", r.key}
  BY <1>2, <1>3, <1>7 DEF Answers
<1>9. /\ answer.cd \in CdType /\ answer.cd.attached /\ answer.cd.image \in {cd.image, NoMedium}
      /\ answer.cd.attention => answer.cd.sense = "attention"
  BY <1>3, <1>4 DEF Answers
<1>10. /\ CdRoms'
       /\ cdrom' \in [Cds -> CdType] /\ told' \in [Cds -> BOOLEAN]
       /\ owed' \in [Cds -> SenseKeys \cup {"any"}] /\ reply' \in [Cds -> Replies]
       /\ missed' \subseteq Cds
       /\ \A x \in Cds : cdrom'[x].image # NoMedium => cdrom'[x].attached
  BY <1>1, <1>4, <1>5, <1>6, <1>7, <1>8, <1>9, OneCdChanges
<1>11. \A x \in Drives : Inside(x)' \in {NoMedium, Inside(x)}
  BY <1>1, <1>4, <1>9, Contents DEF Drives, TypeOK, cd
<1>12. MirrorKept' /\ Configured' = Configured
  BY <1>1, <1>4 DEF MirrorKept, Mirrors, Configured, HasScsi
<1>13. Handlers'
  BY <1>4, <1>11, <1>12, OnlyEmptied
<1>14. TypeOK'
  <2>1. wanted' \in [Drives -> BOOLEAN]
    BY <1>1, <1>4 DEF TypeOK
  <2>2. \A x \in Drives \ Configured : win'[x] = NoMedium /\ Inside(x)' = NoMedium
    BY <1>1, <1>4, <1>11 DEF TypeOK, window
  <2> QED BY <1>1, <1>4, <1>10, <1>12, <2>1, <2>2 DEF TypeOK, window
<1> QED BY <1>10, <1>13, <1>14 DEF Inv

\* Every step preserves the invariant.
LEMMA InvStep == Inv /\ [Next]_vars => Inv'
<1> SUFFICES ASSUME Inv, [Next]_vars PROVE Inv'
  OBVIOUS
<1>1. CASE Calls
  BY <1>1, CallInv, ReconfigureInv DEF Calls
<1>2. ASSUME NEW d \in Floppies,
             \/ \E image \in Images[d], outcome \in {"loaded", "failed", "refused"} :
                  InsertFloppyPath(d, image, outcome)
             \/ EjectFloppy(d)
      PROVE  Inv'
  BY <1>2, FloppyInv
<1>3. ASSUME NEW d \in Floppies, GuestEjectsFloppy(d) PROVE Inv'
  BY <1>3, GuestFloppyInv
<1>4. ASSUME NEW d \in Cds,
             \/ \E image \in Images[d], loads \in BOOLEAN : InsertScsiPath(d, image, loads)
             \/ EjectScsi(d)
      PROVE  Inv'
  BY <1>4, ScsiInv
<1>5. ASSUME NEW d \in Cds, NEW command \in Commands, NEW valid \in BOOLEAN,
             GuestCommand(d, command, valid)
      PROVE  Inv'
  BY <1>5, GuestCommandInv
<1>6. CASE TogglePause \/ LoadAndReset \/ ConfigureMachine \/ RejectDialog
  BY <1>6, BeginInv
<1>7. CASE Frame
  BY <1>7, FrameInv
<1>8. ASSUME NEW d \in Drives, NEW image \in Images[d] \cup {NoMedium}, NEW hardware \in BOOLEAN,
             AcceptDialog(d, image, hardware)
      PROVE  Inv'
  BY <1>8, AcceptInv
<1>9. CASE Reopen
  BY <1>9, ReopenInv
<1>10. CASE ControlPause \/ ControlReset
  BY <1>10, ControlInv
<1>11. CASE UNCHANGED vars
  <2>1. UNCHANGED <<model, machine, window, running, wanted, missed, guestView>>
    BY <1>11 DEF vars
  <2>2. \A d \in Drives : Inside(d)' = Inside(d)
    BY <2>1, Contents DEF machine, Drives
  <2>3. Configured' = Configured /\ UNCHANGED <<win, todo, running, floppy, mirror, model>>
    BY <2>1 DEF Configured, HasScsi, window, machine
  <2>4. TypeOK'
    BY <2>1, <2>2, <2>3 DEF Inv, TypeOK, machine, window, guestView
  <2>5. Handlers'
    BY <2>2, <2>3 DEF Inv, Handlers, MirrorKept, Mirrors, CallsInOrder, GuestStopped, LookedAt, Calling,
       AtRest, NamedOrReloading, Removable, Drives
  <2> QED BY <2>1, <2>4, <2>5, CdsUntouched DEF Inv, machine
<1> QED
  BY <1>1, <1>2, <1>3, <1>4, <1>5, <1>6, <1>7, <1>8, <1>9, <1>10, <1>11 DEF Next

-----------------------------------------------------------------------------
(* The theorems.                                                            *)

\* The strengthened invariant holds of every behaviour.
THEOREM Invariance == Spec => []Inv
<1>1. Init => Inv
  BY InitInv
<1>2. Inv /\ [Next]_vars => Inv'
  BY InvStep
<1> QED BY <1>1, <1>2, PTL DEF Spec

\* The window, the drives and what the guest has heard keep their types; a machine
\* without SCSI has no SCSI media.
THEOREM TypeCorrect == Spec => []TypeOK
<1>1. Inv => TypeOK
  BY DEF Inv
<1> QED BY <1>1, Invariance, PTL

\* Between handlers the profile names every medium in a drive, and a CD-ROM drive
\* leaves the bus for no other reason than an image that did not load at a reset.
THEOREM DrivesMatchProfileHolds == Spec => []DrivesMatchProfile
<1>1. Inv => DrivesMatchProfile
  <2>1. Inv => CdStaysSelectable
    BY DEF Inv, CdRoms
  <2>2. Inv /\ AtRest => \A d \in Drives : Inside(d) \in {NoMedium, win[d]}
    BY RestNamed DEF EventLoop
  <2> QED BY <2>1, <2>2 DEF DrivesMatchProfile, NamesWhatIsInside
<1> QED BY <1>1, Invariance, PTL

\* The guest is told of a change of CD-ROM before it gets data of the new one, and
\* REQUEST SENSE explains the drive's last failure.
THEOREM GuestHearsOfCdHolds == Spec => []GuestHearsOfCd
<1>1. Inv => GuestHearsOfCd
  BY DEF Inv, CdRoms
<1> QED BY <1>1, Invariance, PTL

\* An ejected medium comes back into its drive only when the user has chosen it: a
\* reconfigure reloads no removable medium that is not in its drive.
THEOREM EjectSticksHolds == Spec => EjectSticks
<1> DEFINE Sticks == \A d \in Removable : Inside(d) = NoMedium /\ Inside(d)' # NoMedium => wanted[d]'
<1>1. Inv /\ [Next]_vars => [Sticks]_vars
  <2> SUFFICES ASSUME Inv, Next, NEW d \in Removable, Inside(d) = NoMedium, Inside(d)' # NoMedium
               PROVE  wanted'[d]
    OBVIOUS
  <2>1. d \in Drives /\ d \notin Disks /\ (d \in Floppies \/ d \in Cds) /\ TypeOK
    BY DrivesAssumption DEF Removable, Drives, Inv
  <2>2. ~UNCHANGED <<floppy, cdrom>>
    BY <2>1, Contents
  <2>3. ASSUME Reconfigure PROVE FALSE
    <3>1. win[d] = NoMedium
      BY <2>3 DEF Reconfigure, Inv, Handlers, LookedAt
    <3>2. PICK loaded \in SUBSET {x \in Configured : win[x] # NoMedium} : Reconfigured(loaded)
      BY <2>3 DEF Reconfigure
    <3>3. d \notin loaded
      BY <3>1, <3>2
    <3>4. CASE d \in Floppies
      BY <3>2, <3>3, <3>4, Contents DEF Reconfigured
    <3>5. CASE d \in Cds
      <4>1. cdrom'[d] = AcknowledgeMediaChange(EmptyDrive) \/ cdrom'[d] = NoDrive
        BY <3>1, <3>2, <3>3, <3>5 DEF Reconfigured
      <4>2. cdrom'[d].image = NoMedium
        BY <4>1, DriveChanges, FreshDrives
      <4> QED BY <3>5, <4>2, Contents
    <3> QED BY <2>1, <3>4, <3>5
  <2>4. ASSUME NEW x \in Floppies, NEW image \in Images[x], NEW outcome \in {"loaded", "failed", "refused"},
               InsertFloppyPath(x, image, outcome)
        PROVE  wanted'[d]
    <3>1. d \in Floppies
      BY <2>1, <2>4, Contents DEF InsertFloppyPath
    <3>2. outcome = "loaded" /\ x = d
      BY <2>1, <2>4, <3>1, Contents DEF InsertFloppyPath, TypeOK
    <3> QED BY <2>1, <2>4, <3>2 DEF InsertFloppyPath, TypeOK
  <2>5. ASSUME NEW x \in Cds, NEW image \in Images[x], NEW loads \in BOOLEAN, InsertScsiPath(x, image, loads)
        PROVE  wanted'[d]
    <3>1. d \in Cds
      BY <2>1, <2>5, Contents DEF InsertScsiPath
    <3>2. loads /\ x = d
      BY <2>1, <2>5, <3>1, Contents DEF InsertScsiPath, TypeOK
    <3> QED BY <2>1, <2>5, <3>2 DEF InsertScsiPath, TypeOK
  <2>6. ASSUME NEW x \in Floppies, EjectFloppy(x) \/ GuestEjectsFloppy(x) PROVE FALSE
    <3>1. floppy' = [floppy EXCEPT ![x] = NoMedium] /\ UNCHANGED cdrom
      BY <2>6 DEF EjectFloppy, GuestEjectsFloppy
    <3> QED BY <2>1, <3>1, Contents DEF TypeOK
  <2>7. ASSUME NEW x \in Cds, EjectScsi(x) PROVE FALSE
    <3>1. cdrom' = [cdrom EXCEPT ![x] = EjectedCd(cdrom[x])] /\ UNCHANGED floppy
      BY <2>7 DEF EjectScsi
    <3>2. EjectedCd(cdrom[x]).image \in {NoMedium, cdrom[x].image}
      BY <2>1, DriveChanges DEF EjectedCd, TypeOK
    <3> QED BY <2>1, <3>1, <3>2, Contents DEF TypeOK
  <2>8. ASSUME NEW x \in Cds, NEW command \in Commands, NEW valid \in BOOLEAN,
               GuestCommand(x, command, valid)
        PROVE  FALSE
    <3> DEFINE answer == ExecuteCommand(cdrom[x], command, valid)
    <3>1. cdrom' = [cdrom EXCEPT ![x] = answer.cd] /\ UNCHANGED floppy
      BY <2>8 DEF GuestCommand
    <3>2. Answers(cdrom[x], command, answer)
      BY <2>1, CommandAnswers DEF Inv, CdRoms, Announces, TypeOK
    <3> HIDE DEF answer
    <3>3. answer.cd.image \in {NoMedium, cdrom[x].image}
      BY <3>2 DEF Answers
    <3> QED BY <2>1, <3>1, <3>3, Contents DEF TypeOK
  <2>9. ASSUME ControlReset PROVE FALSE
    <3>1. d \in Cds /\ cdrom[d] \in CdType
      BY <2>1, <2>9, Contents DEF ControlReset, TypeOK
    <3>2. cdrom'[d] \in {cdrom[d], AcknowledgeMediaChange(cdrom[d])}
      BY <2>9, <3>1 DEF ControlReset
    <3>3. NoMedium \in Media \cup {NoMedium}
      OBVIOUS
    <3>4. AcknowledgeMediaChange(cdrom[d]).image = cdrom[d].image
      BY <3>1, <3>3, DriveChanges
    <3>5. Inside(d) = cdrom[d].image /\ Inside(d)' = cdrom'[d].image
      BY <3>1, Contents
    <3> QED BY <3>2, <3>4, <3>5
  <2>10. ASSUME Reopen PROVE FALSE
    <3>1. floppy' = [x \in Floppies |-> NoMedium] /\ cdrom' = [x \in Cds |-> NoDrive]
      BY <2>10 DEF Reopen
    <3>2. CASE d \in Floppies
      BY <3>1, <3>2, Contents
    <3>3. CASE d \in Cds
      BY <3>1, <3>3, Contents, FreshDrives
    <3> QED BY <2>1, <3>2, <3>3
  <2>11. ASSUME UNCHANGED machine PROVE FALSE
    BY <2>2, <2>11 DEF machine
  <2> QED
    BY <2>3, <2>4, <2>5, <2>6, <2>7, <2>8, <2>9, <2>10, <2>11
       DEF Next, Calls, Pause, Resume, Restore, UpdateStatus, TogglePause, LoadAndReset, Frame,
           ConfigureMachine, AcceptDialog, RejectDialog, ControlPause
<1> QED BY <1>1, Invariance, PTL DEF Spec, EjectSticks

\* Only the dialog takes a hard disk out of the profile.
THEOREM DisksStayInProfileHolds == Spec => DisksStayInProfile
<1> DEFINE Stays == \A d \in Disks : win[d] # NoMedium /\ win[d]' = NoMedium => Calling("dialog")
<1>1. Inv /\ [Next]_vars => [Stays]_vars
  <2> SUFFICES ASSUME Inv, Next, NEW d \in Disks, ~Calling("dialog") PROVE win'[d] = win[d]
    OBVIOUS
  <2>1. d \in Drives /\ d \notin Floppies /\ d \notin Cds /\ d \notin Removable /\ TypeOK
    BY DrivesAssumption DEF Drives, Removable, Inv
  <2>2. CASE UpdateStatus \/ Frame
    BY <2>1, <2>2 DEF UpdateStatus, Frame, Reconciled
  <2>3. ASSUME NEW x \in Floppies, NEW image \in Images[x], NEW outcome \in {"loaded", "failed", "refused"},
               InsertFloppyPath(x, image, outcome)
        PROVE  win'[d] = win[d]
    BY <2>1, <2>3 DEF InsertFloppyPath, Recorded, TypeOK
  <2>4. ASSUME NEW x \in Floppies, EjectFloppy(x) PROVE win'[d] = win[d]
    BY <2>1, <2>4 DEF EjectFloppy, TypeOK
  <2>5. ASSUME NEW x \in Cds, NEW image \in Images[x], NEW loads \in BOOLEAN, InsertScsiPath(x, image, loads)
        PROVE  win'[d] = win[d]
    BY <2>1, <2>5 DEF InsertScsiPath, TypeOK
  <2>6. ASSUME NEW x \in Cds, EjectScsi(x) PROVE win'[d] = win[d]
    BY <2>1, <2>6 DEF EjectScsi, TypeOK
  <2> QED
    BY <2>2, <2>3, <2>4, <2>5, <2>6
       DEF Next, Calls, Pause, Resume, Restore, Reconfigure, TogglePause, LoadAndReset, GuestEjectsFloppy,
           GuestCommand, ConfigureMachine, AcceptDialog, RejectDialog, Reopen, ControlPause, ControlReset,
           window
<1> QED BY <1>1, Invariance, PTL DEF Spec, DisksStayInProfile

=============================================================================
