------------------------- MODULE FirmwareOperation -------------------------
(***************************************************************************)
(* FirmwareOperationService.update and .rollback                           *)
(* (lib/services/firmware_service.py) over the SSHFirmwareAdapter          *)
(* (lib/adapters/firmware.py) and the device (lib/adapters/device.py).     *)
(*                                                                         *)
(* sysupgrade works on after its command has been answered, ends in a      *)
(* reboot of its own, and is killed by one.                                *)
(***************************************************************************)
EXTENDS Commands, FiniteSets

CONSTANTS Ops,            \* operations: updates, rollbacks and Runs
          Images,         \* contents of image files, told apart by SHA-256
          Version,        \* the version an image reports when it runs
          Old, New,       \* the image that runs at first, and the wanted one
          None,
          MaxRebuilds,    \* bound: rewrites of the image file
          MaxStoreFaults  \* bound: lifecycle events that cannot be stored

ASSUME ImagesAssumption == Old \in Images /\ New \in Images /\ None \notin Images
ASSUME NoneAssumption == None \notin Ops
ASSUME BoundsAssumption == MaxRebuilds \in Nat /\ MaxStoreFaults \in Nat

VARIABLES kind,        \* what each operation is
          at,          \* where it is
          lock,        \* holder of device:<id>
          device,      \* the device, its flash and its /tmp
          file,        \* content of the local image file
          expected,    \* image of the declared SHA-256, or None
          digest,      \* the digest each operation holds in a variable
          recorded,    \* last FIRMWARE_STATE_CHANGED stored for it
          announced,   \* FIRMWARE_FLASHING or _ROLLBACK_STARTED was stored
          sent,        \* flash or rollback commands the device received
          rebuilds, storeFaults

fileVars == <<file, expected, rebuilds>>
logVars == <<recorded, announced, storeFaults>>
firmwareVars == <<kind, at, lock, device, fileVars, digest, logVars, sent>>

Devices == [running : Images, installed : Images, pending : Images \cup {None},
            up : BOOLEAN, tmp : Images \cup {None}]

FirmwarePoints ==
  {"register", "validate", "artifact", "lock", "authorize", "upload", "put", "compare", "prepare",
   "match", "flash", "send", "reboot", "ready", "verify", "final", "verified",
   "start", "rollback", "completed", "return", "failing", "release", "released"}
Ended == {"done", "failed", "refused", "dead"}
States == {"none", "REGISTERED", "VALIDATED", "AUTHORIZED", "UPLOADING", "UPLOADED", "READY_TO_FLASH",
           "FLASHING", "REBOOTING", "VERIFYING", "VALIDATED_FINAL", "FAILED"}

FirmwareInit ==
  /\ lock = None
  /\ device = [running |-> Old, installed |-> Old, pending |-> None, up |-> TRUE,
               tmp |-> None]
  /\ file = New
  /\ expected \in {New, None}
  /\ digest = [p \in Ops |-> None]
  /\ recorded = [p \in Ops |-> "none"]
  /\ announced = [p \in Ops |-> FALSE]
  /\ sent = [p \in Ops |-> 0]
  /\ rebuilds = 0
  /\ storeFaults = 0

\* DeviceAdapter.version and .health: the device answers, and with a version.
Identified == device.up
Healthy == device.up

Goto(p, point) == at' = [at EXCEPT ![p] = point]
Record(p, state) == recorded' = [recorded EXCEPT ![p] = state]

\* An exception here is followed by a FAILED event and the release of the lock.
Guarded == {"upload", "put", "compare", "prepare", "match", "flash", "send", "reboot",
            "ready", "verify", "final", "verified", "start", "rollback", "completed",
            "return"}
Raise(p) ==
  CASE at[p] \in Guarded -> Goto(p, "failing")
    [] at[p] = "authorize" -> Goto(p, "release")
    [] OTHER -> Goto(p, "failed")

\* validate_image, but for what does not change: model and signature.
Valid(image) == expected = None \/ image = expected

-----------------------------------------------------------------------------
(* Steps of an update.  A step that has to store an event first, or to read *)
(* from the device, may raise instead: see StepRaises.                      *)

Register(p) ==
  /\ at[p] = "register" /\ Identified
  /\ Record(p, "REGISTERED")
  /\ Goto(p, "validate")
  /\ UNCHANGED <<kind, lock, device, fileVars, digest, announced, storeFaults, sent>>

\* VALIDATED is stored before the result of the validation is looked at.
Validate(p) ==
  /\ at[p] = "validate" /\ Identified
  /\ Record(p, "VALIDATED")
  /\ digest' = [digest EXCEPT ![p] = file]
  /\ IF Valid(file) THEN Goto(p, "artifact") ELSE Goto(p, "failed")
  /\ UNCHANGED <<kind, lock, device, fileVars, announced, storeFaults, sent>>

\* register_file hashes the image again.
RegisterArtifact(p) ==
  /\ at[p] = "artifact"
  /\ IF file = digest[p] THEN Goto(p, "lock") ELSE Goto(p, "failed")
  /\ UNCHANGED <<kind, lock, device, fileVars, digest, logVars, sent>>

\* Mutant: nobody waits for the lock.
Free_Always(p) == TRUE

Free(p) == lock = None

Granted == [update |-> "authorize", rollback |-> "start", run |-> "gate"]

\* acquire with timeout 0: it is granted or the operation is over.
Acquire(p) ==
  /\ at[p] = "lock"
  /\ IF Free(p) THEN lock' = p /\ Goto(p, Granted[kind[p]])
                ELSE lock' = lock /\ Goto(p, "refused")
  /\ UNCHANGED <<kind, device, fileVars, digest, logVars, sent>>

Authorize(p) ==
  /\ at[p] = "authorize"
  /\ Record(p, "AUTHORIZED")
  /\ Goto(p, "upload")
  /\ UNCHANGED <<kind, lock, device, fileVars, digest, announced, storeFaults, sent>>

Upload(p) ==
  /\ at[p] = "upload" /\ Identified
  /\ Record(p, "UPLOADING")
  /\ digest' = [digest EXCEPT ![p] = file]
  /\ IF Valid(file) THEN Goto(p, "put") ELSE Raise(p)
  /\ UNCHANGED <<kind, lock, device, fileVars, announced, storeFaults, sent>>

\* The file that is copied is the one that is there now, if it arrives whole.
Put(p) ==
  /\ at[p] = "put" /\ device.up
  /\ \E image \in Images : device' = [device EXCEPT !.tmp = image]
  /\ Goto(p, "compare")
  /\ UNCHANGED <<kind, lock, fileVars, digest, logVars, sent>>

\* device.upload returns the digest of the local file.
Compare(p) ==
  /\ at[p] = "compare"
  /\ IF file = digest[p] THEN Record(p, "UPLOADED") /\ Goto(p, "prepare")
                         ELSE UNCHANGED recorded /\ Raise(p)
  /\ UNCHANGED <<kind, lock, device, fileVars, digest, announced, storeFaults, sent>>

\* sha256sum on the device: no digest when the upload is gone.
Prepare(p) ==
  /\ at[p] = "prepare" /\ device.up
  /\ Record(p, "READY_TO_FLASH")
  /\ digest' = [digest EXCEPT ![p] = device.tmp]
  /\ Goto(p, "match")
  /\ UNCHANGED <<kind, lock, device, fileVars, announced, storeFaults, sent>>

\* Mutant: the digest of the uploaded file is not compared.
Matches_Unread(p) == TRUE

\* Whether the file is still valid is left to flash.
Matches(p) == digest[p] = file

Match(p) ==
  /\ at[p] = "match" /\ Identified
  /\ IF Matches(p) THEN Goto(p, "flash") ELSE Raise(p)
  /\ UNCHANGED <<kind, lock, device, fileVars, digest, logVars, sent>>

\* Mutant: FIRMWARE_FLASHING is stored when the flash is over.
Announce_Late(p) == UNCHANGED announced

Announce(p) == announced' = [announced EXCEPT ![p] = TRUE]

Flash(p) ==
  /\ at[p] = "flash" /\ Identified
  /\ Record(p, "FLASHING") /\ Announce(p)
  /\ IF Valid(file) THEN Goto(p, "send") ELSE Raise(p)
  /\ UNCHANGED <<kind, lock, device, fileVars, digest, storeFaults, sent>>

\* Only an answer lets the operation go on.
Send(p, point, image, next) ==
  /\ at[p] = point
  /\ \E o \in Executed(FALSE) :
       /\ o.sent > 0 => device.up
       /\ sent' = [sent EXCEPT ![p] = @ + o.sent]
       /\ device' = IF o.took /\ image # None
                    THEN [device EXCEPT !.pending = image] ELSE device
       /\ IF o.answer = "ok" THEN Goto(p, next) ELSE Raise(p)
  /\ UNCHANGED <<kind, lock, fileVars, digest, logVars>>

SendFlash(p) == Send(p, "send", device.tmp, "reboot")

\* Mutant: what was going on goes on after the reboot.
Down_Surviving == [device EXCEPT !.up = FALSE, !.tmp = None]

Down == [device EXCEPT !.up = FALSE, !.pending = None, !.tmp = None]

Reboot(p) ==
  /\ at[p] = "reboot"
  /\ Record(p, "REBOOTING")
  /\ \E o \in Executed(FALSE) :
       /\ o.sent > 0 => device.up
       /\ device' = IF o.took THEN Down ELSE device
       /\ IF o.answer = "ok" THEN Goto(p, "ready") ELSE Raise(p)
  /\ UNCHANGED <<kind, lock, fileVars, digest, announced, storeFaults, sent>>

\* wait_ready: also the device that has not gone down yet is ready.
Ready(p) ==
  /\ at[p] = "ready" /\ Healthy /\ Identified
  /\ Record(p, "VERIFYING")
  /\ Goto(p, "verify")
  /\ UNCHANGED <<kind, lock, device, fileVars, digest, announced, storeFaults, sent>>

\* Mutant: VALIDATED_FINAL is stored whatever version answers.
Reported_Any(p) == TRUE

Reported(p) == Version[device.running] = Version[New]

Verify(p) ==
  /\ at[p] = "verify" /\ Identified
  /\ IF Reported(p) THEN Goto(p, "final") ELSE Raise(p)
  /\ UNCHANGED <<kind, lock, device, fileVars, digest, logVars, sent>>

Finalise(p) ==
  /\ at[p] = "final"
  /\ Record(p, "VALIDATED_FINAL")
  /\ Goto(p, "verified")
  /\ UNCHANGED <<kind, lock, device, fileVars, digest, announced, storeFaults, sent>>

\* FIRMWARE_VERSION_VERIFIED is stored.
Verified(p) ==
  /\ at[p] = "verified"
  /\ Goto(p, "released")
  /\ UNCHANGED <<kind, lock, device, fileVars, digest, logVars, sent>>

-----------------------------------------------------------------------------
(* Steps of a rollback, which begins by identifying the device.             *)

Identify(p) ==
  /\ at[p] = "identify" /\ Identified
  /\ Goto(p, "lock")
  /\ UNCHANGED <<kind, lock, device, fileVars, digest, logVars, sent>>

StartRollback(p) ==
  /\ at[p] = "start"
  /\ Announce(p)
  /\ Goto(p, "rollback")
  /\ UNCHANGED <<kind, lock, device, fileVars, digest, recorded, storeFaults, sent>>

SendRollback(p) == Send(p, "rollback", Old, "completed")

\* FIRMWARE_ROLLBACK_COMPLETED is stored before the device is waited for.
CompleteRollback(p) ==
  /\ at[p] = "completed"
  /\ Goto(p, "return")
  /\ UNCHANGED <<kind, lock, device, fileVars, digest, logVars, sent>>

ReturnRollback(p) ==
  /\ at[p] = "return" /\ Healthy /\ Identified
  /\ Goto(p, "released")
  /\ UNCHANGED <<kind, lock, device, fileVars, digest, logVars, sent>>

-----------------------------------------------------------------------------
(* Failures.                                                                *)

\* Steps that store their state event before they do anything else.
EventFirst ==
  [register |-> "REGISTERED", upload |-> "UPLOADING", prepare |-> "READY_TO_FLASH",
   flash |-> "FLASHING", reboot |-> "REBOOTING", ready |-> "VERIFYING"]

\* An event cannot be stored, the device does not answer, SFTP fails or the
\* device is not ready in time: at most the first event is stored.
StepRaises(p) ==
  /\ at[p] \in FirmwarePoints \cup {"identify"}
  /\ at[p] \notin {"lock", "failing", "release", "released", "send", "rollback"}
  /\ Raise(p)
  /\ IF at[p] \in {"authorize", "final", "verified", "start", "completed"}
     THEN storeFaults < MaxStoreFaults /\ storeFaults' = storeFaults + 1
     ELSE UNCHANGED storeFaults
  /\ \/ UNCHANGED <<recorded, announced>>
     \/ /\ at[p] \in DOMAIN EventFirst
        /\ Record(p, EventFirst[at[p]])
        /\ IF at[p] = "flash" THEN Announce(p) ELSE UNCHANGED announced
  /\ UNCHANGED <<kind, lock, device, fileVars, digest, sent>>

\* The except branch; a rollback has no state event.
Fail(p) ==
  /\ at[p] = "failing"
  /\ IF kind[p] = "update" THEN Record(p, "FAILED") ELSE UNCHANGED recorded
  /\ Goto(p, "release")
  /\ UNCHANGED <<kind, lock, device, fileVars, digest, announced, storeFaults, sent>>

\* The FAILED event cannot be stored: its exception replaces the first one.
FailUntold(p) ==
  /\ at[p] = "failing" /\ storeFaults < MaxStoreFaults
  /\ storeFaults' = storeFaults + 1
  /\ Goto(p, "release")
  /\ UNCHANGED <<kind, lock, device, fileVars, digest, recorded, announced, sent>>

Release(p) ==
  /\ at[p] \in {"release", "released"}
  /\ lock' = None
  /\ IF at[p] = "released" THEN Goto(p, "done") ELSE Goto(p, "failed")
  /\ digest' = [digest EXCEPT ![p] = None]
  /\ UNCHANGED <<kind, device, fileVars, logVars, sent>>

\* The process dies: the kernel frees the lock.
Die(p) ==
  /\ at[p] \notin Ended
  /\ lock' = IF lock = p THEN None ELSE lock
  /\ Goto(p, "dead")
  /\ digest' = [digest EXCEPT ![p] = None]
  /\ UNCHANGED <<kind, device, fileVars, logVars, sent>>

-----------------------------------------------------------------------------
(* The device and the file.                                                 *)

\* sysupgrade, or the rollback command, has written the flash and reboots.
Upgrade ==
  /\ device.up /\ device.pending # None
  /\ device' = [Down EXCEPT !.installed = device.pending]
  /\ UNCHANGED <<kind, at, lock, fileVars, digest, logVars, sent>>

Boot ==
  /\ ~device.up
  /\ device' = [device EXCEPT !.up = TRUE, !.running = device.installed]
  /\ UNCHANGED <<kind, at, lock, fileVars, digest, logVars, sent>>

\* A build writes the image file again, which only an update reads.
Rebuild ==
  /\ \E p \in Ops : kind[p] = "update"
  /\ rebuilds < MaxRebuilds
  /\ rebuilds' = rebuilds + 1
  /\ \E image \in Images : file' = image
  /\ UNCHANGED <<kind, at, lock, device, expected, digest, logVars, sent>>

FirmwareStep(p) ==
  \/ Register(p) \/ Validate(p) \/ RegisterArtifact(p) \/ Authorize(p) \/ Upload(p) \/ Put(p)
  \/ Compare(p) \/ Prepare(p) \/ Match(p) \/ Flash(p) \/ SendFlash(p) \/ Reboot(p) \/ Ready(p) \/ Verify(p)
  \/ Finalise(p) \/ Verified(p)
  \/ Identify(p) \/ StartRollback(p) \/ SendRollback(p) \/ CompleteRollback(p) \/ ReturnRollback(p)
  \/ StepRaises(p) \/ Fail(p) \/ FailUntold(p)

FirmwareTypeOK ==
  /\ lock \in Ops \cup {None}
  /\ device \in Devices
  /\ file \in Images
  /\ expected \in Images \cup {None}
  /\ digest \in [Ops -> Images \cup {None}]
  /\ recorded \in [Ops -> States]
  /\ announced \in [Ops -> BOOLEAN]
  /\ sent \in [Ops -> Nat]
  /\ rebuilds \in 0..MaxRebuilds
  /\ storeFaults \in 0..MaxStoreFaults
=============================================================================
