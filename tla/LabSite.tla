------------------------------ MODULE LabSite ------------------------------
(***************************************************************************)
(* Firmware operations and Runs on one device and its lab, which exclude   *)
(* each other by the lock device:<id> that Runs and firmware operations    *)
(* share (lib/services/run_orchestrator.py, lib/services/resource_lock.py; *)
(* the lock itself is the subject of ResourceLock).                        *)
(***************************************************************************)
EXTENDS FaultContext

CONSTANTS Casts  \* what the operations may be

ASSUME CastsAssumption == Casts \subseteq [Ops -> {"update", "rollback", "run"}]

siteVars == <<firmwareVars, runVars>>

First == [update |-> "register", rollback |-> "identify", run |-> "lock"]
Points == FirmwarePoints \cup Ended \cup
  {"identify", "gate", "admit", "admitted", "apply", "body", "restore", "check", "exit"}

Init ==
  /\ kind \in Casts
  /\ at = [p \in Ops |-> First[kind[p]]]
  /\ FirmwareInit
  /\ RunInit

Next ==
  \/ \E p \in Ops :
       \/ (FirmwareStep(p) \/ Acquire(p)) /\ UNCHANGED runVars
       \/ (Release(p) \/ Die(p)) /\ Forget(p)
       \/ RunStep(p)
  \/ (Upgrade \/ Boot \/ Rebuild) /\ UNCHANGED runVars

Spec == Init /\ [][Next]_siteVars

-----------------------------------------------------------------------------
(* Properties.                                                             *)

\* Every variable has its type, and a device that is down runs nothing and has
\* lost its /tmp.
TypeOK ==
  /\ kind \in [Ops -> {"update", "rollback", "run"}]
  /\ at \in [Ops -> Points]
  /\ FirmwareTypeOK
  /\ RunTypeOK
  /\ ~device.up => device.pending = None /\ device.tmp = None

\* While an update holds the device, VALIDATED_FINAL or FIRMWARE_VERSION_VERIFIED
\* in its log means that the device runs the wanted version: whatever command
\* was lost or believed, and however its reboots fall.  (On a device that ran
\* another version and that no other update has told to flash: an update to the
\* version that runs already reads nothing new.)
VerifiedVersionRuns ==
  \A p \in Ops :
    /\ lock = p /\ (recorded[p] = "VALIDATED_FINAL" \/ at[p] = "verified")
    /\ Version[Old] # Version[New]
    /\ \A q \in Ops \ {p} : kind[q] = "update" => sent[q] = 0
    => Version[device.running] = Version[New]

\* With a declared SHA-256 the device is never flashed with anything else, also
\* when the upload is garbled or the file rewritten while the operation runs.  (A
\* file rewritten twice passes: prepare compares the upload with whatever the
\* file is then, and flash looks only whether the file is the declared one.)
FlashedAsDeclared ==
  expected = New /\ rebuilds <= 1 =>
    {device.pending, device.installed, device.running} \subseteq {Old, New, None}

\* No device is flashed or rolled back without an event that announced it,
\* whichever event could not be stored.
MutationsAnnounced ==
  \A p \in Ops : sent[p] > 0 => announced[p]

\* docs/01: "firmware flash [is] never blindly retried": no operation has the
\* device flash or roll back twice, whatever became of the first answer.
NeverResent ==
  \A p \in Ops : sent[p] <= 1

\* While a Run holds the lab nobody begins to flash or roll back its device: at
\* most what an earlier operation left running ends there.
NoMutationDuringARun ==
  [][\A p \in Ops : lock = p /\ kind[p] = "run" =>
       device'.pending \in {device.pending, None} /\ sent' = sent]_siteVars

\* A test that leaves its fault context without an error of the restoration has
\* left none of the effects that its checks are there for: the process of the
\* fault runs, and nothing keeps the client from the access point.  (A wrong PSK
\* under an association that was never cut is no such effect: see README.)
NoSilentResidue ==
  \A p \in Ops : at[p] = "released" /\ kind[p] = "run" /\ ~unrestored[p] =>
    /\ fault[p].checks \cap Present(broken) = {}
    /\ fault[p].association => associated /\ Cuts \cap Present(broken) = {}

\* What a Run killed inside a fault has left is found by the health gate of the
\* next: only a blocked TCP port 53, a stopped DHCP server and a wrong PSK under
\* an association that was never cut pass as HEALTHY.
HealthyLabIsMended ==
  \A p \in Ops : at[p] = "admitted" /\ health[p] = "HEALTHY" =>
    Present(broken) \subseteq {"dns_tcp", "no_dnsmasq", "wrong_psk"} /\ associated
=============================================================================
