--------------------------- MODULE LabSiteProofs ---------------------------
(***************************************************************************)
(* Proofs for LabSite: the inductive invariant IInv of firmware operations *)
(* and Runs on one device, and the safety properties that follow from it,  *)
(* for any number of operations, images, faults and failures.              *)
(***************************************************************************)
EXTENDS LabSite, TLAPS

USE ImagesAssumption, NoneAssumption, BoundsAssumption, CastsAssumption

\* Where an operation of each kind can be before it has ended.
PointsOf ==
  [update |-> {"register", "validate", "artifact", "lock", "authorize", "upload", "put",
               "compare", "prepare", "match", "flash", "send", "reboot", "ready", "verify",
               "final", "verified", "failing", "release", "released"},
   rollback |-> {"identify", "lock", "start", "rollback", "completed", "return",
                 "failing", "release", "released"},
   run |-> {"lock", "gate", "admit", "admitted", "apply", "body", "restore", "check",
            "exit", "release", "released"}]

Unheld == {"register", "validate", "artifact", "identify", "lock"} \cup Ended
BeforeSending == {"register", "validate", "artifact", "identify", "lock", "authorize",
                  "upload", "put", "compare", "prepare", "match", "flash", "send",
                  "start", "rollback"}
InFault == {"apply", "body", "restore", "check", "exit"}

\* An operation is where its kind can be, and between the grant and the release
\* of the lock it is its holder.
Placed(p) ==
  /\ at[p] \in PointsOf[kind[p]] \cup Ended
  /\ at[p] \notin Unheld => lock = p

\* It sends one command, after the event that announces it.
SendsOnce(p) ==
  /\ sent[p] \in {0, 1}
  /\ at[p] \in BeforeSending => sent[p] = 0
  /\ sent[p] > 0 \/ at[p] \in {"send", "rollback"} => announced[p]

\* From prepare on it holds the digest of what is on the device; a file that is
\* rewritten at most once cannot pass match as something else and flash as New.
Declared == expected = New /\ rebuilds <= 1
Matched(p) ==
  /\ at[p] \in {"match", "flash", "send"} => device.tmp \in {digest[p], None}
  /\ Declared /\ at[p] = "flash" => digest[p] = New \/ file # New
  /\ Declared /\ at[p] = "send" => digest[p] = New

\* A Run in a fault is at one of its commands, and what it says of the
\* restoration is so as long as it holds the lab.
Faulted(p) ==
  /\ at[p] \in InFault \/ (at[p] = "released" /\ kind[p] = "run") => fault[p] \in FaultSet
  /\ at[p] = "apply" => step[p] \in 1..Len(fault[p].apply)
  /\ at[p] = "restore" => step[p] \in 1..Len(fault[p].restore)
  /\ at[p] = "exit" \/ (at[p] = "released" /\ kind[p] = "run") =>
       unrestored[p] \/ (/\ fault[p].checks \cap Present(broken) = {}
                         /\ fault[p].association => associated)

IInv ==
  /\ TypeOK
  /\ \A p \in Ops : Placed(p) /\ SendsOnce(p) /\ Matched(p) /\ Faulted(p)
  /\ rebuilds = 0 => file = New
  /\ FlashedAsDeclared

-----------------------------------------------------------------------------
(* The faults and the commands.                                            *)

FaultOK(f) == Len(f.apply) \in 1..5 /\ Len(f.restore) \in 1..5

\* Where a sequence of commands begins, and goes on.
LEMMA Positions ==
  ASSUME NEW n \in 1..5
  PROVE  1 \in 1..n /\ \A i \in 1..n : i \in 0..5 /\ (i < n => i + 1 \in 1..n /\ i + 1 \in 0..5)
OBVIOUS

LEMMA FaultTypes == \A f \in FaultSet : FaultOK(f)
<1> USE DEF FaultOK
<1>1. FaultOK(wifi_link_flap) /\ FaultOK(wifi_disconnect)
  BY DEF wifi_link_flap, wifi_disconnect
<1>2. FaultOK(wrong_psk) /\ FaultOK(dns_block)
  BY DEF wrong_psk, dns_block
<1>3. FaultOK(dhcp_server_stop) /\ FaultOK(ap_restart)
  BY DEF dhcp_server_stop, ap_restart
<1>4. FaultOK(client_wifi_restart)
  BY DEF client_wifi_restart
<1> HIDE DEF FaultOK
<1> QED
  BY <1>1, <1>2, <1>3, <1>4, FaultSetAssumption

LEMMA Outcomes ==
  ASSUME NEW b \in BOOLEAN, NEW o \in Executed(b)
  PROVE  /\ o.sent \in {0, 1} /\ o.took \in BOOLEAN /\ o.answer \in {"ok", "error", "raised"}
         /\ o.took => o.sent = 1
BY DEF Executed, Refused, Unreached, NetmikoAnswers, ParamikoAnswers, Unrecorded

LEMMA InitIInv == Init => IInv
<1> SUFFICES ASSUME Init PROVE IInv
  OBVIOUS
<1> USE DEF Init, FirmwareInit, RunInit
<1>1. \A p \in Ops : kind[p] \in {"update", "rollback", "run"}
                     /\ at[p] \in {"register", "identify", "lock"}
                     /\ at[p] \in PointsOf[kind[p]]
  BY DEF First, PointsOf
<1>2. TypeOK
  BY <1>1 DEF TypeOK, FirmwareTypeOK, RunTypeOK, Devices, States, Points, FirmwarePoints
<1>3. ASSUME NEW p \in Ops PROVE Placed(p) /\ SendsOnce(p) /\ Matched(p) /\ Faulted(p)
  BY <1>1 DEF Placed, SendsOnce, Matched, Faulted, Unheld, InFault
<1> QED
  BY <1>2, <1>3 DEF IInv, FlashedAsDeclared

-----------------------------------------------------------------------------
(* Steps of firmware operations and of the locks.                          *)

\* What is true of the operation that does not step.
Unmoved(p) ==
  \A q \in Ops \ {p} :
    /\ at'[q] = at[q] /\ digest'[q] = digest[q] /\ recorded'[q] = recorded[q]
    /\ announced'[q] = announced[q] /\ sent'[q] = sent[q]

\* A step of p may change its own part of the state, the device as its holder
\* does or by a reboot, and the lock if it is its own or free.
LEMMA OperationStep ==
  ASSUME IInv, NEW p \in Ops, Unmoved(p), UNCHANGED <<kind, fileVars, runVars>>, TypeOK',
         lock' = lock \/ (lock = p /\ lock' = None) \/ (lock = None /\ lock' = p),
         lock # p => device'.tmp \in {device.tmp, None},
         Declared =>
           {device'.pending, device'.installed, device'.running} \subseteq {Old, New, None},
         Placed(p)', SendsOnce(p)', Matched(p)',
         at'[p] \notin InFault, at'[p] = "released" => kind[p] # "run"
  PROVE  IInv'
<1> USE DEF IInv, Unmoved
<1>1. ASSUME NEW q \in Ops \ {p} PROVE Placed(q)' /\ SendsOnce(q)' /\ Matched(q)' /\ Faulted(q)'
  <2>1. Placed(q)'
    BY DEF Placed, Unheld
  <2>2. SendsOnce(q)'
    BY DEF SendsOnce
  <2>3. Matched(q)'
    <3>1. at[q] \in {"match", "flash", "send"} => lock = q /\ lock # p
      BY DEF Placed, Unheld, Ended
    <3> QED
      BY <3>1 DEF Matched, Declared, fileVars
  <2>4. Faulted(q)'
    BY DEF Faulted, runVars, lab
  <2> QED
    BY <2>1, <2>2, <2>3, <2>4
<1>2. Faulted(p)'
  BY DEF Faulted, runVars, lab, InFault
<1>3. (rebuilds = 0 => file = New)' /\ FlashedAsDeclared'
  BY DEF fileVars, FlashedAsDeclared, Declared
<1> QED
  BY <1>1, <1>2, <1>3

\* Steps that leave the device and the lock alone and send nothing.
Quiet(p) ==
  \/ Register(p) \/ Validate(p) \/ RegisterArtifact(p) \/ Authorize(p) \/ Upload(p)
  \/ Compare(p) \/ Match(p) \/ Ready(p) \/ Verify(p) \/ Finalise(p) \/ Verified(p)
  \/ Identify(p) \/ CompleteRollback(p) \/ ReturnRollback(p)
  \/ Fail(p) \/ FailUntold(p)

LEMMA QuietStep ==
  ASSUME IInv, NEW p \in Ops, Quiet(p), UNCHANGED runVars
  PROVE  IInv'
<1> USE DEF IInv, Quiet, Register, Validate, RegisterArtifact, Authorize, Upload, Compare,
            Match, Ready, Verify, Finalise, Verified, Identify, CompleteRollback,
            ReturnRollback, Fail, FailUntold
<1>1. /\ UNCHANGED <<kind, lock, device, fileVars, announced, sent, runVars>>
      /\ storeFaults' \in 0..MaxStoreFaults
  BY DEF TypeOK, FirmwareTypeOK, logVars
<1>2. /\ recorded' \in [Ops -> States] /\ digest' \in [Ops -> Images \cup {None}]
      /\ \A q \in Ops \ {p} : recorded'[q] = recorded[q] /\ digest'[q] = digest[q]
  BY DEF TypeOK, FirmwareTypeOK, logVars, Record, States
<1>3. /\ \A q \in Ops \ {p} : at'[q] = at[q]
      /\ at' \in [Ops -> Points]
  BY DEF TypeOK, FirmwareTypeOK, Goto, Raise, Points, FirmwarePoints, Ended, Guarded
<1>4. Unmoved(p) /\ TypeOK'
  BY <1>1, <1>2, <1>3 DEF Unmoved, TypeOK, FirmwareTypeOK, RunTypeOK, runVars, lab, fileVars
<1>5. Placed(p)' /\ at'[p] \notin InFault /\ (at'[p] = "released" => kind[p] # "run")
  BY <1>1 DEF Placed, TypeOK, PointsOf, Unheld, Ended, Goto, Raise, Guarded, InFault
<1>6. SendsOnce(p)'
  BY <1>1 DEF SendsOnce, BeforeSending, TypeOK, Goto, Raise, Guarded
<1>7. Matched(p)'
  BY <1>1 DEF Matched, Matches, Declared, TypeOK, Goto, Raise, Guarded, fileVars
<1>8. Declared =>
        {device'.pending, device'.installed, device'.running} \subseteq {Old, New, None}
  BY <1>1 DEF Declared, FlashedAsDeclared
<1> QED
  BY <1>1, <1>4, <1>5, <1>6, <1>7, <1>8, OperationStep

LEMMA RaiseStep ==
  ASSUME IInv, NEW p \in Ops, StepRaises(p), UNCHANGED runVars
  PROVE  IInv'
<1> USE DEF IInv, StepRaises
<1>1. /\ UNCHANGED <<kind, lock, device, fileVars, digest, sent, runVars>>
      /\ storeFaults' \in 0..MaxStoreFaults
  BY DEF TypeOK, FirmwareTypeOK
<1>2. /\ recorded' \in [Ops -> States] /\ announced' \in [Ops -> BOOLEAN]
      /\ \A q \in Ops \ {p} : recorded'[q] = recorded[q] /\ announced'[q] = announced[q]
      /\ announced[p] => announced'[p]
  <2>1. \A e \in DOMAIN EventFirst : EventFirst[e] \in States
    BY DEF EventFirst, States
  <2>2. recorded' = recorded \/ recorded' = [recorded EXCEPT ![p] = EventFirst[at[p]]]
    BY DEF Record
  <2>3. announced' = announced \/ announced' = [announced EXCEPT ![p] = TRUE]
    BY DEF Announce
  <2>4. UNCHANGED recorded \/ at[p] \in DOMAIN EventFirst
    OBVIOUS
  <2> QED
    BY <2>1, <2>2, <2>3, <2>4 DEF TypeOK, FirmwareTypeOK
<1>3. /\ \A q \in Ops \ {p} : at'[q] = at[q]
      /\ at' \in [Ops -> Points]
      /\ at[p] \in Unheld => at'[p] = "failed"
      /\ at[p] \notin Unheld => at'[p] \in {"failing", "release"}
  BY DEF TypeOK, Goto, Raise, Points, FirmwarePoints, Ended, Guarded, Unheld
<1>4. Unmoved(p) /\ TypeOK'
  BY <1>1, <1>2, <1>3 DEF Unmoved, TypeOK, FirmwareTypeOK, RunTypeOK, runVars, lab, fileVars
<1>5. Placed(p)'
  <2>1. at'[p] = "failing" => kind[p] # "run"
    BY <1>3 DEF Placed, TypeOK, PointsOf, FirmwarePoints, Ended, Goto, Raise, Guarded
  <2> QED
    BY <1>1, <1>3, <2>1 DEF Placed, TypeOK, PointsOf, Ended, Unheld
<1>6. SendsOnce(p)'
  BY <1>1, <1>2, <1>3 DEF SendsOnce, BeforeSending
<1>7. Matched(p)'
  BY <1>3 DEF Matched
<1>8. Declared =>
        {device'.pending, device'.installed, device'.running} \subseteq {Old, New, None}
  BY <1>1 DEF Declared, FlashedAsDeclared
<1> QED
  BY <1>1, <1>3, <1>4, <1>5, <1>6, <1>7, <1>8, OperationStep DEF InFault

\* Steps of the holder that change what the device has in /tmp, what is announced
\* or what is flashed.
LEMMA TransferStep ==
  ASSUME IInv, NEW p \in Ops, Put(p) \/ Prepare(p) \/ Flash(p) \/ StartRollback(p),
         UNCHANGED runVars
  PROVE  IInv'
<1> USE DEF IInv, Put, Prepare, Flash, StartRollback
<1>1. /\ UNCHANGED <<kind, lock, fileVars, storeFaults, sent, runVars>>
      /\ device' \in Devices
      /\ device'.pending = device.pending /\ device'.installed = device.installed
      /\ device'.running = device.running /\ device'.up = device.up
      /\ ~device'.up => device'.tmp = None
  BY DEF TypeOK, FirmwareTypeOK, Devices, logVars
<1>2. /\ recorded' \in [Ops -> States] /\ digest' \in [Ops -> Images \cup {None}]
      /\ announced' \in [Ops -> BOOLEAN]
      /\ \A q \in Ops \ {p} : recorded'[q] = recorded[q] /\ digest'[q] = digest[q]
                              /\ announced'[q] = announced[q]
      /\ announced[p] => announced'[p]
  BY DEF TypeOK, FirmwareTypeOK, logVars, Record, Announce, States, Devices
<1>3. /\ \A q \in Ops \ {p} : at'[q] = at[q]
      /\ at' \in [Ops -> Points]
  BY DEF TypeOK, FirmwareTypeOK, Goto, Raise, Points, FirmwarePoints, Ended, Guarded
<1>4. Unmoved(p) /\ TypeOK'
  BY <1>1, <1>2, <1>3 DEF Unmoved, TypeOK, FirmwareTypeOK, RunTypeOK, runVars, lab, fileVars
<1>5. Placed(p)' /\ lock = p /\ at'[p] \notin InFault /\ at'[p] # "released"
  BY <1>1 DEF Placed, TypeOK, PointsOf, Unheld, Ended, Goto, Raise, Guarded, InFault
<1>6. SendsOnce(p)'
  BY <1>1, <1>2 DEF SendsOnce, BeforeSending, TypeOK, FirmwareTypeOK, Goto, Raise, Guarded,
                    Announce
<1>7. Matched(p)'
  BY <1>1 DEF Matched, Valid, Declared, TypeOK, FirmwareTypeOK, Goto, Raise, Guarded,
              fileVars, Devices
<1>8. Declared =>
        {device'.pending, device'.installed, device'.running} \subseteq {Old, New, None}
  BY <1>1 DEF Declared, FlashedAsDeclared
<1> QED
  BY <1>1, <1>4, <1>5, <1>6, <1>7, <1>8, OperationStep

LEMMA SendStep ==
  ASSUME IInv, NEW p \in Ops, NEW point, NEW image, NEW next, Send(p, point, image, next),
         \/ point = "send" /\ image = device.tmp /\ next = "reboot"
         \/ point = "rollback" /\ image = Old /\ next = "completed",
         UNCHANGED runVars
  PROVE  IInv'
<1> USE DEF IInv, Send
<1>1. PICK o \in Executed(FALSE) :
        /\ o.sent > 0 => device.up
        /\ sent' = [sent EXCEPT ![p] = @ + o.sent]
        /\ device' = IF o.took /\ image # None
                     THEN [device EXCEPT !.pending = image] ELSE device
        /\ IF o.answer = "ok" THEN Goto(p, next) ELSE Raise(p)
  OBVIOUS
<1>2. o.sent \in {0, 1} /\ o.took \in BOOLEAN /\ (o.took => o.sent = 1)
  BY Outcomes
<1>3. /\ UNCHANGED <<kind, lock, fileVars, digest, logVars, runVars>>
      /\ at[p] = point /\ lock = p /\ kind[p] # "run" /\ announced[p] /\ sent[p] = 0
  BY DEF Placed, Unheld, Ended, SendsOnce, BeforeSending, TypeOK, PointsOf
<1>4. /\ device' \in Devices /\ device'.tmp = device.tmp /\ device'.up = device.up
      /\ device'.installed = device.installed /\ device'.running = device.running
      /\ device'.pending = device.pending \/ (device.up /\ device'.pending = image /\ image # None)
  BY <1>1, <1>2 DEF TypeOK, FirmwareTypeOK, Devices
<1>5. /\ \A q \in Ops \ {p} : at'[q] = at[q] /\ sent'[q] = sent[q]
      /\ at' \in [Ops -> Points] /\ sent' \in [Ops -> Nat] /\ sent'[p] \in {0, 1}
      /\ at'[p] \in {next, "failing"}
  BY <1>1, <1>2, <1>3
  DEF TypeOK, FirmwareTypeOK, Goto, Raise, Points, FirmwarePoints, Ended, Guarded
<1>6. Unmoved(p) /\ TypeOK'
  BY <1>3, <1>4, <1>5
  DEF Unmoved, TypeOK, FirmwareTypeOK, RunTypeOK, runVars, lab, fileVars, logVars
<1>7. Placed(p)'
  BY <1>3, <1>5 DEF Placed, TypeOK, PointsOf, Unheld, Ended
<1>8. SendsOnce(p)' /\ Matched(p)'
  BY <1>3, <1>5 DEF SendsOnce, BeforeSending, Matched, logVars
<1>9. Declared =>
        {device'.pending, device'.installed, device'.running} \subseteq {Old, New, None}
  BY <1>3, <1>4 DEF Declared, FlashedAsDeclared, Matched
<1> QED
  BY <1>3, <1>4, <1>5, <1>6, <1>7, <1>8, <1>9, OperationStep DEF InFault

LEMMA DownTypes ==
  TypeOK => /\ Down \in Devices /\ ~Down.up /\ Down.pending = None /\ Down.tmp = None
            /\ Down.installed = device.installed /\ Down.running = device.running
BY DEF TypeOK, FirmwareTypeOK, Devices, Down

LEMMA RebootStep == ASSUME IInv, NEW p \in Ops, Reboot(p), UNCHANGED runVars PROVE IInv'
<1> USE DEF IInv, Reboot
<1>1. device' \in {device, Down}
  OBVIOUS
<1>2. /\ UNCHANGED <<kind, lock, fileVars, digest, announced, storeFaults, sent, runVars>>
      /\ at[p] = "reboot" /\ lock = p /\ kind[p] = "update"
  BY DEF Placed, Unheld, Ended, TypeOK, PointsOf
<1>3. /\ \A q \in Ops \ {p} : at'[q] = at[q] /\ recorded'[q] = recorded[q]
      /\ at' \in [Ops -> Points] /\ recorded' \in [Ops -> States]
      /\ at'[p] \in {"ready", "failing"}
  BY <1>2 DEF TypeOK, FirmwareTypeOK, Goto, Raise, Points, FirmwarePoints, Ended, Guarded,
              Record, States
<1>4. Unmoved(p) /\ TypeOK'
  BY <1>1, <1>2, <1>3, DownTypes
  DEF Unmoved, TypeOK, FirmwareTypeOK, RunTypeOK, runVars, lab, fileVars
<1>5. Placed(p)' /\ SendsOnce(p)' /\ Matched(p)'
  BY <1>2, <1>3 DEF Placed, TypeOK, PointsOf, Unheld, Ended, SendsOnce, BeforeSending, Matched
<1>6. Declared =>
        {device'.pending, device'.installed, device'.running} \subseteq {Old, New, None}
  BY <1>1, DownTypes DEF Declared, FlashedAsDeclared
<1> QED
  BY <1>2, <1>3, <1>4, <1>5, <1>6, OperationStep DEF InFault

LEMMA AcquireStep == ASSUME IInv, NEW p \in Ops, Acquire(p), UNCHANGED runVars PROVE IInv'
<1> USE DEF IInv, Acquire
<1>1. /\ UNCHANGED <<kind, device, fileVars, digest, logVars, sent, runVars>> /\ at[p] = "lock"
  OBVIOUS
<1>2. \/ lock = None /\ lock' = p /\ at' = [at EXCEPT ![p] = Granted[kind[p]]]
      \/ lock' = lock /\ at' = [at EXCEPT ![p] = "refused"]
  BY DEF Free, Goto
<1>3. Granted[kind[p]] \in {"authorize", "start", "gate"} \cap PointsOf[kind[p]]
  BY DEF Granted, TypeOK, PointsOf
<1>4. Unmoved(p) /\ TypeOK'
  BY <1>1, <1>2, <1>3 DEF Unmoved, TypeOK, FirmwareTypeOK, RunTypeOK, runVars, lab, fileVars,
       logVars, Points, FirmwarePoints, Ended
<1>5. Placed(p)' /\ SendsOnce(p)' /\ Matched(p)'
  BY <1>1, <1>2, <1>3 DEF Placed, TypeOK, Ended, Unheld, SendsOnce, BeforeSending, Matched,
       logVars
<1>6. Declared =>
        {device'.pending, device'.installed, device'.running} \subseteq {Old, New, None}
  BY <1>1 DEF Declared, FlashedAsDeclared
<1>7. at'[p] \notin InFault /\ at'[p] # "released"
  BY <1>2, <1>3 DEF InFault, TypeOK
<1> QED
  BY <1>1, <1>2, <1>4, <1>5, <1>6, <1>7, OperationStep

\* Release and death forget the fault and free the lock.
LEMMA EndStep ==
  ASSUME IInv, NEW p \in Ops, Release(p) \/ Die(p), Forget(p)
  PROVE  IInv'
<1> USE DEF IInv, Release, Die, Forget
<1>1. /\ UNCHANGED <<kind, device, fileVars, logVars, sent, lab>>
      /\ \/ lock' = lock \/ (lock = p /\ lock' = None)
      /\ lock' # p
  BY DEF Placed, Unheld, Ended
<1>2. /\ \A q \in Ops \ {p} : /\ at'[q] = at[q] /\ digest'[q] = digest[q]
                              /\ fault'[q] = fault[q] /\ step'[q] = step[q]
                              /\ unrestored'[q] = unrestored[q]
      /\ at' \in [Ops -> Points] /\ at'[p] \in {"done", "failed", "dead"}
  BY DEF TypeOK, FirmwareTypeOK, RunTypeOK, Goto, Points, FirmwarePoints, Ended
<1>3. TypeOK'
  <2>1. FirmwareTypeOK'
    BY <1>1 DEF TypeOK, FirmwareTypeOK, fileVars, logVars
  <2>2. RunTypeOK'
    BY <1>1 DEF TypeOK, RunTypeOK, lab
  <2> QED
    BY <1>1, <1>2, <2>1, <2>2 DEF TypeOK
<1>4. ASSUME NEW q \in Ops \ {p} PROVE Placed(q)' /\ SendsOnce(q)' /\ Matched(q)' /\ Faulted(q)'
  <2>1. Placed(q)'
    BY <1>1, <1>2 DEF Placed
  <2>2. SendsOnce(q)' /\ Matched(q)'
    BY <1>1, <1>2 DEF SendsOnce, Matched, Declared, fileVars, logVars
  <2>3. Faulted(q)'
    BY <1>1, <1>2 DEF Faulted, lab
  <2> QED
    BY <2>1, <2>2, <2>3
<1>5. Placed(p)' /\ SendsOnce(p)' /\ Matched(p)' /\ Faulted(p)'
  BY <1>1, <1>2
  DEF Placed, Ended, Unheld, SendsOnce, BeforeSending, Matched, Faulted, InFault, logVars
<1>6. (rebuilds = 0 => file = New)' /\ FlashedAsDeclared'
  BY <1>1 DEF fileVars, FlashedAsDeclared
<1> QED
  BY <1>3, <1>4, <1>5, <1>6

\* The device and the file go their own way.
LEMMA SurroundingsStep ==
  ASSUME IInv, Upgrade \/ Boot \/ Rebuild, UNCHANGED runVars PROVE IInv'
<1> USE DEF IInv, Upgrade, Boot, Rebuild
<1>1. UNCHANGED <<kind, at, lock, expected, digest, logVars, sent, runVars>>
  BY DEF fileVars
<1>2. /\ device' \in Devices /\ device'.tmp \in {device.tmp, None}
      /\ ~device'.up => device'.pending = None /\ device'.tmp = None
      /\ device'.pending \in {device.pending, None}
      /\ device'.installed \in {device.installed, device.pending}
      /\ device'.running \in {device.installed, device.running}
      /\ device.pending = None => device'.installed = device.installed
  <2>1. CASE Upgrade
    <3>1. device' = [Down EXCEPT !.installed = device.pending]
      BY <2>1
    <3>2. device.pending \in Images /\ Down \in Devices
      BY <2>1, DownTypes DEF TypeOK, FirmwareTypeOK, Devices
    <3> QED
      BY <3>1, <3>2, <2>1, DownTypes DEF TypeOK, FirmwareTypeOK, Devices
  <2>2. CASE Boot
    BY <2>2 DEF TypeOK, FirmwareTypeOK, Devices
  <2>3. CASE Rebuild
    BY <2>3 DEF TypeOK, FirmwareTypeOK, Devices
  <2> QED
    BY <2>1, <2>2, <2>3
<1>3. /\ file' \in Images /\ rebuilds' \in 0..MaxRebuilds
      /\ \/ UNCHANGED <<file, rebuilds>>
         \/ UNCHANGED device /\ rebuilds' = rebuilds + 1
  BY DEF TypeOK, FirmwareTypeOK, fileVars
<1>4. TypeOK'
  BY <1>1, <1>2, <1>3 DEF TypeOK, FirmwareTypeOK, RunTypeOK, runVars, lab, logVars
<1>5. (rebuilds = 0 => file = New)'
  BY <1>3 DEF TypeOK, FirmwareTypeOK
<1>6. /\ Declared' => Declared
      /\ Declared' => UNCHANGED file \/ file = New
  BY <1>1, <1>3 DEF Declared, TypeOK, FirmwareTypeOK
<1>7. ASSUME NEW q \in Ops PROVE Placed(q)' /\ SendsOnce(q)' /\ Matched(q)' /\ Faulted(q)'
  <2>1. Placed(q)' /\ SendsOnce(q)' /\ Faulted(q)'
    BY <1>1 DEF Placed, SendsOnce, Faulted, logVars, runVars, lab
  <2>2. Matched(q)'
    BY <1>1, <1>2, <1>6 DEF Matched
  <2> QED
    BY <2>1, <2>2
<1>8. FlashedAsDeclared'
  BY <1>2, <1>6 DEF FlashedAsDeclared, Declared
<1> QED
  BY <1>4, <1>5, <1>7, <1>8

-----------------------------------------------------------------------------
(* Steps of a Run, which is alone in the lab.                               *)

\* A Run may move on and change the lab if it tells the truth about it.
LEMMA RunKeeps ==
  ASSUME IInv, NEW p \in Ops, kind[p] = "run", at[p] \notin Unheld,
         NEW point \in PointsOf["run"] \ Unheld, Goto(p, point),
         UNCHANGED <<kind, lock, device, fileVars, digest, logVars, sent>>,
         RunTypeOK',
         \A q \in Ops \ {p} : /\ fault'[q] = fault[q] /\ step'[q] = step[q]
                              /\ unrestored'[q] = unrestored[q],
         Faulted(p)'
  PROVE  IInv'
<1> USE DEF IInv
<1>1. /\ at' \in [Ops -> Points] /\ at'[p] = point /\ \A q \in Ops \ {p} : at'[q] = at[q]
      /\ point \in PointsOf["run"]
  BY DEF Goto, TypeOK, PointsOf, Points, FirmwarePoints
<1>2. TypeOK'
  BY <1>1 DEF TypeOK, FirmwareTypeOK, fileVars, logVars
<1>3. lock = p
  BY DEF Placed
<1>4. ASSUME NEW q \in Ops \ {p} PROVE Placed(q)' /\ SendsOnce(q)' /\ Matched(q)' /\ Faulted(q)'
  <2>1. Placed(q)'
    BY <1>1 DEF Placed
  <2>2. SendsOnce(q)' /\ Matched(q)'
    BY <1>1 DEF SendsOnce, Matched, Declared, fileVars, logVars
  <2>3. at[q] \notin InFault \cup {"released"}
    BY <1>3 DEF Placed, InFault, Unheld, Ended
  <2>4. Faulted(q)'
    BY <1>1, <2>3 DEF Faulted, InFault
  <2> QED
    BY <2>1, <2>2, <2>4
<1>5. Placed(p)' /\ SendsOnce(p)' /\ Matched(p)'
  <2>1. point \notin BeforeSending \ {"lock"} /\ point # "lock"
    BY DEF PointsOf, BeforeSending, Unheld
  <2> QED
    BY <1>1, <1>3, <2>1 DEF Placed, SendsOnce, Matched, BeforeSending, logVars
<1>6. (rebuilds = 0 => file = New)' /\ FlashedAsDeclared'
  BY DEF fileVars, FlashedAsDeclared
<1> QED
  BY <1>2, <1>4, <1>5, <1>6

RunPoints == {"gate", "admit", "admitted", "apply", "body", "restore", "check", "exit"}

LEMMA RunAlone ==
  ASSUME IInv, NEW p \in Ops, at[p] \in RunPoints
  PROVE  kind[p] = "run" /\ at[p] \notin Unheld
BY DEF IInv, RunPoints, Placed, TypeOK, PointsOf, Unheld, Ended

LEMMA RollupTypes == \A obs : Rollup(obs) \in {"HEALTHY", "DEGRADED", "FAILED"}
BY DEF Rollup

LEMMA GateStep ==
  ASSUME IInv, NEW p \in Ops, CheckLab(p) \/ Admit(p) PROVE IInv'
<1> USE DEF CheckLab, Admit
<1>1. kind[p] = "run" /\ at[p] \notin Unheld
  BY RunAlone DEF RunPoints
<1>2. /\ UNCHANGED <<kind, lock, device, fileVars, digest, logVars, sent,
                     lab, fault, step, unrestored>>
      /\ \E point \in {"admit", "release", "admitted"} : Goto(p, point)
  BY DEF runVars, lab
<1>3. health' \in [Ops -> {"none", "HEALTHY", "DEGRADED", "FAILED"}]
  <2>1. CASE Admit(p)
    BY <2>1 DEF IInv, TypeOK, RunTypeOK, runVars, lab
  <2>2. CASE CheckLab(p)
    <3>1. \E obs : health' = [health EXCEPT ![p] = Rollup(obs)]
      BY <2>2
    <3> QED
      BY <3>1, RollupTypes DEF IInv, TypeOK, RunTypeOK
  <2> QED
    BY <2>1, <2>2
<1>4. RunTypeOK'
  BY <1>2, <1>3 DEF IInv, TypeOK, RunTypeOK, lab
<1>5. PICK point \in {"admit", "release", "admitted"} : Goto(p, point)
  BY <1>2
<1>6. point \in PointsOf["run"] \ Unheld
  BY <1>5 DEF PointsOf, Unheld, Ended
<1>7. Faulted(p)'
  BY <1>5 DEF Faulted, Goto, InFault, IInv, TypeOK
<1> QED
  BY <1>1, <1>2, <1>4, <1>5, <1>6, <1>7, RunKeeps

\* A fault command changes how often the effects are there.
LEMMA DidTypes ==
  ASSUME broken \in [Effects -> Nat], NEW c, NEW o, Did(c, o)
  PROVE  broken' \in [Effects -> Nat] /\ associated' \in BOOLEAN
<1>1. \A e \in Effects : After(c, e, broken[e]) \in Nat
  BY DEF After
<1>2. broken' \in [Effects -> Nat]
  BY <1>1 DEF Did
<1>3. associated' \in BOOLEAN
  BY DEF Did
<1> QED
  BY <1>2, <1>3

LEMMA EnterStep == ASSUME IInv, NEW p \in Ops, Enter(p) PROVE IInv'
<1> USE DEF Enter
<1>1. kind[p] = "run" /\ at[p] \notin Unheld
  BY RunAlone DEF RunPoints
<1>2. PICK f \in FaultSet : fault' = [fault EXCEPT ![p] = f]
  OBVIOUS
<1>3. FaultOK(f)
  BY FaultTypes
<1>4. /\ RunTypeOK' /\ fault'[p] = f /\ step'[p] = 1
      /\ \A q \in Ops \ {p} : fault'[q] = fault[q] /\ step'[q] = step[q]
  BY <1>2 DEF IInv, TypeOK, RunTypeOK, lab
<1>5. Faulted(p)'
  <2>1. at'[p] = "apply" /\ 1 \in 1..Len(f.apply)
    BY <1>3, Positions DEF FaultOK, Goto, IInv, TypeOK
  <2> QED
    BY <1>4, <2>1 DEF Faulted
<1>6. "apply" \in PointsOf["run"] \ Unheld
  BY DEF PointsOf, Unheld, Ended
<1> QED
  BY <1>1, <1>4, <1>5, <1>6, RunKeeps

LEMMA ApplyStep == ASSUME IInv, NEW p \in Ops, Apply(p) PROVE IInv'
<1> USE DEF Apply
<1>1. kind[p] = "run" /\ at[p] \notin Unheld /\ at[p] = "apply"
  BY RunAlone DEF RunPoints
<1>2. fault[p] \in FaultSet /\ step[p] \in 1..Len(fault[p].apply)
  BY <1>1 DEF IInv, Faulted, InFault
<1>3. FaultOK(fault[p])
  BY <1>2, FaultTypes
<1>4. PICK o \in Executed(TRUE) :
        /\ Did(fault[p].apply[step[p]], o)
        /\ CASE o.answer # "ok" -> Leave(p)
             [] o.answer = "ok" /\ step[p] < Len(fault[p].apply) ->
                  step' = [step EXCEPT ![p] = @ + 1] /\ UNCHANGED at
             [] OTHER -> Goto(p, "body") /\ UNCHANGED step
  OBVIOUS
<1>5. broken' \in [Effects -> Nat] /\ associated' \in BOOLEAN
  BY <1>4, DidTypes DEF IInv, TypeOK, RunTypeOK
<1>6. \/ Goto(p, "restore") /\ step' = [step EXCEPT ![p] = 1]
      \/ Goto(p, "apply") /\ step' = [step EXCEPT ![p] = @ + 1] /\ step[p] < Len(fault[p].apply)
      \/ Goto(p, "body") /\ UNCHANGED step
  BY <1>1, <1>4 DEF Leave, Goto, IInv, TypeOK
<1>7. /\ RunTypeOK' /\ UNCHANGED <<fault, unrestored>>
      /\ \A q \in Ops \ {p} : step'[q] = step[q]
      /\ Faulted(p)'
  <2>1. Len(fault[p].apply) \in 1..5 /\ Len(fault[p].restore) \in 1..5
    BY <1>3 DEF FaultOK
  <2>2. /\ step' \in [Ops -> 0..5] /\ \A q \in Ops \ {p} : step'[q] = step[q]
        /\ at' = [at EXCEPT ![p] = "apply"] => step'[p] \in 1..Len(fault[p].apply)
        /\ at' = [at EXCEPT ![p] = "restore"] => step'[p] \in 1..Len(fault[p].restore)
    <3>1. step \in [Ops -> 0..5] /\ step[p] \in 1..Len(fault[p].apply)
      BY <1>2 DEF IInv, TypeOK, RunTypeOK
    <3>2. step[p] < Len(fault[p].apply) => step[p] + 1 \in 0..5
                                           /\ step[p] + 1 \in 1..Len(fault[p].apply)
      BY <2>1, <3>1, Positions
    <3> QED
      BY <1>1, <1>6, <2>1, <3>1, <3>2, Positions DEF Goto, IInv, TypeOK
  <2>3. Faulted(p)'
    BY <1>2, <1>6, <2>1, <2>2 DEF Faulted, Goto, IInv, TypeOK
  <2> QED
    BY <1>5, <2>2, <2>3 DEF IInv, TypeOK, RunTypeOK
<1>8. {"apply", "body", "restore"} \subseteq PointsOf["run"] \ Unheld
  BY DEF PointsOf, Unheld, Ended
<1> QED
  BY <1>1, <1>6, <1>7, <1>8, RunKeeps

LEMMA RestoreStep == ASSUME IInv, NEW p \in Ops, Restore(p) PROVE IInv'
<1> USE DEF Restore
<1>1. kind[p] = "run" /\ at[p] \notin Unheld /\ at[p] = "restore"
  BY RunAlone DEF RunPoints
<1>2. fault[p] \in FaultSet /\ step[p] \in 1..Len(fault[p].restore)
  BY <1>1 DEF IInv, Faulted, InFault
<1>3. FaultOK(fault[p])
  BY <1>2, FaultTypes
<1>4. PICK o \in Executed(TRUE) :
        /\ Did(fault[p].restore[step[p]], o)
        /\ unrestored' = [unrestored EXCEPT ![p] = @ \/ o.answer # "ok"]
        /\ IF step[p] < Len(fault[p].restore)
           THEN step' = [step EXCEPT ![p] = @ + 1] /\ UNCHANGED at
           ELSE Goto(p, AfterRestore(p, ~unrestored'[p])) /\ UNCHANGED step
  OBVIOUS
<1>5. broken' \in [Effects -> Nat] /\ associated' \in BOOLEAN
  BY <1>4, DidTypes DEF IInv, TypeOK, RunTypeOK
<1>6. \/ Goto(p, "restore") /\ step' = [step EXCEPT ![p] = @ + 1]
         /\ step[p] < Len(fault[p].restore)
      \/ Goto(p, "check") /\ UNCHANGED step
  BY <1>1, <1>4 DEF AfterRestore, Goto, IInv, TypeOK
<1>7. /\ unrestored' \in [Ops -> BOOLEAN]
      /\ \A q \in Ops \ {p} : unrestored'[q] = unrestored[q]
  BY <1>4 DEF IInv, TypeOK, RunTypeOK
<1>8. /\ RunTypeOK' /\ UNCHANGED fault
      /\ \A q \in Ops \ {p} : step'[q] = step[q]
      /\ Faulted(p)'
  <2>1. Len(fault[p].restore) \in 1..5
    BY <1>3 DEF FaultOK
  <2>2. /\ step' \in [Ops -> 0..5] /\ \A q \in Ops \ {p} : step'[q] = step[q]
        /\ at' = [at EXCEPT ![p] = "restore"] => step'[p] \in 1..Len(fault[p].restore)
    <3>1. step \in [Ops -> 0..5] /\ step[p] \in 1..Len(fault[p].restore)
      BY <1>2 DEF IInv, TypeOK, RunTypeOK
    <3>2. step[p] < Len(fault[p].restore) => step[p] + 1 \in 0..5
                                           /\ step[p] + 1 \in 1..Len(fault[p].restore)
      BY <2>1, <3>1, Positions
    <3> QED
      BY <1>1, <1>6, <2>1, <3>1, <3>2, Positions DEF Goto, IInv, TypeOK
  <2>3. Faulted(p)'
    BY <1>2, <1>6, <2>1, <2>2 DEF Faulted, Goto, IInv, TypeOK
  <2> QED
    BY <1>5, <1>7, <2>2, <2>3 DEF IInv, TypeOK, RunTypeOK
<1>9. {"restore", "check"} \subseteq PointsOf["run"] \ Unheld
  BY DEF PointsOf, Unheld, Ended
<1> QED
  BY <1>1, <1>6, <1>7, <1>8, <1>9, RunKeeps

\* A client that is connected is associated, whatever wpa_cli leaves out.
LEMMA ConnectedIsAssociated ==
  ASSUME NEW v \in Views, Connected(v) PROVE associated
BY DEF Views, Connected

\* The context ends: what it says of the restoration is what its checks saw.
LEMMA LeaveStep ==
  ASSUME IInv, NEW p \in Ops, Body(p) \/ Check(p) \/ Interrupted(p) \/ Exit(p) PROVE IInv'
<1> USE DEF Body, Check, Interrupted, Exit, Leave
<1>1. kind[p] = "run" /\ at[p] \notin Unheld /\ at[p] \in InFault
  BY RunAlone DEF RunPoints, InFault
<1>2. fault[p] \in FaultSet
  BY <1>1 DEF IInv, Faulted
<1>3. FaultOK(fault[p])
  BY <1>2, FaultTypes
<1>4. UNCHANGED <<kind, lock, device, fileVars, digest, logVars, sent, lab, fault, health>>
  BY DEF runVars, lab
<1>5. /\ RunTypeOK'
      /\ \A q \in Ops \ {p} : step'[q] = step[q] /\ unrestored'[q] = unrestored[q]
  <2>1. /\ step' = step \/ step' = [step EXCEPT ![p] = 1]
        /\ unrestored' = unrestored \/ unrestored' = [unrestored EXCEPT ![p] = TRUE]
    BY DEF runVars, lab
  <2>2. step' \in [Ops -> 0..5] /\ \A q \in Ops \ {p} : step'[q] = step[q]
    BY <2>1 DEF IInv, TypeOK, RunTypeOK
  <2>3. unrestored' \in [Ops -> BOOLEAN] /\ \A q \in Ops \ {p} : unrestored'[q] = unrestored[q]
    BY <2>1 DEF IInv, TypeOK, RunTypeOK
  <2> QED
    BY <1>4, <2>2, <2>3 DEF IInv, TypeOK, RunTypeOK, lab
<1>6. Holds(fault[p]) => /\ fault[p].checks \cap Present(broken) = {}
                         /\ fault[p].association => associated
  BY ConnectedIsAssociated DEF Holds
<1>7. Faulted(p)'
  <2>1. CASE Body(p)
    <3>1. at'[p] = "restore" /\ step'[p] = 1 /\ 1 \in 1..Len(fault[p].restore)
      BY <1>3, <2>1, Positions DEF FaultOK, Goto, IInv, TypeOK, RunTypeOK
    <3> QED
      BY <1>2, <1>4, <3>1 DEF Faulted
  <2>2. CASE Check(p)
    BY <1>2, <1>4, <1>6, <2>2 DEF Faulted, Goto, IInv, TypeOK, RunTypeOK, lab
  <2>3. CASE Interrupted(p)
    BY <1>2, <1>4, <2>3 DEF Faulted, Goto, IInv, TypeOK, RunTypeOK
  <2>4. CASE Exit(p)
    BY <1>2, <1>4, <2>4 DEF Faulted, Goto, IInv, TypeOK, RunTypeOK, runVars, lab
  <2> QED
    BY <2>1, <2>2, <2>3, <2>4
<1>8. PICK point \in {"restore", "exit", "released"} : Goto(p, point)
  OBVIOUS
<1>9. point \in PointsOf["run"] \ Unheld
  BY <1>8 DEF PointsOf, Unheld, Ended
<1> QED
  BY <1>1, <1>4, <1>5, <1>7, <1>8, <1>9, RunKeeps

-----------------------------------------------------------------------------

LEMMA NextKeepsIInv == IInv /\ [Next]_siteVars => IInv'
<1> SUFFICES ASSUME IInv, [Next]_siteVars PROVE IInv'
  OBVIOUS
<1>1. CASE UNCHANGED siteVars
  BY <1>1 DEF siteVars, firmwareVars, runVars, lab, fileVars, logVars, IInv, TypeOK, FirmwareTypeOK,
       RunTypeOK, Placed, SendsOnce, Matched, Declared, Faulted, FlashedAsDeclared
<1>2. ASSUME NEW p \in Ops, FirmwareStep(p), UNCHANGED runVars PROVE IInv'
  BY <1>2, QuietStep, RaiseStep, TransferStep, SendStep, RebootStep
  DEF FirmwareStep, Quiet, SendFlash, SendRollback
<1>3. ASSUME NEW p \in Ops, RunStep(p) PROVE IInv'
  BY <1>3, GateStep, EnterStep, ApplyStep, RestoreStep, LeaveStep DEF RunStep
<1> QED
  BY <1>1, <1>2, <1>3, AcquireStep, EndStep, SurroundingsStep DEF Next

\* The invariant holds in every reachable state.
THEOREM Invariance == Spec => []IInv
<1>1. Init => IInv
  BY InitIInv
<1>2. IInv /\ [Next]_siteVars => IInv'
  BY NextKeepsIInv
<1> QED
  BY <1>1, <1>2, PTL DEF Spec

\* The operations' locals, the device, its log and the lab keep their types, and
\* a device that is down runs nothing.
THEOREM TypeCorrect == Spec => []TypeOK
<1>1. IInv => TypeOK
  BY DEF IInv
<1> QED
  BY <1>1, Invariance, PTL

\* update and rollback store their FLASHING or ROLLBACK_STARTED event before the
\* device is told, wherever they raise.
THEOREM MutationsAreAnnounced == Spec => []MutationsAnnounced
<1>1. IInv => MutationsAnnounced
  BY DEF IInv, SendsOnce, MutationsAnnounced
<1> QED
  BY <1>1, Invariance, PTL

\* No operation has the device flash or roll back twice: sending is never retried
\* and no failure leads back before it.
THEOREM NothingIsResent == Spec => []NeverResent
<1>1. IInv => NeverResent
  BY DEF IInv, SendsOnce, NeverResent
<1> QED
  BY <1>1, Invariance, PTL

\* With a declared SHA-256 and a file rewritten at most once, a garbled upload or a
\* rewritten file never reaches the flash: prepare compares what is on the device.
THEOREM OnlyDeclaredImages == Spec => []FlashedAsDeclared
<1>1. IInv => FlashedAsDeclared
  BY DEF IInv
<1> QED
  BY <1>1, Invariance, PTL

\* An associated client has nothing that cuts the association; only a fault command
\* changes either.
AssociationInv == associated => Cuts \cap Present(broken) = {}

LEMMA Association == Spec => []AssociationInv
<1>1. Init => AssociationInv
  BY DEF Init, RunInit, AssociationInv, Present
<1>2. AssociationInv /\ [Next]_siteVars => AssociationInv'
  <2> SUFFICES ASSUME AssociationInv, [Next]_siteVars PROVE AssociationInv'
    OBVIOUS
  <2>1. CASE UNCHANGED lab
    BY <2>1 DEF lab, AssociationInv, Present
  <2>2. ASSUME NEW c, NEW o, Did(c, o) PROVE AssociationInv'
    BY <2>2 DEF Did, AssociationInv
  <2>3. ASSUME NEW p \in Ops, RunStep(p) PROVE UNCHANGED lab \/ \E c, o : Did(c, o)
    <3>1. CASE Apply(p) \/ Restore(p)
      BY <3>1 DEF Apply, Restore
    <3>2. CASE CheckLab(p) \/ Admit(p) \/ Enter(p) \/ Body(p) \/ Check(p) \/ Interrupted(p)
               \/ Exit(p)
      BY <3>2 DEF CheckLab, Admit, Enter, Body, Check, Interrupted, Exit, runVars
    <3> QED
      BY <2>3, <3>1, <3>2 DEF RunStep
  <2>4. ASSUME ~UNCHANGED lab PROVE \E p \in Ops : RunStep(p)
    BY <2>4 DEF Next, Forget, siteVars, runVars
  <2> QED
    BY <2>1, <2>2, <2>3, <2>4
<1> QED
  BY <1>1, <1>2, PTL DEF Spec

\* A fault context that ends without an error of the restoration has left the
\* process of its fault running, and the client associated with nothing that would
\* cut it off: the last check looked, and nobody else touches the lab.
THEOREM ResidueIsTold == Spec => []NoSilentResidue
<1>1. IInv /\ AssociationInv => NoSilentResidue
  BY DEF IInv, Faulted, NoSilentResidue, AssociationInv
<1> QED
  BY <1>1, Invariance, Association, PTL

\* The lock device:<id> keeps updates and rollbacks from beginning to change the
\* device of a Run.
THEOREM RunsAreUndisturbed == Spec => NoMutationDuringARun
<1> DEFINE Undisturbed == \A p \in Ops : lock = p /\ kind[p] = "run" =>
             device'.pending \in {device.pending, None} /\ sent' = sent
<1>1. ASSUME IInv, [Next]_siteVars PROVE [Undisturbed]_siteVars
  <2>1. SUFFICES ASSUME NEW p \in Ops, lock = p, kind[p] = "run"
                 PROVE  device'.pending \in {device.pending, None} /\ sent' = sent
    OBVIOUS
  <2>2. ASSUME NEW q \in Ops, FirmwareStep(q)
        PROVE  device'.pending \in {device.pending, None} /\ sent' = sent
    <3>1. at[q] \notin {"send", "rollback"}
      BY <1>1, <2>1 DEF IInv, Placed, TypeOK, PointsOf, Unheld, Ended
    <3>2. ~SendFlash(q) /\ ~SendRollback(q)
      BY <3>1 DEF SendFlash, SendRollback, Send
    <3>3. CASE Put(q)
      BY <3>3, <1>1 DEF Put, IInv, TypeOK, FirmwareTypeOK, Devices
    <3>4. CASE Reboot(q)
      BY <3>4, <1>1, DownTypes DEF Reboot, IInv
    <3>5. CASE Quiet(q) \/ StepRaises(q) \/ Prepare(q) \/ Flash(q) \/ StartRollback(q)
      BY <3>5
      DEF Quiet, Register, Validate, RegisterArtifact, Authorize, Upload, Compare, Match, Ready,
          Verify, Finalise, Verified, Identify, CompleteRollback, ReturnRollback, Fail,
          FailUntold, StepRaises, Prepare, Flash, StartRollback
    <3> QED
      BY <2>2, <3>2, <3>3, <3>4, <3>5 DEF FirmwareStep, Quiet
  <2>3. ASSUME Upgrade \/ Boot \/ Rebuild
        PROVE  device'.pending \in {device.pending, None} /\ sent' = sent
    BY <2>3, <1>1, DownTypes
    DEF Upgrade, Boot, Rebuild, IInv, TypeOK, FirmwareTypeOK, Devices
  <2>4. ASSUME NEW q \in Ops, RunStep(q) \/ Acquire(q) \/ Release(q) \/ Die(q)
        PROVE  UNCHANGED <<device, sent>>
    BY <2>4
    DEF RunStep, CheckLab, Admit, Enter, Apply, Body, Restore, Check, Interrupted, Exit,
        Acquire, Release, Die
  <2>5. CASE UNCHANGED siteVars
    BY <2>5 DEF siteVars, firmwareVars
  <2> QED
    BY <1>1, <2>2, <2>3, <2>4, <2>5 DEF Next
<1> HIDE DEF Undisturbed
<1>2. IInv /\ [Next]_siteVars => [Undisturbed]_siteVars
  BY <1>1
<1>3. Spec => [][Undisturbed]_siteVars
  BY <1>2, Invariance, PTL DEF Spec
<1> QED
  BY <1>3 DEF NoMutationDuringARun, Undisturbed

-----------------------------------------------------------------------------
(* The health gate and what a killed Run has left.                          *)

Unseen == {"dns_tcp", "no_dnsmasq", "wrong_psk"}
Mended == Present(broken) \subseteq Unseen /\ associated
GateInv ==
  \A p \in Ops : at[p] \in {"admit", "admitted"} /\ health[p] = "HEALTHY" => Mended

Seen(dhcp, dns, other, disk, clock) ==
  Rollup([dhcp |-> dhcp, dns |-> dns, other |-> other, disk |-> disk, clock |-> clock])

\* A snapshot is only HEALTHY when the DHCP check saw an association and the DNS
\* check an answer.
LEMMA HealthySees ==
  ASSUME IInv, AssociationInv, NEW p \in Ops, CheckLab(p), health'[p] = "HEALTHY" PROVE Mended
<1>1. \E dhcp \in Dhcp, dns \in Dns, other \in Others, disk, clock \in DiskAndClock :
        health' = [health EXCEPT ![p] = Seen(dhcp, dns, other, disk, clock)]
  BY DEF CheckLab, Seen
<1>2. PICK dhcp \in Dhcp, dns \in Dns, other \in Others, disk, clock \in DiskAndClock :
        Seen(dhcp, dns, other, disk, clock) = "HEALTHY"
  BY <1>1 DEF IInv, TypeOK, RunTypeOK
<1>3. dhcp = "HEALTHY" /\ dns = "HEALTHY"
  BY <1>2 DEF Seen, Rollup, Components, Required, Optional
<1>4. "dns_udp" \notin Present(broken)
  BY <1>3 DEF Dns
<1>5. associated
  BY <1>3, ConnectedIsAssociated DEF Dhcp
<1>6. Present(broken) \subseteq Effects \ (Cuts \cup {"dns_udp"})
  BY <1>4, <1>5 DEF AssociationInv, Present
<1> QED
  BY <1>5, <1>6 DEF Mended, Unseen, Effects, Cuts

LEMMA NextKeepsGateInv == IInv /\ AssociationInv /\ GateInv /\ [Next]_siteVars => GateInv'
<1> SUFFICES ASSUME IInv, AssociationInv, GateInv, [Next]_siteVars PROVE GateInv'
  OBVIOUS
<1> USE DEF GateInv
<1>m. UNCHANGED lab => Mended' = Mended
  BY DEF lab, Mended, Present
<1>a. at \in [Ops -> Points] /\ health \in [Ops -> {"none", "HEALTHY", "DEGRADED", "FAILED"}]
  BY DEF IInv, TypeOK, RunTypeOK
<1>b. \A p, q \in Ops : at[p] \in RunPoints /\ at[q] \in RunPoints => p = q
  BY RunAlone DEF IInv, Placed
<1>1. CASE UNCHANGED siteVars
  BY <1>1, <1>m DEF siteVars, firmwareVars, runVars
<1>2. ASSUME NEW p \in Ops, at'[p] \notin {"admit", "admitted"}, UNCHANGED lab,
             \A q \in Ops \ {p} : at'[q] = at[q] /\ health'[q] = health[q]
      PROVE  GateInv'
  BY <1>2, <1>m
<1>3. ASSUME NEW p \in Ops, FirmwareStep(p) \/ Acquire(p), UNCHANGED runVars PROVE GateInv'
  <2>1. \E point : Goto(p, point) /\ point \notin {"admit", "admitted"}
    <3>1. Raise(p) => \E point \in {"failing", "release", "failed"} : Goto(p, point)
      BY DEF Raise
    <3>2. CASE Acquire(p)
      BY <3>2 DEF Acquire, Granted, IInv, TypeOK
    <3>3. CASE Register(p) \/ Validate(p) \/ RegisterArtifact(p) \/ Authorize(p) \/ Upload(p)
               \/ Put(p) \/ Compare(p)
      BY <3>1, <3>3 DEF Register, Validate, RegisterArtifact, Authorize, Upload, Put, Compare
    <3>4. CASE Prepare(p) \/ Match(p) \/ Flash(p) \/ Ready(p) \/ Verify(p) \/ Finalise(p)
               \/ Verified(p)
      BY <3>1, <3>4 DEF Prepare, Match, Flash, Ready, Verify, Finalise, Verified
    <3>5. CASE SendFlash(p) \/ SendRollback(p) \/ Reboot(p)
      <4>1. ASSUME NEW from, NEW image, NEW next \in {"reboot", "completed"},
                   Send(p, from, image, next)
            PROVE  Goto(p, next) \/ Raise(p)
        BY <4>1 DEF Send
      <4>2. Reboot(p) => Goto(p, "ready") \/ Raise(p)
        BY DEF Reboot
      <4> QED
        BY <3>1, <3>5, <4>1, <4>2 DEF SendFlash, SendRollback
    <3>6. CASE Identify(p) \/ StartRollback(p) \/ CompleteRollback(p) \/ ReturnRollback(p)
               \/ StepRaises(p) \/ Fail(p) \/ FailUntold(p)
      BY <3>1, <3>6 DEF Identify, StartRollback, CompleteRollback, ReturnRollback, StepRaises,
           Fail, FailUntold
    <3> QED
      BY <1>3, <3>2, <3>3, <3>4, <3>5, <3>6 DEF FirmwareStep
  <2> QED
    BY <1>2, <1>3, <1>a, <2>1 DEF runVars, lab, Goto
<1>4. ASSUME NEW p \in Ops, Release(p) \/ Die(p), Forget(p) PROVE GateInv'
  BY <1>2, <1>4, <1>a DEF Release, Die, Forget, Goto
<1>5. ASSUME NEW p \in Ops, CheckLab(p) PROVE GateInv'
  <2>1. health'[p] = "HEALTHY" => Mended
    BY <1>5, HealthySees
  <2>2. Mended' = Mended
    BY <1>5, <1>m DEF CheckLab
  <2>3. \A q \in Ops \ {p} : at'[q] = at[q] /\ health'[q] = health[q]
    BY <1>5, <1>a DEF CheckLab, Goto
  <2> QED
    BY <2>1, <2>2, <2>3
<1>6. ASSUME NEW p \in Ops, Admit(p) PROVE GateInv'
  BY <1>6, <1>a, <1>m DEF Admit, Goto, runVars
<1>7. ASSUME NEW p \in Ops,
             Enter(p) \/ Apply(p) \/ Body(p) \/ Restore(p) \/ Check(p) \/ Interrupted(p) \/ Exit(p)
      PROVE  GateInv'
  <2>1. /\ at[p] \in RunPoints /\ at'[p] \notin {"admit", "admitted"}
        /\ \A q \in Ops \ {p} : at'[q] = at[q]
    BY <1>7, <1>a
    DEF Enter, Apply, Body, Restore, AfterRestore, Check, Interrupted, Exit, Goto, Leave, RunPoints
  <2> QED
    BY <2>1, <1>b DEF RunPoints
<1>8. ASSUME Upgrade \/ Boot \/ Rebuild, UNCHANGED runVars PROVE GateInv'
  BY <1>8, <1>m DEF Upgrade, Boot, Rebuild, runVars
<1> QED
  BY <1>1, <1>3, <1>4, <1>5, <1>6, <1>7, <1>8 DEF Next, RunStep

\* A lab the gate calls HEALTHY has nothing left of a killed Run but what no check
\* looks at; nobody touches it between the snapshot and the admission.
THEOREM GateSeesResidue == Spec => []HealthyLabIsMended
<1>1. Init => GateInv
  BY DEF Init, RunInit, GateInv
<1>2. IInv /\ AssociationInv /\ GateInv /\ [Next]_siteVars => GateInv'
  BY NextKeepsGateInv
<1>3. GateInv => HealthyLabIsMended
  BY DEF GateInv, HealthyLabIsMended, Mended, Unseen
<1> QED
  BY <1>1, <1>2, <1>3, Invariance, Association, PTL DEF Spec

-----------------------------------------------------------------------------
(* What the version an update has verified says of the device.              *)

Told == {"verified", "failing", "release", "released"} \cup Ended

\* An update to another version, on a device that no other update has told to
\* flash.
FirstUpdate(p) ==
  /\ kind[p] = "update"
  /\ Version[Old] # Version[New]
  /\ \A q \in Ops \ {p} : kind[q] = "update" => sent[q] = 0

\* Until it has sent its command the device can only be rolled back to what it
\* runs; then nothing but its own command can be pending, and no longer once the
\* device runs something else.
Untouched ==
  /\ device.running = Old /\ device.installed = Old
  /\ device.pending \in {Old, None}
Settled == device.pending = None /\ device.installed = device.running
VerifiedBy(p) == at[p] \in {"final", "verified"} \/ recorded[p] = "VALIDATED_FINAL"

VersionOf(p) ==
  /\ recorded[p] = "VALIDATED_FINAL" => kind[p] = "update" /\ at[p] \in Told
  /\ FirstUpdate(p) =>
       /\ sent[p] = 0 => Untouched
       /\ lock = p => device.running = Old \/ Settled
       /\ lock = p /\ VerifiedBy(p) => Version[device.running] = Version[New]

VersionInv == \A p \in Ops : VersionOf(p)

\* A device that goes down, or comes up again, keeps what is said of it; only what
\* is pending can change what it runs.
LEMMA DeviceMoves ==
  ASSUME IInv, NEW p \in Ops, VersionOf(p), UNCHANGED <<kind, lock, sent>>,
         at'[p] = at[p], recorded'[p] = recorded[p],
         device' = device \/ device' = Down \/ Upgrade \/ Boot
  PROVE  VersionOf(p)'
<1> USE DEF IInv, Untouched, Settled, VerifiedBy
<1>1. TypeOK /\ FirstUpdate(p)' = FirstUpdate(p)
  BY DEF FirstUpdate
<1>2. /\ Untouched => Untouched'
      /\ Settled => Settled' /\ device'.running = device.running
      /\ device.running = Old => device'.running = Old \/ Settled'
      /\ device'.running # device.running => Boot
  <2>1. CASE device' = device
    BY <2>1
  <2>2. CASE device' = Down
    BY <1>1, <2>2, DownTypes
  <2>3. CASE Upgrade
    <3>1. /\ device'.installed = device.pending /\ device.pending # None
          /\ device'.pending = None /\ device'.running = device.running
      BY <1>1, <2>3, DownTypes DEF Upgrade, Devices
    <3> QED
      BY <3>1
  <2>4. CASE Boot
    <3>1. /\ device'.installed = device.installed /\ device'.running = device.installed
          /\ device'.pending = device.pending /\ device.pending = None
      BY <1>1, <2>4 DEF Boot, TypeOK, FirmwareTypeOK, Devices
    <3> QED
      BY <2>4, <3>1
  <2> QED
    BY <2>1, <2>2, <2>3, <2>4
<1>3. FirstUpdate(p) /\ device.running = Old => Version[device.running] # Version[New]
  BY DEF FirstUpdate
<1>4. FirstUpdate(p) /\ lock = p /\ VerifiedBy(p) => device'.running = device.running
  BY <1>2, <1>3 DEF VersionOf
<1> QED
  BY <1>1, <1>2, <1>4 DEF VersionOf

\* A step of the log, the digests and the lock leaves the device alone.
LEMMA VersionStays ==
  ASSUME NEW p \in Ops, VersionOf(p),
         device'.running = device.running, device'.installed = device.installed,
         device'.pending = device.pending, UNCHANGED <<kind, sent>>,
         FirstUpdate(p) /\ lock' = p => lock = p \/ Untouched,
         recorded'[p] = "VALIDATED_FINAL" => kind[p] = "update" /\ at'[p] \in Told,
         FirstUpdate(p) /\ lock' = p /\ VerifiedBy(p)' =>
           lock = p /\ (VerifiedBy(p) \/ Version[device.running] = Version[New])
  PROVE  VersionOf(p)'
<1>1. FirstUpdate(p)' = FirstUpdate(p) /\ Untouched' = Untouched /\ Settled' = Settled
  BY DEF FirstUpdate, Untouched, Settled
<1> QED
  BY <1>1 DEF VersionOf, Untouched

LEMMA OthersKeepVersion ==
  ASSUME IInv, NEW p \in Ops, VersionOf(p), NEW q \in Ops \ {p},
         at'[p] = at[p], recorded'[p] = recorded[p], UNCHANGED <<kind, sent>>,
         device'.running = device.running, device'.installed = device.installed,
         device'.pending = device.pending,
         lock' = p => lock = p
  PROVE  VersionOf(p)'
<1>1. VerifiedBy(p)' = VerifiedBy(p)
  BY DEF VerifiedBy
<1>2. recorded[p] = "VALIDATED_FINAL" => kind[p] = "update" /\ at[p] \in Told
  BY DEF VersionOf
<1> QED
  BY <1>1, <1>2, VersionStays

\* Only the holder sends.  Before its command the device runs Old, and what was
\* verified before it is somebody else's.
LEMMA SendKeepsVersion ==
  ASSUME IInv, NEW p \in Ops, VersionOf(p), NEW q \in Ops, SendFlash(q) \/ SendRollback(q)
  PROVE  VersionOf(p)'
<1> USE DEF IInv
<1>1. PICK o \in Executed(FALSE), image \in Images \cup {None},
           next \in {"reboot", "completed"} :
        /\ sent' = [sent EXCEPT ![q] = @ + o.sent]
        /\ device' = IF o.took /\ image # None
                     THEN [device EXCEPT !.pending = image] ELSE device
        /\ Goto(q, next) \/ Raise(q)
        /\ kind[q] = "rollback" => image = Old
  <2>1. SendFlash(q) => device.tmp \in Images \cup {None} /\ kind[q] = "update"
    BY DEF SendFlash, Send, Placed, TypeOK, FirmwareTypeOK, Devices, PointsOf, Ended
  <2>2. CASE SendFlash(q)
    BY <2>1, <2>2 DEF SendFlash, Send
  <2>3. CASE SendRollback(q)
    BY <2>3 DEF SendRollback, Send
  <2> QED
    BY <2>2, <2>3
<1>2. o.sent \in {0, 1} /\ o.took \in BOOLEAN /\ (o.took => o.sent = 1)
  BY Outcomes
<1>3. /\ UNCHANGED <<kind, lock, recorded>> /\ lock = q /\ sent[q] = 0
      /\ kind[q] \in {"update", "rollback"} /\ at[q] \in {"send", "rollback"}
      /\ at[q] \notin Told
  <2>1. UNCHANGED <<kind, lock, recorded>> /\ at[q] \in {"send", "rollback"}
    BY DEF SendFlash, SendRollback, Send, logVars
  <2>2. lock = q /\ sent[q] = 0 /\ at[q] \notin Told
    BY <2>1 DEF Placed, Unheld, Ended, SendsOnce, BeforeSending, Told
  <2>3. kind[q] \in {"update", "rollback"}
    BY <2>1 DEF Placed, TypeOK, PointsOf, Ended
  <2> QED
    BY <2>1, <2>2, <2>3
<1>4. /\ device'.installed = device.installed /\ device'.running = device.running
      /\ device'.pending = device.pending \/ (o.sent = 1 /\ device'.pending = image)
  BY <1>1, <1>2 DEF TypeOK, FirmwareTypeOK, Devices
<1>5. sent'[q] = o.sent /\ \A r \in Ops \ {q} : sent'[r] = sent[r]
  BY <1>1, <1>2, <1>3 DEF TypeOK, FirmwareTypeOK
<1>6. /\ \A r \in Ops \ {q} : at'[r] = at[r]
      /\ at'[q] \in {"reboot", "completed", "failing"}
  BY <1>1, <1>3 DEF TypeOK, Goto, Raise, Guarded
<1>7. CASE q = p
  <2>1. recorded[p] # "VALIDATED_FINAL"
    BY <1>3, <1>7 DEF VersionOf
  <2>2. ~VerifiedBy(p)'
    BY <1>3, <1>6, <1>7, <2>1 DEF VerifiedBy
  <2>3. FirstUpdate(p)' = FirstUpdate(p)
    BY <1>3, <1>5, <1>7 DEF FirstUpdate
  <2>4. FirstUpdate(p) => Untouched
    BY <1>3, <1>7 DEF VersionOf
  <2>5. FirstUpdate(p) /\ o.sent = 0 => Untouched'
    BY <1>4, <2>4 DEF Untouched
  <2> QED
    BY <1>2, <1>3, <1>4, <1>5, <1>7, <2>1, <2>2, <2>3, <2>4, <2>5 DEF VersionOf, Untouched
<1>8. CASE q # p
  <2>1. FirstUpdate(p)' => /\ FirstUpdate(p)
                           /\ o.sent = 1 => image = Old
    BY <1>1, <1>2, <1>3, <1>5, <1>8 DEF FirstUpdate
  <2>2. FirstUpdate(p)' /\ Untouched => Untouched'
    BY <1>4, <2>1 DEF Untouched
  <2>3. recorded[p] = "VALIDATED_FINAL" => kind[p] = "update" /\ at[p] \in Told
    BY DEF VersionOf
  <2> QED
    BY <1>3, <1>5, <1>6, <1>8, <2>1, <2>2, <2>3 DEF VersionOf
<1> QED
  BY <1>7, <1>8

\* The steps of an operation that leave the device as it is, but for its /tmp.
Local(q) == Quiet(q) \/ StepRaises(q) \/ Put(q) \/ Prepare(q) \/ Flash(q) \/ StartRollback(q)

LEMMA LocalSteps ==
  ASSUME IInv, NEW q \in Ops, Local(q)
  PROVE  /\ device'.running = device.running /\ device'.installed = device.installed
         /\ device'.pending = device.pending /\ UNCHANGED <<kind, lock, sent>>
         /\ \A r \in Ops \ {q} : at'[r] = at[r] /\ recorded'[r] = recorded[r]
<1> USE DEF IInv, TypeOK, FirmwareTypeOK, Record, logVars
<1>1. CASE Quiet(q)
  BY <1>1
  DEF Quiet, Register, Validate, RegisterArtifact, Authorize, Upload, Compare, Match, Ready,
      Verify, Finalise, Verified, Identify, CompleteRollback, ReturnRollback, Fail,
      FailUntold, Goto, Raise
<1>2. CASE StepRaises(q)
  BY <1>2 DEF StepRaises, Goto, Raise
<1>3. CASE Put(q) \/ Prepare(q) \/ Flash(q) \/ StartRollback(q)
  BY <1>3 DEF Put, Prepare, Flash, StartRollback, Goto, Raise, Devices
<1> QED
  BY <1>1, <1>2, <1>3 DEF Local

\* An update stores VALIDATED_FINAL once, after it has read the wanted version, and
\* whatever it stores later replaces it.
LEMMA LocalKeepsVersion ==
  ASSUME IInv, NEW p \in Ops, VersionOf(p), Local(p)
  PROVE  VersionOf(p)'
<1> USE DEF IInv
<1>1. /\ at \in [Ops -> Points] /\ recorded \in [Ops -> States]
      /\ at[p] \in PointsOf[kind[p]] \cup Ended /\ kind[p] \in {"update", "rollback", "run"}
      /\ at[p] \notin Unheld => lock = p
  BY DEF TypeOK, FirmwareTypeOK, Placed
<1>2. recorded[p] = "VALIDATED_FINAL" => kind[p] = "update" /\ at[p] \in Told
  BY DEF VersionOf
<1>3. /\ recorded'[p] = "VALIDATED_FINAL" => kind[p] = "update" /\ at'[p] \in Told
      /\ VerifiedBy(p)' => VerifiedBy(p) \/ Version[device.running] = Version[New]
  <2> USE <1>1, <1>2 DEF VerifiedBy, Told, Ended, Record, logVars
  <2>1. CASE Finalise(p)
    BY <2>1 DEF Finalise, Goto, PointsOf
  <2>2. CASE Verify(p)
    BY <2>2 DEF Verify, Reported, Goto, Raise, Guarded
  <2>3. CASE Verified(p) \/ Fail(p) \/ FailUntold(p)
    BY <2>3 DEF Verified, Fail, FailUntold, Goto
  <2>4. CASE StepRaises(p)
    BY <2>4 DEF StepRaises, EventFirst, Goto, Raise, Guarded, FirmwarePoints
  <2>5. CASE Register(p) \/ Validate(p) \/ RegisterArtifact(p) \/ Authorize(p) \/ Upload(p)
    BY <2>5 DEF Register, Validate, RegisterArtifact, Authorize, Upload, Goto, Raise, Guarded
  <2>6. CASE Compare(p) \/ Match(p) \/ Ready(p) \/ Identify(p)
    BY <2>6 DEF Compare, Match, Ready, Identify, Goto, Raise, Guarded
  <2>7. CASE CompleteRollback(p) \/ ReturnRollback(p)
    BY <2>7 DEF CompleteRollback, ReturnRollback, Goto
  <2>8. CASE Put(p) \/ Prepare(p) \/ Flash(p) \/ StartRollback(p)
    BY <2>8 DEF Put, Prepare, Flash, StartRollback, Goto, Raise, Guarded
  <2> QED
    BY <2>1, <2>2, <2>3, <2>4, <2>5, <2>6, <2>7, <2>8 DEF Local, Quiet
<1> QED
  BY <1>3, LocalSteps, VersionStays

LEMMA FirmwareKeepsVersion ==
  ASSUME IInv, NEW p \in Ops, VersionOf(p), NEW q \in Ops, FirmwareStep(q)
  PROVE  VersionOf(p)'
<1>1. CASE SendFlash(q) \/ SendRollback(q)
  BY <1>1, SendKeepsVersion
<1>2. CASE Reboot(q)
  <2>1. /\ UNCHANGED <<kind, lock, sent>>
        /\ device' = device \/ device' = Down
        /\ recorded'[q] = "REBOOTING" /\ at'[q] \in {"ready", "failing"}
        /\ \A r \in Ops \ {q} : at'[r] = at[r] /\ recorded'[r] = recorded[r]
    BY <1>2 DEF Reboot, Record, Goto, Raise, Guarded, IInv, TypeOK, FirmwareTypeOK
  <2>2. CASE q # p
    BY <2>1, <2>2, DeviceMoves
  <2>3. CASE q = p
    <3>1. /\ device'.running = device.running /\ device'.installed = device.installed
          /\ device'.pending \in {device.pending, None}
      BY <2>1, DownTypes DEF IInv
    <3>2. recorded'[p] # "VALIDATED_FINAL" /\ ~VerifiedBy(p)' /\ FirstUpdate(p)' = FirstUpdate(p)
      BY <2>1, <2>3 DEF VerifiedBy, FirstUpdate
    <3> QED
      BY <2>1, <3>1, <3>2 DEF VersionOf, Untouched, Settled
  <2> QED
    BY <2>2, <2>3
<1>3. CASE Local(q)
  BY <1>3, LocalSteps, LocalKeepsVersion, OthersKeepVersion
<1> QED
  BY <1>1, <1>2, <1>3 DEF FirmwareStep, Local, Quiet

\* Whoever takes the lock has sent nothing, and nothing was verified for him.
LEMMA LockKeepsVersion ==
  ASSUME IInv, NEW p \in Ops, VersionOf(p), NEW q \in Ops, Acquire(q) \/ Release(q) \/ Die(q)
  PROVE  VersionOf(p)'
<1> USE DEF IInv, Acquire, Release, Die
<1>1. /\ UNCHANGED <<kind, device, recorded, sent>>
      /\ \A r \in Ops \ {q} : at'[r] = at[r] /\ (lock' = r => lock = r)
  BY NoneAssumption DEF TypeOK, Goto, logVars
<1>2. recorded[p] = "VALIDATED_FINAL" => kind[p] = "update" /\ at[p] \in Told
  BY DEF VersionOf
<1>3. CASE q # p
  BY <1>1, <1>3, OthersKeepVersion
<1>4. CASE q = p /\ Acquire(p)
  <2>1. at[p] = "lock" /\ recorded[p] # "VALIDATED_FINAL" /\ sent[p] = 0
    BY <1>2, <1>4 DEF Told, Ended, SendsOnce, BeforeSending
  <2>2. at'[p] \in {"authorize", "start", "gate", "refused"}
    BY <1>4 DEF TypeOK, Goto, Granted
  <2>3. ~VerifiedBy(p)' /\ (FirstUpdate(p) => Untouched)
    BY <1>1, <2>1, <2>2 DEF VerifiedBy, VersionOf
  <2> QED
    BY <1>1, <2>1, <2>3, VersionStays
<1>5. CASE q = p /\ (Release(p) \/ Die(p))
  <2>1. at'[p] \in Ended /\ lock' # p
    BY <1>5, NoneAssumption DEF TypeOK, Goto, Ended
  <2> QED
    BY <1>1, <1>2, <2>1, VersionStays DEF Told
<1> QED
  BY <1>3, <1>4, <1>5

LEMMA NextKeepsVersion == IInv /\ VersionInv /\ [Next]_siteVars => VersionInv'
<1> SUFFICES ASSUME IInv, VersionInv, [Next]_siteVars, NEW p \in Ops PROVE VersionOf(p)'
  BY DEF VersionInv
<1>0. VersionOf(p)
  BY DEF VersionInv
<1>1. CASE UNCHANGED siteVars
  BY <1>0, <1>1, DeviceMoves DEF siteVars, firmwareVars, logVars
<1>2. ASSUME NEW q \in Ops, RunStep(q) PROVE VersionOf(p)'
  <2>1. /\ UNCHANGED <<kind, lock, device, recorded, sent>>
        /\ \A r \in Ops \ {q} : at'[r] = at[r]
        /\ at[q] \in RunPoints
    BY <1>2
    DEF RunStep, CheckLab, Admit, Enter, Apply, Body, Restore, AfterRestore, Check, Interrupted,
        Exit, Leave, Goto, IInv, TypeOK, RunPoints, logVars
  <2>2. CASE q # p
    BY <1>0, <2>1, <2>2, OthersKeepVersion
  <2>3. CASE q = p
    <3>1. kind[p] = "run"
      BY <2>1, <2>3, RunAlone
    <3> QED
      BY <1>0, <2>1, <3>1 DEF VersionOf, FirstUpdate
  <2> QED
    BY <2>2, <2>3
<1>3. CASE Upgrade \/ Boot \/ Rebuild
  <2>1. UNCHANGED <<kind, at, lock, recorded, sent>> /\ (Rebuild => UNCHANGED device)
    BY <1>3 DEF Upgrade, Boot, Rebuild, logVars
  <2> QED
    BY <1>0, <1>3, <2>1, DeviceMoves
<1> QED
  BY <1>0, <1>1, <1>2, <1>3, FirmwareKeepsVersion, LockKeepsVersion DEF Next

\* update stores VALIDATED_FINAL only of the version it has read, and what it has
\* read stays true: its own sysupgrade has ended when the device runs another
\* image than before, and nobody else may begin one.
THEOREM VerifiedRuns == Spec => []VerifiedVersionRuns
<1>1. Init => VersionInv
  BY DEF Init, FirmwareInit, VersionInv, VersionOf, FirstUpdate, Untouched
<1>2. IInv /\ VersionInv /\ [Next]_siteVars => VersionInv'
  BY NextKeepsVersion
<1>3. IInv /\ VersionInv => VerifiedVersionRuns
  <2> SUFFICES ASSUME IInv, VersionInv, NEW p \in Ops, lock = p,
                      recorded[p] = "VALIDATED_FINAL" \/ at[p] = "verified",
                      Version[Old] # Version[New],
                      \A q \in Ops \ {p} : kind[q] = "update" => sent[q] = 0
               PROVE  Version[device.running] = Version[New]
    BY DEF VerifiedVersionRuns
  <2>1. VersionOf(p)
    BY DEF VersionInv
  <2>2. kind[p] = "update"
    BY <2>1 DEF VersionOf, IInv, Placed, TypeOK, PointsOf, Ended
  <2> QED
    BY <2>1, <2>2 DEF VersionOf, FirstUpdate, VerifiedBy
<1> QED
  BY <1>1, <1>2, <1>3, Invariance, PTL DEF Spec
=============================================================================
