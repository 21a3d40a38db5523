---------------------------- MODULE FaultContext ----------------------------
(***************************************************************************)
(* A Run that looks at the health of the lab before its tests              *)
(* (lib/services/lab_health_service.py) and has one test with a fault      *)
(* (lib/services/fault_service.py).                                        *)
(*                                                                         *)
(* What is wrong with the lab are the effects that fault commands left     *)
(* there, each with how often it is there, and whether the Wi-Fi client is *)
(* associated.  Runs that die leave both to the next Run.                  *)
(***************************************************************************)
EXTENDS FirmwareOperation, Sequences

CONSTANTS FaultSet  \* the faults the tests inject

VARIABLES broken,   \* how often each effect is there: rules are stacked
          associated,  \* the Wi-Fi client is associated with the access point
          fault,    \* the fault of each Run
          step,     \* the command of apply or restore it is at
          unrestored,  \* the exception that leaves the context tells of the restoration
          health    \* status of its health snapshot

lab == <<broken, associated>>
runVars == <<lab, fault, step, unrestored, health>>

Effects == {"link_down", "disabled", "disconnected", "wrong_psk", "dns_udp", "dns_tcp",
            "no_dnsmasq", "no_hostapd", "no_supplicant"}

\* The rules of iptables: -I adds one more, -D takes one away.
Rules == {"dns_udp", "dns_tcp"}

\* What cuts an association and keeps the client from another.  A wrong PSK
\* is no such thing: set_network changes only the configuration, and the
\* client stays associated until something else cuts it.
Cuts == {"link_down", "disabled", "disconnected", "no_hostapd", "no_supplicant"}

Present(b) == {e \in Effects : b[e] > 0}

-----------------------------------------------------------------------------
(* The faults: what each command adds to and clears from the lab.           *)

Does(add, clear) == [add |-> add, clear |-> clear]
Breaks(e) == Does({e}, {})
Mends(e) == Does({}, {e})

\* The supplicant's next process reads the configuration from its file again.
KillsSupplicant == Does({"no_supplicant"}, {"disabled", "disconnected", "wrong_psk"})

wifi_link_flap ==
  [apply |-> <<Breaks("link_down")>>, restore |-> <<Mends("link_down"), Does({}, {})>>,
   checks |-> {}, association |-> TRUE]
wifi_disconnect ==
  [apply |-> <<Breaks("disabled"), Breaks("disconnected")>>,
   restore |-> <<Mends("disabled"), Mends("disconnected")>>,
   checks |-> {}, association |-> TRUE]
wrong_psk ==
  [apply |-> <<Breaks("disconnected"), Breaks("wrong_psk"), Mends("disabled"),
               Mends("disconnected")>>,
   restore |-> <<Mends("wrong_psk"), Mends("disabled"), Mends("disconnected")>>,
   checks |-> {}, association |-> TRUE]
dns_block ==
  [apply |-> <<Breaks("dns_udp"), Breaks("dns_tcp")>>,
   restore |-> <<Mends("dns_udp"), Mends("dns_tcp")>>,
   checks |-> {}, association |-> FALSE]
dhcp_server_stop ==
  [apply |-> <<Breaks("no_dnsmasq")>>, restore |-> <<Mends("no_dnsmasq")>>,
   checks |-> {"no_dnsmasq"}, association |-> FALSE]
ap_restart ==
  [apply |-> <<Breaks("no_hostapd")>>,
   restore |-> <<Breaks("no_hostapd"), Does({}, {}), Mends("no_hostapd")>>,
   checks |-> {"no_hostapd"}, association |-> FALSE]
client_wifi_restart ==
  [apply |-> <<KillsSupplicant>>,
   restore |-> <<KillsSupplicant, Breaks("link_down"), Mends("link_down"),
                 Mends("no_supplicant"), Mends("disconnected")>>,
   checks |-> {"no_supplicant"}, association |-> TRUE]

ASSUME FaultSetAssumption ==
  FaultSet \subseteq {wifi_link_flap, wifi_disconnect, wrong_psk, dns_block,
                      dhcp_server_stop, ap_restart, client_wifi_restart}

-----------------------------------------------------------------------------
(* What the client says of its association.                                 *)

\* wpa_cli status and iw link; some transports leave wpa_state out.
Views ==
  [wpa_state : IF "no_supplicant" \in Present(broken) THEN {None}
               ELSE IF associated THEN {"COMPLETED", None} ELSE {"SCANNING", None},
   linked : {associated},
   ccmp : {associated}]

\* Mutant: wpa_state decides alone when it is there, and its absence is taken
\* for an association.
Connected_Control(v) == v.wpa_state \in {"COMPLETED", None}

\* assess_wifi_association, require_wpa2, for a client that knows one SSID.
Connected(v) ==
  /\ IF v.wpa_state # None THEN v.wpa_state = "COMPLETED" ELSE v.linked
  /\ v.linked /\ v.ccmp

-----------------------------------------------------------------------------
(* The health gate.                                                         *)

Required == {"dhcp", "dns", "other"}  \* other: GNS3, Docker, libvirt, SSH, PHYs, iperf3
Optional == {"disk", "clock"}
Components == Required \cup Optional

\* _rollup.
Rollup(obs) ==
  IF \E c \in Required : obs[c] = "FAILED" THEN "FAILED"
  ELSE IF \E c \in Components : obs[c] # "HEALTHY" THEN "DEGRADED"
  ELSE "HEALTHY"

\* What a check may say: it is UNKNOWN when it raises, and FAILED also when
\* only its command has failed.
Dhcp == {"FAILED", "UNKNOWN"} \cup {"HEALTHY" : v \in {v \in Views : Connected(v)}}
Dns == {"FAILED", "UNKNOWN"} \cup (IF "dns_udp" \in Present(broken) THEN {} ELSE {"HEALTHY"})
Others == {"FAILED", "UNKNOWN", "HEALTHY"}
DiskAndClock == {"DEGRADED", "UNKNOWN", "HEALTHY"}

\* LAB_HEALTH_STARTED, fourteen checks, the snapshot.
CheckLab(p) ==
  /\ at[p] = "gate"
  /\ \E dhcp \in Dhcp, dns \in Dns, other \in Others, disk \in DiskAndClock, clock \in DiskAndClock :
       health' = [health EXCEPT ![p] =
                    Rollup([dhcp |-> dhcp, dns |-> dns, other |-> other, disk |-> disk,
                            clock |-> clock])]
  /\ Goto(p, "admit")
  /\ UNCHANGED <<kind, lock, device, fileVars, digest, logVars, sent,
                 lab, fault, step, unrestored>>

\* FAILED blocks the Run; everything else is only recorded.
Admit(p) ==
  /\ at[p] = "admit"
  /\ IF health[p] = "FAILED" THEN Goto(p, "release") ELSE Goto(p, "admitted")
  /\ UNCHANGED <<kind, lock, device, fileVars, digest, logVars, sent, runVars>>

-----------------------------------------------------------------------------
(* FaultService.context.                                                    *)

Enter(p) ==
  /\ at[p] = "admitted"
  /\ \E f \in FaultSet : fault' = [fault EXCEPT ![p] = f]
  /\ step' = [step EXCEPT ![p] = 1]
  /\ Goto(p, "apply")
  /\ UNCHANGED <<kind, lock, device, fileVars, digest, logVars, sent,
                 lab, unrestored, health>>

\* How often an effect that was there n times is there after the command.
After(command, e, n) ==
  CASE e \in command.add -> IF e \in Rules THEN n + 1 ELSE 1
    [] e \notin command.add /\ e \in command.clear -> IF e \in Rules /\ n > 0 THEN n - 1 ELSE 0
    [] OTHER -> n

\* The client associates by itself when nothing keeps it from that; with a
\* wrong PSK it can only stay associated.
Did(command, o) ==
  /\ broken' = IF o.took THEN [e \in Effects |-> After(command, e, broken[e])] ELSE broken
  /\ associated' = /\ Present(broken') \cap Cuts = {}
                   /\ "wrong_psk" \in Present(broken') => associated

Leave(p) == Goto(p, "restore") /\ step' = [step EXCEPT ![p] = 1]

\* _execute stops at the first command that fails.
Apply(p) ==
  /\ at[p] = "apply"
  /\ \E o \in Executed(TRUE) :
       /\ Did(fault[p].apply[step[p]], o)
       /\ CASE o.answer # "ok" -> Leave(p)
            [] o.answer = "ok" /\ step[p] < Len(fault[p].apply) ->
                 step' = [step EXCEPT ![p] = @ + 1] /\ UNCHANGED at
            [] OTHER -> Goto(p, "body") /\ UNCHANGED step
  /\ UNCHANGED <<kind, lock, device, fileVars, digest, logVars, sent,
                 fault, unrestored, health>>

\* The test passes or raises: either way the lab is restored.
Body(p) ==
  /\ at[p] = "body"
  /\ Leave(p)
  /\ UNCHANGED <<kind, lock, device, fileVars, digest, logVars, sent,
                 lab, fault, unrestored, health>>

\* Mutant: the error of a restore command ends the restoration, and a
\* restoration without one is believed.
AfterRestore_Trusting(p, ok) == IF ok THEN "exit" ELSE "check"

\* All commands are run, whatever becomes of them, and then the checks.
AfterRestore(p, ok) == "check"

Restore(p) ==
  /\ at[p] = "restore"
  /\ \E o \in Executed(TRUE) :
       /\ Did(fault[p].restore[step[p]], o)
       /\ unrestored' = [unrestored EXCEPT ![p] = @ \/ o.answer # "ok"]
       /\ IF step[p] < Len(fault[p].restore)
          THEN step' = [step EXCEPT ![p] = @ + 1] /\ UNCHANGED at
          ELSE Goto(p, AfterRestore(p, ~unrestored'[p])) /\ UNCHANGED step
  /\ UNCHANGED <<kind, lock, device, fileVars, digest, logVars, sent, fault, health>>

\* restore_checks and the association: repeated, and believed once they hold.
Holds(f) ==
  /\ f.checks \cap Present(broken) = {}
  /\ f.association => \E v \in Views : Connected(v)

Check(p) ==
  /\ at[p] = "check"
  /\ \/ Holds(fault[p]) /\ UNCHANGED unrestored
     \/ unrestored' = [unrestored EXCEPT ![p] = TRUE]
  /\ Goto(p, "exit")
  /\ UNCHANGED <<kind, lock, device, fileVars, digest, logVars, sent,
                 lab, fault, step, health>>

\* KeyboardInterrupt is not an Exception: it ends also the restoration.
Interrupted(p) ==
  /\ at[p] \in {"restore", "check"}
  /\ unrestored' = [unrestored EXCEPT ![p] = TRUE]
  /\ Goto(p, "exit")
  /\ UNCHANGED <<kind, lock, device, fileVars, digest, logVars, sent,
                 lab, fault, step, health>>

Exit(p) ==
  /\ at[p] = "exit"
  /\ Goto(p, "released")
  /\ UNCHANGED <<kind, lock, device, fileVars, digest, logVars, sent, runVars>>

RunInit ==
  /\ broken = [e \in Effects |-> 0]
  /\ associated = TRUE
  /\ fault = [p \in Ops |-> None]
  /\ step = [p \in Ops |-> 0]
  /\ unrestored = [p \in Ops |-> FALSE]
  /\ health = [p \in Ops |-> "none"]

\* The process is gone, or done with its test.
Forget(p) ==
  /\ fault' = [fault EXCEPT ![p] = None]
  /\ step' = [step EXCEPT ![p] = 0]
  /\ unrestored' = [unrestored EXCEPT ![p] = FALSE]
  /\ health' = [health EXCEPT ![p] = "none"]
  /\ UNCHANGED lab

RunStep(p) ==
  \/ CheckLab(p) \/ Admit(p) \/ Enter(p) \/ Apply(p) \/ Body(p) \/ Restore(p) \/ Check(p)
  \/ Interrupted(p) \/ Exit(p)
RunTypeOK ==
  /\ broken \in [Effects -> Nat]
  /\ associated \in BOOLEAN
  /\ fault \in [Ops -> FaultSet \cup {None}]
  /\ step \in [Ops -> 0..5]
  /\ unrestored \in [Ops -> BOOLEAN]
  /\ health \in [Ops -> {"none", "HEALTHY", "DEGRADED", "FAILED"}]
=============================================================================
