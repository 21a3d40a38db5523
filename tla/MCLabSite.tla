----------------------------- MODULE MCLabSite -----------------------------
(* Small instances of LabSite: two operations, three images.               *)
EXTENDS LabSite, TLC

CONSTANTS o1, o2, old, new, rebuilt, v1, v2

MCVersion == (old :> v1) @@ (new :> v2) @@ (rebuilt :> v2)
Cast(a, b) == (o1 :> a) @@ (o2 :> b)
MCCasts == {Cast("update", "rollback"), Cast("update", "run"), Cast("run", "run")}
MCFaults == {wifi_link_flap, wifi_disconnect, wrong_psk, dns_block, dhcp_server_stop,
             ap_restart, client_wifi_restart}
=============================================================================
