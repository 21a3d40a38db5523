------------------------------ MODULE Commands ------------------------------
(***************************************************************************)
(* One command on a lab node or a device: SecureCommandRunner around the   *)
(* NetmikoRunner and its ConnectionPool (lib/services/command_security.py, *)
(* lib/services/command_runner.py, lib/connector.py).                      *)
(*                                                                         *)
(* Connecting is tried three times and sending once.  Netmiko has no exit  *)
(* code: an answer means that the command was sent, not that it worked.    *)
(* Paramiko knows it, and its callers raise unless it is None or 0.        *)
(***************************************************************************)
EXTENDS Naturals

\* sent: how often the command reached the node; took: it had its effect.
Outcome == [sent : Nat, took : BOOLEAN, answer : {"ok", "error", "raised"}]

\* Mutant: a command that ended in a transport error is sent again.
Executed_Resent(audited) == [sent : {2}, took : BOOLEAN, answer : {"ok", "error"}]

\* prepare: the policy refuses the command.
Refused == [sent : {0}, took : {FALSE}, answer : {"raised"}]

\* get_connection has tried three times.
Unreached == [sent : {0}, took : {FALSE}, answer : {"error"}]

\* It was sent, and an answer came, was lost or was late.
NetmikoAnswers == [sent : {1}, took : BOOLEAN, answer : {"ok", "error"}]
ParamikoAnswers == [sent : {1}, took : BOOLEAN, answer : {"error"}]
                     \cup [sent : {1}, took : {TRUE}, answer : {"ok"}]

\* It was sent and its audit record cannot be written.
Unrecorded == [sent : {1}, took : BOOLEAN, answer : {"raised"}]

Executed(audited) ==
  Refused \cup Unreached \cup NetmikoAnswers \cup ParamikoAnswers
    \cup (IF audited THEN Unrecorded ELSE {})
=============================================================================
