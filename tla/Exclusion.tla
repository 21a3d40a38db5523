----------------------------- MODULE Exclusion -----------------------------
(***************************************************************************)
(* What the resource locks promise the operations they guard: an operation *)
(* is admitted to all the resources it needs at once, and never while one  *)
(* that needs a resource of it is admitted.                                *)
(***************************************************************************)
CONSTANTS Owners, Needs   \* Needs[a]: the resources operation a works on

VARIABLE admitted

Conflict(a, b) == a # b /\ Needs[a] \cap Needs[b] # {}

Init == admitted = {}

Admit(a) ==
  /\ \A b \in admitted : ~Conflict(a, b)
  /\ admitted' = admitted \cup {a}

Dismiss(a) == admitted' = admitted \ {a}

Next == \E a \in Owners : Admit(a) \/ Dismiss(a)

Spec == Init /\ [][Next]_admitted
=============================================================================
