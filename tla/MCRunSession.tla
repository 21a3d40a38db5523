--------------------------- MODULE MCRunSession ---------------------------
(* Small instances of RunSession: two selected tests, one or two cancel     *)
(* requests, and results that validate, warn, reject or leave undecided.    *)
EXTENDS RunSession

CONSTANTS h1, h2, t1, t2

MCProcesses == Handlers \cup {Worker, Recovery}
MCSelected == <<t1, t2>>

Shape(status, criticality) ==
  [test |-> NULL, status |-> status, criticality |-> criticality,
   evidence |-> "NOT_REQUIRED", product |-> FALSE]
MCShapes == {Shape("PASS", "BLOCKING"), Shape("FAIL", "BLOCKING"), Shape("FAIL", "ADVISORY")}
MCOneShape == {Shape("PASS", "BLOCKING"), Shape("FAIL", "ADVISORY")}
MCOneTest == <<t1>>
=============================================================================
