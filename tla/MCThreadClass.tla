---------------------------- MODULE MCThreadClass ----------------------------
(* Two Thread objects, for TLC. *)
EXTENDS ThreadClass, TLC

CONSTANTS t1, t2, main

MCObjs    == {t1, t2}
MCActors  == {t1, t2, main}
MainOnly  == {main}
NoFaults  == {}
AllFaults == FaultKinds
=============================================================================
