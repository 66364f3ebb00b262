----------------------------- MODULE MCRequest ------------------------------
(* A cap of two bytes and bodies around it; one status per branch of the   *)
(* classification.                                                         *)
EXTENDS Request

MCSizes == {0, 2, 3}
MCTimeouts == {0, 5}
MCStatuses == {200, 401, 404, 409, 500}
(* Every allocation may fail, or only those whose failure is looked at.    *)
MCFaultSets == {Sites, Reported}
=============================================================================
