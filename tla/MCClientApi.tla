----------------------------- MODULE MCClientApi ------------------------------
(* Every public call that sends a request; every allocation may fail, or   *)
(* all but the one that the first constructor does not clean up after.     *)
EXTENDS ClientApi

MCFaultSets == {Sites, Sites \ {"base_url"}}

NoFaults == {{}}
=============================================================================
