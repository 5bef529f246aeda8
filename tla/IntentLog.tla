----------------------------- MODULE IntentLog ------------------------------
(***************************************************************************)
(* What the orchestrator promises about a cluster's journal: it is an      *)
(* intent log.  Billable or leakable resources come into being only while  *)
(* the record exists, and the record is removed only once none is left, so *)
(* that a cluster with anything at the provider is always known locally.   *)
(***************************************************************************)
VARIABLES
    record,  \* <id>.json exists
    residue  \* the provider holds something of the cluster

vars == <<record, residue>>

Init == record = FALSE /\ residue = FALSE

Open == record' = TRUE /\ UNCHANGED residue

Acquire == record /\ residue' = TRUE /\ UNCHANGED record

Dispose == residue' = FALSE /\ UNCHANGED record

Close == ~residue /\ record' = FALSE /\ UNCHANGED residue

Next == Open \/ Acquire \/ Dispose \/ Close

Spec == Init /\ [][Next]_vars
=============================================================================
