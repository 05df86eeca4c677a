----------------------------- MODULE MCMacPurge -----------------------------
(* The table, of one address, for the model checking of MacPurge.           *)
EXTENDS MacPurge

OneAddress == <<[port |-> 1, vlan |-> 1]>>
LagAndSwitch == {1, All}
=============================================================================
