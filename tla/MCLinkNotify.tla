---------------------------- MODULE MCLinkNotify ----------------------------
(* Switches, ports and their mapping for the model checking of LinkNotify. *)
EXTENDS LinkNotify

OneSwitch   == [s \in {0} |-> 1]
TwoAndOne   == [s \in {0, 1} |-> 2 - s]
\* The ports of a switch are numbered from its last to its first.
Crossed     == [p \in Ports |-> NumPorts[p[1]] + 1 - p[2]]
=============================================================================
