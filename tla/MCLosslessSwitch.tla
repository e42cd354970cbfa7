-------------------------- MODULE MCLosslessSwitch --------------------------
(* Three ports.  One of them is hot and its neighbour may PAUSE it, or two *)
(* are hot, so that the PAUSEs of one overlap with those of the other.     *)
EXTENDS LosslessSwitch
CONSTANTS p1, p2, p3

MCPort == {p1, p2, p3}
OneHotPort == [hot |-> {p1}, slow |-> {p1}]
TwoHotPorts == [hot |-> {p1, p2}, slow |-> {}]
MCTraffics == {OneHotPort, TwoHotPorts}
=============================================================================
