----------------------------- MODULE MCNdpFlow -----------------------------
(* Three packets of which two leave unasked: the last one needs a pull.    *)
(* The network only trims, or does one of each; one without routes back    *)
(* drops a header instead of returning it.                                 *)
EXTENDS NdpFlow

Network(t, b, d, o, l, r) ==
  [trims |-> t, bounces |-> b, drops |-> d, overtakes |-> o, losses |-> l, reverse |-> r]
MCNetworks ==
  {Network(2, 0, 0, 0, 0, TRUE), Network(2, 1, 1, 1, 1, TRUE), Network(1, 0, 1, 1, 1, FALSE)}
=============================================================================
