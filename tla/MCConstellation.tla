-------------------------- MODULE MCConstellation --------------------------
(* Three satellites at three distances, in range, at the edge of it and    *)
(* out of it, which move by one per update: two may leave while the third  *)
(* comes, and an update looks at two of three inactive satellites.  One    *)
(* link between satellites and room for three pairs of links of the city.  *)
EXTENDS Constellation
=============================================================================
