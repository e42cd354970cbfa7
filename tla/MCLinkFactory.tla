--------------------------- MODULE MCLinkFactory ---------------------------
(* A pool of two that has to grow for the third of four links.             *)
EXTENDS LinkFactory
=============================================================================
