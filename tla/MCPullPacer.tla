---------------------------- MODULE MCPullPacer ----------------------------
(* Three flows, so that one may end between two others that take turns; a  *)
(* drain time of two, so that an event may come before or after a pull.    *)
EXTENDS PullPacer
=============================================================================
