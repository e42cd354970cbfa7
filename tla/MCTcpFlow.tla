----------------------------- MODULE MCTcpFlow -----------------------------
(* Five packets behind the SYN, so that three of them make the duplicates  *)
(* that start fast recovery after the first one is lost, and three         *)
(* troubles, so that recovery itself meets a loss and an early timeout.    *)
EXTENDS TcpFlow
=============================================================================
