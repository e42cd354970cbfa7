----------------------------- MODULE MCIslLink -----------------------------
(* Three packets of one or two units in a buffer of two or three, so that a *)
(* packet waits, is dropped, or is in flight with another one.             *)
EXTENDS IslLink
=============================================================================
