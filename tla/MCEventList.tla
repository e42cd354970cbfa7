---------------------------- MODULE MCEventList ----------------------------
(* Three sources, so that two can tie and a third overtake them; four      *)
(* insertions, so that an entry is made, cancelled and made again around   *)
(* the others; an end time inside the range of times asked for.            *)
EXTENDS EventList
=============================================================================
