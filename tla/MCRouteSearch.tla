--------------------------- MODULE MCRouteSearch ---------------------------
(* Three cities, so that there is a third one in every search, and three   *)
(* satellites, so that the heap has three levels.  The second sky takes a  *)
(* satellite from one city, gives one to the others, and exchanges a short *)
(* and a long link between satellites.  An index that was never set is 0,  *)
(* that of the last cell, or outside of the array.                         *)
EXTENDS RouteSearch

MCCities == {"S", "D", "T"}
MCSats == <<"A", "B", "C">>
MCIsls == {<<"A", "B">>, <<"B", "A">>, <<"B", "C">>, <<"C", "B">>}

Pairs == {{l[1], l[2]} : l \in MCIsls} \cup {{c, s} : c \in MCCities, s \in Range(MCSats)}

Sky(view, ab, bc) ==
  [inRange |-> view,
   delay |-> [p \in Pairs |-> CASE p = {"A", "B"} -> ab [] p = {"B", "C"} -> bc
                                [] OTHER -> IF "B" \in p THEN 3 ELSE 1]]

MCSkies ==
  {Sky([S |-> {"A", "B"}, D |-> {"B", "C"}, T |-> {"C"}], 1, 4),
   Sky([S |-> {"A"}, D |-> {"A", "B", "C"}, T |-> {"B", "C"}], 4, 1)}

MCGarbage == {0, 4, Wild}
=============================================================================
