--------------------------- MODULE EventCalendar ---------------------------
(***************************************************************************)
(* What the event list promises its event sources: bookings are served in  *)
(* the order of their times and, at one time, in the order they were made; *)
(* cancelling takes away the earliest booking of a source and no other.    *)
(***************************************************************************)
EXTENDS Naturals

CONSTANTS
  Source,   \* who may book
  Time,     \* the times one may book
  No        \* the numbers of the bookings

VARIABLES
  time,      \* the time of the booking served last
  bookings   \* the bookings not yet served: [when, src, no]

vars == <<time, bookings>>

(* b is served before c: earlier, or as early and booked first. *)
Before(b, c) == b.when < c.when \/ (b.when = c.when /\ b.no < c.no)

First(S) == {b \in S : \A c \in S \ {b} : Before(b, c)}

Of(s) == {b \in bookings : b.src = s}

Init == time = 0 /\ bookings = {}

(* A new booking is not in the past and younger than every other one. *)
New(w, n) ==
  /\ w >= time
  /\ \A b \in bookings : b.no < n

Book(s, w, n) ==
  /\ New(w, n)
  /\ bookings' = bookings \union {[when |-> w, src |-> s, no |-> n]}
  /\ UNCHANGED time

Drop(s) ==
  /\ bookings' = bookings \ First(Of(s))
  /\ UNCHANGED time

Move(s, w, n) ==
  /\ New(w, n)
  /\ bookings' = (bookings \ First(Of(s)))
                    \union {[when |-> w, src |-> s, no |-> n]}
  /\ UNCHANGED time

Serve ==
  \E b \in First(bookings) :
    /\ time' = b.when
    /\ bookings' = bookings \ {b}

Next ==
  \/ \E s \in Source, w \in Time, n \in No : Book(s, w, n) \/ Move(s, w, n)
  \/ \E s \in Source : Drop(s)
  \/ Serve

Spec == Init /\ [][Next]_vars
=============================================================================
