----------------------------- MODULE EventList -----------------------------
(***************************************************************************)
(* The event list of the simulator (eventlist.cpp): every queue, pipe,     *)
(* source and timer books its next call here, and the main loop calls      *)
(* doNextEvent() until nothing is left.  A handler may book, cancel and    *)
(* rebook any source while it runs; those calls are actions of their own,  *)
(* taken at the time the last event was dispatched at, which is also when  *)
(* main() makes its own calls between two events.                          *)
(***************************************************************************)
EXTENDS EventListOps

CONSTANTS
  Source,     \* the event sources
  EndTime,    \* setEndtime(): 0 lets the simulation run for ever
  MaxTime,    \* bound: the latest time a source asks for
  MaxIssued   \* bound: the number of insertions

ASSUME EventListAssumption ==
  EndTime \in Nat /\ MaxTime \in Nat /\ MaxIssued \in Nat

VARIABLES
  lasteventtime,    \* _lasteventtime, which now() returns
  pendingsources,   \* _pendingsources, in iteration order
  issued            \* the number of insertions so far, which numbers them

vars == <<lasteventtime, pendingsources, issued>>

(* no numbers the insertions: it tells apart the entries of one source.    *)
Entry == [when : Nat, src : Source, no : Nat]

TypeOK ==
  /\ lasteventtime \in Nat
  /\ pendingsources \in Seq(Entry)
  /\ issued \in Nat

Init ==
  /\ lasteventtime = 0
  /\ pendingsources = <<>>
  /\ issued = 0

(* The body of sourceIsPending behind its assert, on the list p.  A        *)
(* booking at or after the end of the simulation is silently left out.     *)
Book(p, s, w) ==
  IF EndTime = 0 \/ w < EndTime
    THEN /\ pendingsources' = Insert(p, [when |-> w, src |-> s, no |-> issued])
         /\ issued' = issued + 1
    ELSE pendingsources' = p /\ UNCHANGED issued

(* The times a caller may pass: assert(when >= now()). *)
Bookable(w) == w >= lasteventtime /\ w <= MaxTime /\ issued < MaxIssued

SourceIsPending(s, w) ==
  /\ Bookable(w)
  /\ Book(pendingsources, s, w)
  /\ UNCHANGED lasteventtime

CancelPendingSource(s) ==
  /\ pendingsources' = Cancel(pendingsources, s)
  /\ UNCHANGED <<lasteventtime, issued>>

ReschedulePendingSource(s, w) ==
  /\ Bookable(w)
  /\ Book(Cancel(pendingsources, s), s, w)
  /\ UNCHANGED lasteventtime

DoNextEvent ==
  /\ pendingsources # <<>>
  /\ lasteventtime' = NextEventTime(pendingsources)
  /\ pendingsources' = Tail(pendingsources)
  /\ UNCHANGED issued

Next ==
  \/ \E s \in Source, w \in 0 .. MaxTime :
       SourceIsPending(s, w) \/ ReschedulePendingSource(s, w)
  \/ \E s \in Source : CancelPendingSource(s)
  \/ DoNextEvent

Spec == Init /\ [][Next]_vars

-----------------------------------------------------------------------------
(* The multimap's iteration order: by time and, at one time, by age.       *)
InOrder ==
  \A i, j \in DOMAIN pendingsources :
    i < j => LET a == pendingsources[i]
                 b == pendingsources[j]
             IN  a.when < b.when \/ (a.when = b.when /\ a.no < b.no)

(* No entry is in the past: the assert of doNextEvent(), nexteventtime >=  *)
(* _lasteventtime, holds of whatever event is dispatched next.             *)
NothingOverdue ==
  \A i \in DOMAIN pendingsources : pendingsources[i].when >= lasteventtime

(* An entry has one of the numbers issued so far. *)
Numbered ==
  \A i \in DOMAIN pendingsources : pendingsources[i].no < issued

(* Once the end time is set no event at or after it is ever dispatched.    *)
EndsInTime == EndTime # 0 => lasteventtime < EndTime

(* The event list serves its sources as the calendar promises. *)
Calendar ==
  INSTANCE EventCalendar WITH Time <- 0 .. MaxTime, No <- 0 .. MaxIssued,
                              time <- lasteventtime,
                              bookings <- ToSet(pendingsources)

ServesInOrder == Calendar!Spec
=============================================================================
