---------------------------- MODULE EventListOps ----------------------------
(***************************************************************************)
(* The data structure of eventlist.cpp: a multimap from time to event      *)
(* source, kept as the sequence of its entries in iteration order.  An     *)
(* entry is a record with at least the fields when (its key) and src.      *)
(***************************************************************************)
EXTENDS Naturals, Sequences, SequencesExt

-----------------------------------------------------------------------------
(* Plausible faults, each used by one mutant run in place of the operator  *)
(* of the same name that follows: a lower-bound insertion and a push_back  *)
(* without order.                                                          *)
UpperBoundFault(p, w) == Cardinality({i \in DOMAIN p : p[i].when < w})
InsertFault(p, e) == Append(p, e)
-----------------------------------------------------------------------------

(* The number of entries a new entry with key w goes behind: multimap      *)
(* insertion is at the upper bound, behind every entry with an equal key.  *)
UpperBound(p, w) == Cardinality({i \in DOMAIN p : p[i].when <= w})

(* _pendingsources.insert(make_pair(e.when, e.src)) *)
Insert(p, e) == InsertAt(p, UpperBound(p, e.when) + 1, e)

(* The positions of the entries of source s. *)
EntriesOf(p, s) == {i \in DOMAIN p : p[i].src = s}

(* cancelPendingSource(s): erase the first entry of s, and only that one.  *)
Cancel(p, s) ==
  IF EntriesOf(p, s) = {} THEN p ELSE RemoveAt(p, Min(EntriesOf(p, s)))

(* The key of the first entry: the time the next event runs at. *)
NextEventTime(p) == Head(p).when
=============================================================================
