---------------------------- MODULE MCStateStore ----------------------------
(***************************************************************************)
(* StateStore with documents whose size is their number of entries, and    *)
(* two entries: a valid one and one stamped after the clock was set back.  *)
(***************************************************************************)
EXTENDS StateStore, FiniteSets

MCSize(d) == Cardinality({k \in Keys : d[k] # Absent})

MCValues == {[firstSeen |-> 1, lastSeen |-> 2, wellFormed |-> TRUE],
             [firstSeen |-> 2, lastSeen |-> 1, wellFormed |-> TRUE]}
=============================================================================
