------------------------------ MODULE Windows ------------------------------
(***************************************************************************)
(* Down windows as the policy compiler hands them to the schedule          *)
(* (internal/schedule/window.go, validate.go).  HH:MM strings are the      *)
(* minutes parseMinute returns; window names are numbers in the order      *)
(* sort.Strings gives them, the empty name is 0.                           *)
(***************************************************************************)
EXTENDS Integers

CONSTANTS MinutesPerDay  \* 24 * 60 in the code

NoWindow == 0
Days == 0 .. 6
Minutes == 0 .. MinutesPerDay - 1

(* What Window.matches needs to return without an error. *)
ValidWindow(w) ==
    /\ w.name \in Nat \ {NoWindow}
    /\ w.startDays \subseteq Days /\ w.startDays # {}
    /\ w.allDay \in BOOLEAN
    /\ ~w.allDay => w.start \in Minutes /\ w.end \in Minutes /\ w.start # w.end
=============================================================================
