----------------------------- MODULE MCSchedule -----------------------------
(***************************************************************************)
(* Schedule with days of a few minutes: every window that starts on one of *)
(* a few sets of weekdays, alone, and in pairs of two such sets.           *)
(***************************************************************************)
EXTENDS Schedule

CONSTANTS
    StartDays,             \* sets of weekdays a window may start on
    FirstDays, SecondDays  \* those of the two windows of a pair

Timed == [name : {1, 2}, startDays : StartDays, allDay : {FALSE},
          start : Minutes, end : Minutes]
AllDay == [name : {1, 2}, startDays : StartDays, allDay : {TRUE},
           start : {0}, end : {0}]
Windows == {w \in Timed : w.start # w.end} \cup AllDay

MCSchedules ==
    {{w} : w \in Windows} \cup
    {{v, w} : v \in {x \in Windows : x.name = 1 /\ x.startDays = FirstDays},
              w \in {x \in Windows : x.name = 2 /\ x.startDays = SecondDays}}
=============================================================================
