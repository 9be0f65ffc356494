------------------------------ MODULE Schedule ------------------------------
(***************************************************************************)
(* Down windows (internal/schedule): which window is open at a local       *)
(* instant (Match), and which instance of it (WindowInstanceID).           *)
(*                                                                         *)
(* An instant is the local date and minute of now.In(location); dates are  *)
(* numbered, and the weekday of a date is its number modulo 7.  The clock  *)
(* of this module walks through the minutes and is once set forward or     *)
(* back, as a time zone does when daylight saving time starts or ends.     *)
(* Changes are months apart, so one of them is all an instance can meet.   *)
(***************************************************************************)
EXTENDS Windows

CONSTANTS
    Schedules,  \* compiled window lists, as sets: names are unique
    MaxDate,    \* bound: the last date of the model's clock
    Shift       \* minutes a clock change skips or repeats

Instants == [date : 0 .. MaxDate, minute : Minutes]

ASSUME ClockAssumption ==
    /\ MinutesPerDay \in Nat \ {0} /\ MaxDate \in Nat
    /\ Shift \in Nat \ {0}
ASSUME SchedulesAssumption == \A windows \in Schedules :
    /\ \A w \in windows : ValidWindow(w)
    /\ \A v, w \in windows : v.name = w.name => v = w

VARIABLES
    windows,  \* the down windows of the selected policy
    west,     \* whether the time zone is west of Greenwich
    local,    \* the local instant
    changed,  \* whether the clock was changed
    skipped   \* the local instants the change has skipped

vars == <<windows, west, local, changed, skipped>>

-----------------------------------------------------------------------------

Weekday(date) == date % 7

(* The instant n minutes after t (before it, for a negative n). *)
Later(t, n) ==
    LET m == t.date * MinutesPerDay + t.minute + n
    IN  [date |-> m \div MinutesPerDay, minute |-> m % MinutesPerDay]

(* The date of local.AddDate(0, 0, -1).  A local time that does not exist  *)
(* is read by time.Date with the offset before the change, which moves it  *)
(* forward, or west of Greenwich with the one after it, which moves it     *)
(* back.                                                                   *)
DayBefore(t) ==
    LET wall == [date |-> t.date - 1, minute |-> t.minute]
    IN  IF wall \notin skipped THEN wall.date
        ELSE Later(wall, IF west THEN -Shift ELSE Shift).date

(* Slip: the early morning of a window belongs to the day it falls on. *)
matchesToday(w, t) ==
    IF w.allDay THEN Weekday(t.date) \in w.startDays
    ELSE IF w.start < w.end
    THEN Weekday(t.date) \in w.startDays /\ w.start <= t.minute /\ t.minute < w.end
    ELSE Weekday(t.date) \in w.startDays /\ (w.start <= t.minute \/ t.minute < w.end)

matches(w, t) ==
    IF w.allDay THEN Weekday(t.date) \in w.startDays
    ELSE IF w.start < w.end
    THEN Weekday(t.date) \in w.startDays /\ w.start <= t.minute /\ t.minute < w.end
    ELSE \/ Weekday(t.date) \in w.startDays /\ w.start <= t.minute
         \/ Weekday(DayBefore(t)) \in w.startDays /\ t.minute < w.end

(* The name of the first open window in name order. *)
Match(t) ==
    LET open == {w.name : w \in {v \in windows : matches(v, t)}}
    IN  IF open = {} THEN NoWindow ELSE CHOOSE n \in open : \A m \in open : n <= m

(* Slip: the identifier has the current date, or only a weekday. *)
InstanceDateCurrent(w, t) == t.date
InstanceDateWeekday(w, t) == Weekday(t.date)

(* The date of a window's instance identifier. *)
InstanceDate(w, t) ==
    IF ~w.allDay /\ w.start >= w.end /\ t.minute < w.end THEN DayBefore(t) ELSE t.date

(* WindowInstanceID of the matched window: name and date. *)
WindowInstanceID(t) ==
    [name |-> Match(t),
     date |-> IF Match(t) = NoWindow THEN 0
              ELSE InstanceDate(CHOOSE w \in windows : w.name = Match(t), t)]

-----------------------------------------------------------------------------

Init ==
    /\ windows \in Schedules /\ west \in BOOLEAN
    /\ local = [date |-> 0, minute |-> 0]
    /\ changed = FALSE /\ skipped = {}

Move(n) ==
    /\ Later(local, n) \in Instants
    /\ local' = Later(local, n)
    /\ UNCHANGED <<windows, west>>

Advance == Move(1) /\ UNCHANGED <<changed, skipped>>

(* The minute that would come next is skipped, with those after it, *)
SkipForward ==
    /\ ~changed /\ changed' = TRUE
    /\ Move(1 + Shift)
    /\ skipped' = {Later(local, n) : n \in 1 .. Shift}

(* or minutes that have passed are repeated. *)
SetBack ==
    /\ ~changed /\ changed' = TRUE
    /\ Move(1 - Shift)
    /\ UNCHANGED skipped

Next == Advance \/ SkipForward \/ SetBack

Spec == Init /\ [][Next]_vars

TypeOK ==
    /\ windows \in Schedules /\ west \in BOOLEAN
    /\ local \in Instants
    /\ changed \in BOOLEAN

-----------------------------------------------------------------------------
(***************************************************************************)
(* What windows mean, without the code's case distinctions: the instance   *)
(* that starts on a date is one interval of instants.                      *)
(***************************************************************************)

AtOrAfter(t, date, minute) ==
    t.date > date \/ (t.date = date /\ t.minute >= minute)

Within(w, date, t) ==
    IF w.allDay THEN t.date = date
    ELSE /\ AtOrAfter(t, date, w.start)
         /\ ~AtOrAfter(t, IF w.end > w.start THEN date ELSE date + 1, w.end)

(* A day before t the clock skipped this minute, and the Shift by which    *)
(* time.Date moves it leads across midnight.                               *)
AfterSkippedMidnight(t) ==
    /\ [date |-> t.date - 1, minute |-> t.minute] \in skipped
    /\ IF west THEN t.minute < Shift ELSE t.minute >= MinutesPerDay - Shift

CrossesMidnight(w) == ~w.allDay /\ w.start >= w.end

(* Whether AddDate can lead a window that crosses midnight to a wrong day. *)
Misled(w, t) == CrossesMidnight(w) /\ AfterSkippedMidnight(t)

(* A window is open exactly within the instances that start on its         *)
(* startDays, and WindowInstanceID's date is the one start date of the     *)
(* instance the instant lies in, also after midnight and after a skipped   *)
(* hour; but not at a minute that was skipped the day before next to       *)
(* midnight, when the window crosses midnight (matches, WindowInstanceID). *)
MatchIsInstance == \A w \in windows : ~Misled(w, local) =>
    /\ matches(w, local) <=> \E date \in {local.date - 1, local.date} :
                               Weekday(date) \in w.startDays /\ Within(w, date, local)
    /\ matches(w, local) => \A date \in -1 .. MaxDate :
                               Within(w, date, local) <=> date = InstanceDate(w, local)

LessThanADay(t, u) ==
    t.date = u.date \/ (u.date = t.date + 1 /\ u.minute < t.minute)

Precedes(t, u) == AtOrAfter(u, t.date, t.minute)

(* Instances of a window follow one another in local time: an earlier      *)
(* instant never has a later instance, and two instants of one instance    *)
(* are less than a day apart, with the exception of MatchIsInstance.  Skip *)
(* state and snapshots kept per instance therefore never leak into another *)
(* day's instance (reconcileWindowCycle).                                  *)
InstancesInOrder == \A w \in windows, t \in Instants :
    /\ ~Misled(w, t) /\ ~Misled(w, local)
    /\ matches(w, t) /\ matches(w, local) /\ Precedes(t, local)
    => /\ InstanceDate(w, t) <= InstanceDate(w, local)
       /\ InstanceDate(w, t) = InstanceDate(w, local) => LessThanADay(t, local)

(* The pause between the end of a window and its next possible start. *)
Pause(w) == IF w.start < w.end THEN MinutesPerDay - (w.end - w.start)
                               ELSE w.start - w.end

(* From one minute to the next, the clock change included, the reconciler  *)
(* sees another window instance only because some window opened or closed, *)
(* or because midnight passed in an all-day window: midnight inside a      *)
(* window, a skipped hour or a repeated one start no new instance, if      *)
(* every window pauses for longer than the clock change, and with the      *)
(* exception of MatchIsInstance (WindowInstanceID).                        *)
InstanceIsStable == [][
    /\ \A w \in windows : ~w.allDay => Pause(w) > Shift
    /\ \A w \in windows : ~Misled(w, local) /\ ~Misled(w, local)'
    /\ WindowInstanceID(local)' # WindowInstanceID(local)
    => \E w \in windows :
         \/ matches(w, local)' # matches(w, local)
         \/ w.allDay /\ local'.date # local.date]_vars

(* "This ensures the same window instance (even crossing midnight) always  *)
(* produces the same ID" (instance.go): throughout an instance the date of *)
(* its identifier is the date the instance starts on.                      *)
OneIDPerInstance == \A w \in windows, date \in -1 .. MaxDate :
    Weekday(date) \in w.startDays /\ Within(w, date, local)
    => InstanceDate(w, local) = date
=============================================================================
