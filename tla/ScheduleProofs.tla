--------------------------- MODULE ScheduleProofs ---------------------------
(***************************************************************************)
(* Proofs about Schedule, for days of any length and all schedules.        *)
(***************************************************************************)
EXTENDS Schedule, WellFoundedInduction, TLAPS

(* The clock stays within its dates and minutes. *)
LEMMA TypeCorrect == Spec => []TypeOK
<1>1. Init => TypeOK
  <2>1. [date |-> 0, minute |-> 0] \in Instants
    BY ClockAssumption DEF Instants, Minutes
  <2> QED BY <2>1 DEF Init, TypeOK
<1>2. TypeOK /\ [Next]_vars => TypeOK'
  BY ClockAssumption DEF TypeOK, Next, Advance, SkipForward, SetBack, Move, vars
<1> QED BY <1>1, <1>2, PTL DEF Spec

(* An instant as numbers, and the four shapes of a window. *)
LEMMA Numbers ==
    ASSUME NEW t \in Instants
    PROVE  /\ t.date \in Int /\ t.minute \in Int
           /\ 0 <= t.date /\ t.date <= MaxDate
           /\ 0 <= t.minute /\ t.minute < MinutesPerDay
  BY ClockAssumption DEF Instants, Minutes

(* A valid window as numbers. *)
LEMMA WindowNumbers ==
    ASSUME NEW w, ValidWindow(w)
    PROVE  /\ w.allDay \in BOOLEAN
           /\ ~w.allDay => /\ w.start \in Int /\ w.end \in Int /\ w.start # w.end
                           /\ 0 <= w.start /\ w.start < MinutesPerDay
                           /\ 0 <= w.end /\ w.end < MinutesPerDay
  BY ClockAssumption DEF ValidWindow, Minutes

-----------------------------------------------------------------------------
(***************************************************************************)
(* Where AddDate does not lead to a wrong day, matches and InstanceDate    *)
(* take the day before as the previous date.                               *)
(***************************************************************************)

PlainMatches(w, t) ==
    IF w.allDay THEN Weekday(t.date) \in w.startDays
    ELSE IF w.start < w.end
    THEN Weekday(t.date) \in w.startDays /\ w.start <= t.minute /\ t.minute < w.end
    ELSE \/ Weekday(t.date) \in w.startDays /\ w.start <= t.minute
         \/ Weekday(t.date - 1) \in w.startDays /\ t.minute < w.end

PlainDate(w, t) ==
    IF ~w.allDay /\ w.start >= w.end /\ t.minute < w.end THEN t.date - 1 ELSE t.date

Plain == \A w : \A t \in Instants : ValidWindow(w) /\ ~Misled(w, t) =>
    /\ matches(w, t) <=> PlainMatches(w, t)
    /\ InstanceDate(w, t) = PlainDate(w, t)

(* A number of minutes within a date belongs to that date. *)
LEMMA DateOf ==
    ASSUME NEW d \in Int, NEW x \in Int, NEW M \in Int, 0 < M, 0 <= x, x < M
    PROVE  (d * M + x) \div M = d
<1> DEFINE m == d * M + x
           q == m \div M
           r == m % M
<1>1. d * M \in Int /\ m \in Int
  OBVIOUS
<1>2. q \in Int /\ r \in Int /\ 0 <= r /\ r < M /\ m = q * M + r
  BY <1>1
<1> HIDE DEF q, r
<1> DEFINE step == q - d
<1>3. step \in Int /\ q * M \in Int /\ step * M = q * M - d * M
  BY <1>1, <1>2
<1> HIDE DEF step
<1>4. step * M = x - r
  BY <1>1, <1>2, <1>3
<1>5. /\ step >= 1 => step * M >= M
      /\ step <= -1 => step * M <= -M
  BY <1>3
<1>6. step = 0
  BY <1>2, <1>3, <1>4, <1>5
<1>7. q = d
  BY <1>2, <1>6 DEF step
<1> QED BY <1>7 DEF q

(* A shift that stays clear of midnight leaves the date alone. *)
LEMMA DayBeforeDate ==
    ASSUME NEW t \in Instants, ~AfterSkippedMidnight(t)
    PROVE  DayBefore(t) = t.date - 1
<1> DEFINE wall == [date |-> t.date - 1, minute |-> t.minute]
           n == IF west THEN -Shift ELSE Shift
<1>1. CASE wall \notin skipped
  BY <1>1 DEF DayBefore
<1>2. CASE wall \in skipped
  <2>1. IF west THEN Shift <= t.minute ELSE t.minute < MinutesPerDay - Shift
    BY <1>2, Numbers, ClockAssumption DEF AfterSkippedMidnight
  <2>2. n \in Int /\ 0 <= t.minute + n /\ t.minute + n < MinutesPerDay
    BY <2>1, Numbers, ClockAssumption
  <2> HIDE DEF n
  <2> DEFINE d == t.date - 1
             x == t.minute + n
  <2>3. d \in Int /\ x \in Int /\ t.minute \in Int
    BY <2>2, Numbers
  <2>4. d * MinutesPerDay \in Int /\ MinutesPerDay \in Int /\ 0 < MinutesPerDay
    BY <2>3, ClockAssumption
  <2>5. d * MinutesPerDay + t.minute + n = d * MinutesPerDay + x
    BY <2>2, <2>3, <2>4
  <2>6. Later(wall, n).date = (d * MinutesPerDay + t.minute + n) \div MinutesPerDay
    BY DEF Later
  <2>7. 0 <= x /\ x < MinutesPerDay
    BY <2>2
  <2> HIDE DEF d, x
  <2>8. (d * MinutesPerDay + x) \div MinutesPerDay = d
    BY <2>3, <2>4, <2>7, DateOf
  <2>9. Later(wall, n).date = d
    BY <2>5, <2>6, <2>8
  <2> QED BY <1>2, <2>9 DEF DayBefore, n, d
<1> QED BY <1>1, <1>2

(* Away from a skipped midnight the code's day before is the previous date. *)
LEMMA PlainHolds == Plain
<1> SUFFICES ASSUME NEW w, NEW t \in Instants, ValidWindow(w), ~Misled(w, t)
             PROVE  /\ matches(w, t) <=> PlainMatches(w, t)
                    /\ InstanceDate(w, t) = PlainDate(w, t)
  BY DEF Plain
<1>1. CASE CrossesMidnight(w)
  <2>1. DayBefore(t) = t.date - 1
    BY <1>1, DayBeforeDate DEF Misled
  <2> QED BY <2>1 DEF matches, PlainMatches, InstanceDate, PlainDate
<1>2. CASE ~CrossesMidnight(w)
  <2>1. w.allDay \/ (w.start < w.end /\ ~(w.start >= w.end))
    BY <1>2, WindowNumbers DEF CrossesMidnight
  <2> QED BY <2>1 DEF matches, PlainMatches, InstanceDate, PlainDate
<1> QED BY <1>1, <1>2

-----------------------------------------------------------------------------

(* The start date of an instance is the only one the instant lies within. *)
LEMMA OneInstance ==
    ASSUME NEW w, ValidWindow(w), NEW t \in Instants, NEW date \in Int,
           PlainMatches(w, t)
    PROVE  Within(w, date, t) <=> date = PlainDate(w, t)
  BY Numbers, WindowNumbers
     DEF PlainMatches, Within, AtOrAfter, PlainDate

(* Match agrees with the intervals. *)
LEMMA OpenMeansWithin ==
    ASSUME NEW w, ValidWindow(w), NEW t \in Instants
    PROVE  PlainMatches(w, t) <=> \E date \in {t.date - 1, t.date} :
                               Weekday(date) \in w.startDays /\ Within(w, date, t)
<1>1. \A date \in {t.date - 1, t.date} :
        Within(w, date, t) <=>
          IF w.allDay THEN date = t.date
          ELSE IF w.start < w.end
          THEN date = t.date /\ w.start <= t.minute /\ t.minute < w.end
          ELSE \/ date = t.date /\ w.start <= t.minute
               \/ date = t.date - 1 /\ t.minute < w.end
  BY Numbers, WindowNumbers DEF Within, AtOrAfter
<1>2. t.date - 1 # t.date
  BY Numbers
<1> QED BY <1>1, <1>2, WindowNumbers DEF PlainMatches

(* Instances follow one another, each shorter than a day. *)
LEMMA InOrder ==
    ASSUME NEW w, ValidWindow(w), NEW t \in Instants, NEW u \in Instants,
           PlainMatches(w, t), PlainMatches(w, u), Precedes(t, u)
    PROVE  /\ PlainDate(w, t) <= PlainDate(w, u)
           /\ PlainDate(w, t) = PlainDate(w, u) => LessThanADay(t, u)
  BY Numbers, WindowNumbers
     DEF PlainMatches, PlainDate, Precedes, AtOrAfter, LessThanADay

(* Match and WindowInstanceID agree with the meaning of windows as         *)
(* intervals, for every schedule that passes validation, at every instant  *)
(* but the minutes that were skipped the day before next to midnight.      *)
THEOREM MatchesInstances == Spec => []MatchIsInstance
<1>1. TypeOK => MatchIsInstance
  <2> SUFFICES ASSUME TypeOK, NEW w \in windows, ~Misled(w, local)
               PROVE  /\ matches(w, local) <=> \E date \in {local.date - 1, local.date} :
                           Weekday(date) \in w.startDays /\ Within(w, date, local)
                      /\ matches(w, local) => \A date \in -1 .. MaxDate :
                           Within(w, date, local) <=> date = InstanceDate(w, local)
    BY DEF MatchIsInstance
  <2>1. ValidWindow(w) /\ local \in Instants
    BY SchedulesAssumption DEF TypeOK
  <2>2. -1 .. MaxDate \subseteq Int
    BY ClockAssumption
  <2>3. /\ matches(w, local) <=> PlainMatches(w, local)
        /\ InstanceDate(w, local) = PlainDate(w, local)
    BY <2>1, PlainHolds DEF Plain
  <2> QED BY <2>1, <2>2, <2>3, OneInstance, OpenMeansWithin
<1> QED BY <1>1, TypeCorrect, PTL

(* State kept per window instance belongs to one instance only: instances  *)
(* are ordered in time and shorter than a day, with the same exception     *)
(* (WindowInstanceID).  With a maxAge of a day or more, no revision first  *)
(* seen in an instance expires within it.                                  *)
THEOREM OrderedInstances == Spec => []InstancesInOrder
<1>1. TypeOK => InstancesInOrder
  <2> SUFFICES ASSUME TypeOK, NEW w \in windows, NEW t \in Instants,
                      ~Misled(w, t), ~Misled(w, local),
                      matches(w, t), matches(w, local), Precedes(t, local)
               PROVE  /\ InstanceDate(w, t) <= InstanceDate(w, local)
                      /\ InstanceDate(w, t) = InstanceDate(w, local)
                         => LessThanADay(t, local)
    BY DEF InstancesInOrder
  <2>1. ValidWindow(w) /\ local \in Instants
    BY SchedulesAssumption DEF TypeOK
  <2>2. /\ PlainMatches(w, t) /\ InstanceDate(w, t) = PlainDate(w, t)
        /\ PlainMatches(w, local) /\ InstanceDate(w, local) = PlainDate(w, local)
    BY <2>1, PlainHolds DEF Plain
  <2> QED BY <2>1, <2>2, InOrder
<1> QED BY <1>1, TypeCorrect, PTL

(* Between two instants of an instance its window is open in that instance. *)
LEMMA PlainStretch ==
    ASSUME NEW w, ValidWindow(w),
           NEW t \in Instants, NEW u \in Instants, NEW v \in Instants,
           Precedes(t, u), Precedes(u, v), PlainMatches(w, t), PlainMatches(w, v),
           PlainDate(w, t) = PlainDate(w, v)
    PROVE  PlainMatches(w, u) /\ PlainDate(w, u) = PlainDate(w, t)
<1>1. /\ t.date \in Int /\ t.minute \in Int /\ u.date \in Int /\ u.minute \in Int
      /\ v.date \in Int /\ v.minute \in Int
      /\ 0 <= t.minute /\ t.minute < MinutesPerDay
      /\ 0 <= u.minute /\ u.minute < MinutesPerDay
      /\ 0 <= v.minute /\ v.minute < MinutesPerDay
  BY Numbers
<1>2. CASE w.allDay
  <2>1. u.date = t.date
    BY <1>1, <1>2 DEF PlainDate, Precedes, AtOrAfter
  <2> QED BY <1>2, <2>1 DEF PlainMatches, PlainDate
<1>3. CASE ~w.allDay /\ w.start < w.end
  <2>1. w.start \in Int /\ w.end \in Int
    BY <1>3, WindowNumbers
  <2>2. u.date = t.date /\ t.minute <= u.minute /\ u.minute <= v.minute
    BY <1>1, <1>3, <2>1 DEF PlainDate, Precedes, AtOrAfter
  <2> QED BY <1>1, <1>3, <2>1, <2>2 DEF PlainMatches, PlainDate
<1>4. CASE ~w.allDay /\ ~(w.start < w.end)
  <2>1. w.start \in Int /\ w.end \in Int /\ w.end < w.start
    BY <1>4, WindowNumbers
  <2> USE <1>1, <1>4, <2>1 DEF Precedes, AtOrAfter, PlainMatches, PlainDate
  <2>2. CASE t.minute < w.end
    <3>1. u.date = t.date /\ u.minute < w.end
      BY <2>2
    <3> QED BY <2>2, <3>1
  <2>3. CASE ~(t.minute < w.end)
    <3>1. Weekday(t.date) \in w.startDays /\ w.start <= t.minute
      BY <2>3
    <3>2. \/ u.date = t.date /\ w.start <= u.minute
          \/ u.date = t.date + 1 /\ u.minute < w.end
      BY <2>3, <3>1
    <3>3. t.date + 1 - 1 = t.date
      OBVIOUS
    <3> QED BY <2>3, <3>1, <3>2, <3>3
  <2> QED BY <2>2, <2>3
<1> QED BY <1>2, <1>3, <1>4

(* An instance is one stretch of local time: between two of its instants   *)
(* its window is open all the time, in that instance, unless one of the    *)
(* three instants was skipped the day before next to midnight.  Where one  *)
(* window at a time is open and no hour is repeated, this is the condition *)
(* under which exemptions hold (Window.matches, WindowInstanceID,          *)
(* reconcileWindowCycle).                                                  *)
THEOREM InstanceIsOneStretch ==
    ASSUME NEW w, ValidWindow(w),
           NEW t \in Instants, NEW u \in Instants, NEW v \in Instants,
           Precedes(t, u), Precedes(u, v), matches(w, t), matches(w, v),
           InstanceDate(w, t) = InstanceDate(w, v),
           ~Misled(w, t), ~Misled(w, u), ~Misled(w, v)
    PROVE  matches(w, u) /\ InstanceDate(w, u) = InstanceDate(w, t)
<1>1. /\ PlainMatches(w, t) /\ InstanceDate(w, t) = PlainDate(w, t)
      /\ PlainMatches(w, v) /\ InstanceDate(w, v) = PlainDate(w, v)
      /\ matches(w, u) <=> PlainMatches(w, u)
      /\ InstanceDate(w, u) = PlainDate(w, u)
  BY PlainHolds DEF Plain
<1> QED BY <1>1, PlainStretch

-----------------------------------------------------------------------------
(***************************************************************************)
(* Stability of the instance from one minute to the next.                  *)
(***************************************************************************)

(* A set of natural numbers has a least element. *)
LEMMA LeastNumber ==
    ASSUME NEW S \in SUBSET Nat, S # {}
    PROVE  \E n \in S : \A m \in S : n <= m
<1> DEFINE R == {ss \in Nat \X Nat : ss[1] < ss[2]}
<1>1. IsWellFoundedOn(R, Nat)
  BY NatLessThanWellFounded DEF OpToRel
<1> HIDE DEF R
<1>2. PICK n \in S : \A m \in S : ~(<<m, n>> \in R)
  BY <1>1, WFMin
<1>3. \A m \in S : ~(m < n)
  BY <1>2 DEF R
<1> QED BY <1>3

(* Moving the clock by less than a day changes the date by at most one. *)
LEMMA LaterNumbers ==
    ASSUME NEW t \in Instants, NEW n \in Int, -MinutesPerDay < n, n < MinutesPerDay,
           Later(t, n) \in Instants
    PROVE  LET u == Later(t, n)
           IN  \/ u.date = t.date /\ u.minute = t.minute + n
               \/ u.date = t.date + 1 /\ u.minute = t.minute + n - MinutesPerDay
               \/ u.date = t.date - 1 /\ u.minute = t.minute + n + MinutesPerDay
<1> DEFINE M == MinutesPerDay
           u == Later(t, n)
<1>1. /\ M \in Int /\ 0 < M /\ t.date \in Int /\ t.minute \in Int
      /\ u.date \in Int /\ u.minute \in Int
      /\ 0 <= t.minute /\ t.minute < M /\ 0 <= u.minute /\ u.minute < M
  BY Numbers, ClockAssumption
<1>2. \A m \in Int : m = (m \div M) * M + (m % M)
  BY <1>1
<1>3. u.date * M + u.minute = t.date * M + t.minute + n
  <2> DEFINE m == t.date * M + t.minute + n
  <2>1. m \in Int
    BY <1>1
  <2>2. u.date = m \div M /\ u.minute = m % M
    BY DEF Later
  <2> HIDE DEF m, u, M
  <2>3. m = (m \div M) * M + (m % M)
    BY <1>2, <2>1
  <2> QED BY <2>2, <2>3 DEF m
<1> DEFINE a == u.date
           b == t.date
           x == u.minute
           y == t.minute
<1>4. /\ a \in Int /\ b \in Int /\ x \in Int /\ y \in Int /\ M \in Int
      /\ 0 < M /\ 0 <= x /\ x < M /\ 0 <= y /\ y < M /\ -M < n /\ n < M
      /\ a * M + x = b * M + y + n
  BY <1>1, <1>3
<1> HIDE DEF M, u, a, b, x, y
<1> DEFINE step == a - b
<1>5. step \in Int /\ step * M = a * M - b * M
  BY <1>4
<1> HIDE DEF step
<1>6. step * M = y + n - x
  <2>1. step * M \in Int /\ a * M \in Int /\ b * M \in Int
    BY <1>4, <1>5
  <2> QED BY <1>4, <1>5, <2>1
<1>7. step >= 2 => step * M >= 2 * M
  BY <1>4, <1>5
<1>8. step <= -2 => step * M <= -2 * M
  BY <1>4, <1>5
<1>9. step = 0 \/ step = 1 \/ step = -1
  BY <1>4, <1>5, <1>6, <1>7, <1>8
<1>10. \/ a = b /\ x = y + n
       \/ a = b + 1 /\ x = y + n - M
       \/ a = b - 1 /\ x = y + n + M
  BY <1>4, <1>6, <1>9 DEF step
<1> QED BY <1>10 DEF M, u, a, b, x, y

(* Two instants at which a window is open, and between which the clock     *)
(* moved by less than the window's pause, are in one instance.             *)
LEMMA SameInstance ==
    ASSUME NEW w, ValidWindow(w), ~w.allDay, NEW t \in Instants,
           NEW n \in Int, -Pause(w) <= n, n <= Pause(w), Later(t, n) \in Instants,
           PlainMatches(w, t), PlainMatches(w, Later(t, n))
    PROVE  PlainDate(w, Later(t, n)) = PlainDate(w, t)
<1> DEFINE u == Later(t, n)
<1>1. /\ w.start \in Int /\ w.end \in Int /\ w.start # w.end
      /\ 0 <= w.start /\ w.start < MinutesPerDay /\ 0 <= w.end /\ w.end < MinutesPerDay
  BY WindowNumbers
<1>2. MinutesPerDay \in Int
  BY ClockAssumption
<1>3. -MinutesPerDay < n /\ n < MinutesPerDay
  BY <1>1, <1>2 DEF Pause
<1>4. \/ u.date = t.date /\ u.minute = t.minute + n
      \/ u.date = t.date + 1 /\ u.minute = t.minute + n - MinutesPerDay
      \/ u.date = t.date - 1 /\ u.minute = t.minute + n + MinutesPerDay
  BY <1>3, LaterNumbers
<1>5. /\ t.date \in Int /\ t.minute \in Int /\ 0 <= t.minute /\ t.minute < MinutesPerDay
      /\ u.date \in Int /\ u.minute \in Int /\ 0 <= u.minute /\ u.minute < MinutesPerDay
  BY Numbers
<1> HIDE DEF u
<1>6. CASE w.start < w.end
  <2>1. /\ w.start <= t.minute /\ t.minute < w.end
        /\ w.start <= u.minute /\ u.minute < w.end
    BY <1>6 DEF PlainMatches, u
  <2>2. u.date = t.date
    BY <1>1, <1>2, <1>4, <1>5, <1>6, <2>1 DEF Pause
  <2> QED BY <1>1, <1>6, <2>2 DEF PlainDate, u
<1>7. CASE w.end < w.start
  <2>1. /\ w.start <= t.minute \/ t.minute < w.end
        /\ w.start <= u.minute \/ u.minute < w.end
    BY <1>1, <1>7 DEF PlainMatches, u
  <2>2. (IF u.minute < w.end THEN u.date - 1 ELSE u.date)
          = (IF t.minute < w.end THEN t.date - 1 ELSE t.date)
    BY <1>1, <1>2, <1>4, <1>5, <1>7, <2>1 DEF Pause
  <2> QED BY <1>1, <1>7, <2>2 DEF PlainDate, u
<1> QED BY <1>1, <1>6, <1>7

(* Match names a window that is open, unless none is. *)
LEMMA MatchIsOpen ==
    ASSUME TypeOK, NEW t, Match(t) # NoWindow
    PROVE  \E w \in windows : w.name = Match(t) /\ matches(w, t)
<1> DEFINE open == {w.name : w \in {v \in windows : matches(v, t)}}
<1>1. open \subseteq Nat
  BY SchedulesAssumption DEF TypeOK, ValidWindow
<1>2. open # {} /\ Match(t) = CHOOSE i \in open : \A m \in open : i <= m
  BY DEF Match
<1> HIDE DEF open
<1>3. Match(t) \in open
  BY <1>1, <1>2, LeastNumber
<1> QED BY <1>3 DEF open

(* What the reconciler sees as the current window instance changes only    *)
(* when a window opens or closes, or at midnight of an all-day window: a   *)
(* midnight inside a window and a clock change shorter than every pause    *)
(* start no new instance, so no snapshot or skip is dropped half-way; but  *)
(* the minutes skipped the day before next to midnight may (Match,         *)
(* WindowInstanceID).                                                      *)
THEOREM InstancesAreStable == Spec => InstanceIsStable
<1> DEFINE Change == \E w \in windows :
                       \/ matches(w, local)' # matches(w, local)
                       \/ w.allDay /\ local'.date # local.date
           Pausing == \A w \in windows : ~w.allDay => Pause(w) > Shift
           Clear == \A w \in windows : ~Misled(w, local) /\ ~Misled(w, local)'
<1>1. Plain /\ Plain' /\ TypeOK /\ TypeOK' /\ [Next]_vars =>
        [Pausing /\ Clear /\ WindowInstanceID(local)' # WindowInstanceID(local)
         => Change]_vars
  <2> SUFFICES ASSUME Plain, Plain', TypeOK, TypeOK', Next, Pausing, Clear, ~Change
               PROVE  WindowInstanceID(local)' = WindowInstanceID(local)
    OBVIOUS
  <2>1. PICK n \in {1, 1 + Shift, 1 - Shift} : Move(n)
    BY DEF Next, Advance, SkipForward, SetBack
  <2>2. /\ windows' = windows /\ local' = Later(local, n)
        /\ local \in Instants /\ local' \in Instants
    BY <2>1 DEF Move, TypeOK
  <2>3. \A w \in windows : matches(w, local)' = matches(w, local)
    OBVIOUS
  <2>4. Match(local)' = Match(local)
    <3> DEFINE open == {w.name : w \in {v \in windows : matches(v, local)}}
    <3>1. {v \in windows : matches(v, local)}' = {v \in windows : matches(v, local)}
      BY <2>2, <2>3
    <3>2. open' = open
      BY <3>1
    <3> HIDE DEF open
    <3>3. Match(local) = IF open = {} THEN NoWindow ELSE CHOOSE i \in open : \A m \in open : i <= m
      BY DEF Match, open
    <3>4. Match(local)' = IF open' = {} THEN NoWindow
                          ELSE CHOOSE i \in open' : \A m \in open' : i <= m
      BY DEF Match, open
    <3> QED BY <3>2, <3>3, <3>4
  <2>5. CASE Match(local) = NoWindow
    BY <2>4, <2>5 DEF WindowInstanceID
  <2>6. CASE Match(local) # NoWindow
    <3>1. PICK v \in windows : v.name = Match(local) /\ matches(v, local)
      BY <2>6, MatchIsOpen
    <3>2. ValidWindow(v) /\ \A w \in windows : w.name = v.name => w = v
      BY <3>1, SchedulesAssumption DEF TypeOK
    <3>3. (CHOOSE w \in windows : w.name = Match(local)) = v
      BY <3>1, <3>2
    <3>4. (CHOOSE w \in windows : w.name = Match(local))' = v
      BY <2>2, <2>4, <3>3
    <3>5. /\ PlainMatches(v, local) /\ PlainMatches(v, local')
          /\ InstanceDate(v, local) = PlainDate(v, local)
          /\ InstanceDate(v, local)' = PlainDate(v, local')
      <4>1. ~Misled(v, local) /\ ~Misled(v, local)' /\ matches(v, local)'
        BY <2>3, <3>1
      <4> QED BY <2>2, <3>1, <3>2, <4>1 DEF Plain
    <3>6. PlainDate(v, local') = PlainDate(v, local)
      <4>1. CASE v.allDay
        BY <3>1, <4>1 DEF PlainDate
      <4>2. CASE ~v.allDay
        <5>1. Pause(v) \in Int /\ Pause(v) > Shift /\ Shift \in Int /\ Shift >= 1
          BY <3>1, <3>2, <4>2, WindowNumbers, ClockAssumption DEF Pause
        <5>2. n \in Int /\ -Pause(v) <= n /\ n <= Pause(v)
          BY <5>1
        <5> QED BY <2>2, <3>2, <3>5, <4>2, <5>2, SameInstance
      <4> QED BY <4>1, <4>2
    <3>7. WindowInstanceID(local) = [name |-> Match(local), date |-> InstanceDate(v, local)]
      BY <2>6, <3>3 DEF WindowInstanceID
    <3>8. WindowInstanceID(local)'
            = [name |-> Match(local)', date |-> InstanceDate(v, local)']
      BY <2>4, <2>6, <3>4 DEF WindowInstanceID
    <3> QED BY <2>4, <3>5, <3>6, <3>7, <3>8
  <2> QED BY <2>5, <2>6
<1>2. Spec => []Plain
  <2>1. Plain
    BY PlainHolds
  <2> QED BY <2>1, PTL
<1> QED BY <1>1, <1>2, TypeCorrect, PTL DEF Spec, InstanceIsStable
=============================================================================
