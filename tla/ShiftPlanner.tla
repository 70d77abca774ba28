---------------------------- MODULE ShiftPlanner ----------------------------
(***************************************************************************)
(* Where scheduleFromShifts puts a shift: the arithmetic of working hours  *)
(* (nextAllowedUtc, addDurationWithinWorkingHours), the check against the  *)
(* assignee's other active rows, and the race between that check and the   *)
(* insertion of the row.  Time is counted in ticks; a tick is worked or    *)
(* not.  Calendars are in UTC.                                             *)
(***************************************************************************)
EXTENDS Naturals, Sequences, FiniteSetsExt

CONSTANTS
  Calls,      \* calls of scheduleFromShifts
  TaskOf,     \* the task a call schedules shifts for
  Plans,      \* what may be asked for: sequences of shifts, in their order
  Slots,      \* Slots[u][d]: the intervals user u works on weekday d, sorted
  OffDates,   \* OffDates[u]: the days on which user u, or the tenant, is off
  DayLength,  \* ticks of a day
  MaxDays     \* days the search goes through: 366

Users == DOMAIN Slots

SlotSet  == [start : Nat, end : Nat]
ShiftSet == [user : Users, start : Nat, end : Nat]

(* A slot ends after it starts; buildIntervalsForDay makes an interval of it.  *)
ASSUME CalendarAssumption ==
  /\ DayLength \in Nat \ {0} /\ MaxDays \in Nat \ {0}
  /\ \A u \in Users : Slots[u] \in Seq(Seq(SlotSet)) /\ Slots[u] # <<>>
  /\ \A u \in Users : \A d \in DOMAIN Slots[u] : \A i \in DOMAIN Slots[u][d] :
       LET s == Slots[u][d][i] IN
       /\ s.start < s.end /\ s.end <= DayLength
       /\ \A j \in 1 .. i - 1 : Slots[u][d][j].start <= s.start

(* A plan has a shift, and no shift ends before it starts.                    *)
ASSUME PlanAssumption ==
  \A p \in Plans : /\ p \in Seq(ShiftSet) /\ p # <<>>
                   /\ \A i \in DOMAIN p : p[i].start <= p[i].end

-----------------------------------------------------------------------------
(* Working hours. *)

DayOf(t)    == t \div DayLength
StartOf(d)  == d * DayLength

(* getWorkingIntervalsLocal, unless the date is off. *)
SlotsOn(u, d) == IF d \in OffDates[u] THEN <<>> ELSE Slots[u][(d % Len(Slots[u])) + 1]

(* buildIntervalsForDay, for the day of t. *)
IntervalsOn(u, t) ==
  LET slots == SlotsOn(u, DayOf(t))
  IN [i \in DOMAIN slots |-> [start |-> StartOf(DayOf(t)) + slots[i].start,
                              end   |-> StartOf(DayOf(t)) + slots[i].end]]

Within(t, ivs)      == \E i \in DOMAIN ivs : ivs[i].start <= t /\ t < ivs[i].end
(* Mutant: starts that have passed are not left out. *)
StartsAny(t, ivs) == {ivs[i].start : i \in DOMAIN ivs}

StartsAfter(t, ivs) == {s \in {ivs[i].start : i \in DOMAIN ivs} : s > t}

(* nextAllowedUtc: the request itself, the next start of an interval of its   *)
(* day, or the same from the start of one of the days that follow; the        *)
(* request as it is when no day has working hours.                            *)
Cursor(t, i) == IF i = 0 THEN t ELSE StartOf(DayOf(t) + i)

Search(u, t) ==
  LET search[i \in 0 .. MaxDays] ==
        IF i = MaxDays THEN t
        ELSE LET ivs == IntervalsOn(u, Cursor(t, i)) IN
             IF Within(Cursor(t, i), ivs) THEN Cursor(t, i)
             ELSE IF StartsAfter(Cursor(t, i), ivs) # {} THEN Min(StartsAfter(Cursor(t, i), ivs))
             ELSE search[i + 1]
  IN search

NextAllowed(u, t) == Search(u, t)[0]

(* Mutant: the interval counts from its start, wherever the work has come to. *)
WorkWholeInterval(w, iv) ==
  IF w.done THEN w
  ELSE IF iv.end - iv.start >= w.left
  THEN [w EXCEPT !.at = iv.start + w.left, !.done = TRUE]
  ELSE [w EXCEPT !.at = iv.end, !.left = @ - (iv.end - iv.start)]

(* One interval of addDurationWithinWorkingHours: it ends the work or takes   *)
(* a part of what remains.                                                    *)
WorkInterval(w, iv) ==
  LET from == IF w.at > iv.start THEN w.at ELSE iv.start IN
  IF w.done \/ from >= iv.end THEN w
  ELSE IF iv.end - from >= w.left
  THEN [w EXCEPT !.at = from + w.left, !.done = TRUE]
  ELSE [w EXCEPT !.at = iv.end, !.left = @ - (iv.end - from)]

(* The intervals of one day, one after the other. *)
WorkIntervals(w, ivs) ==
  LET worked[i \in 0 .. Len(ivs)] ==
        IF i = 0 THEN w ELSE WorkInterval(worked[i - 1], ivs[i])
  IN worked

WorkDay(u, w) ==
  LET ivs    == IntervalsOn(u, w.at)
      worked == WorkIntervals(w, ivs)[Len(ivs)]
  IN IF worked.done THEN worked ELSE [worked EXCEPT !.at = StartOf(DayOf(w.at) + 1)]

WorkDays(u, t, length) ==
  LET work[i \in 0 .. MaxDays] ==
        IF i = 0 THEN [at |-> t, left |-> length, done |-> length = 0]
        ELSE WorkDay(u, work[i - 1])
  IN work

(* addDurationWithinWorkingHours: MaxDays days, then plain addition. *)
AddDuration(u, t, length) ==
  LET w == WorkDays(u, t, length)[MaxDays]
  IN IF w.done THEN w.at ELSE t + length

-----------------------------------------------------------------------------
VARIABLES
  rows,    \* active rows of scheduled_tasks that have an assignee
  call     \* the plan a call works on and what it holds between its awaits

vars == <<rows, call>>

(* Consecutive shifts of a plan are moved apart before any is placed. *)
Serialized(p) ==
  LET fixed[i \in DOMAIN p] ==
        IF i = 1 \/ p[i].start >= fixed[i - 1].end THEN p[i]
        ELSE [p[i] EXCEPT !.start = fixed[i - 1].end,
                          !.end = IF @ < fixed[i - 1].end THEN fixed[i - 1].end + 1 ELSE @]
  IN fixed

Overlaps(r, start, end) == r.start < end /\ r.end > start

(* at, till: where the shift at hand goes; asked: the time it was fitted to   *)
(* the calendar for; pushed: behind a conflict; raced: history, another row   *)
(* was inserted since the overlaps of this shift were looked up.              *)
NoCall == [pc |-> "idle", plan |-> <<>>, next |-> 1, prevEnd |-> 0, asked |-> 0,
           at |-> 0, till |-> 0, pushed |-> FALSE, raced |-> FALSE]

Shift(c)  == call[c].plan[call[c].next]
Length(c) == Shift(c).end - Shift(c).start

Init ==
  /\ rows = {}
  /\ call = [c \in Calls |-> NoCall]

BeginPlan(c) ==
  /\ call[c].pc = "idle"
  /\ \E p \in Plans :
       call' = [call EXCEPT ![c].pc = "place", ![c].plan = Serialized(p)]
  /\ UNCHANGED rows

(* The shift goes where the calendar first allows it, not before the end of   *)
(* the previous shift of the call ...                                         *)
Fit(c, asked) ==
  LET start == NextAllowed(Shift(c).user, asked)
  IN [asked |-> asked, at |-> start,
      till |-> Max({start, AddDuration(Shift(c).user, start, Length(c))})]

(* Mutant: the previous shift is forgotten. *)
PlannedStart(c) == Shift(c).start

SerialStart(c) ==
  IF Shift(c).start < call[c].prevEnd THEN call[c].prevEnd ELSE Shift(c).start

(* Mutant: only rows under way at the start of the shift count. *)
UserRowsAtStart(c, fit) ==
  {r \in rows : r.user = Shift(c).user /\ r.start <= fit.at /\ fit.at < r.end}

(* findUserOverlaps *)
UserOverlaps(c, fit) ==
  {r \in rows : r.user = Shift(c).user /\ Overlaps(r, fit.at, fit.till)}

(* ... and behind the rows of the same assignee it would overlap there.       *)
Place(c) ==
  /\ call[c].pc = "place"
  /\ LET first     == Fit(c, SerialStart(c))
         conflicts == UserOverlaps(c, first)
         fit       == IF conflicts = {} THEN first
                      ELSE Fit(c, Max({r.end : r \in conflicts}) + 1)
     IN call' = [call EXCEPT ![c].pc = IF conflicts = {} THEN "create" ELSE "recheck",
                             ![c].asked = fit.asked, ![c].at = fit.at, ![c].till = fit.till,
                             ![c].pushed = conflicts # {}, ![c].raced = FALSE]
  /\ UNCHANGED rows

(* findTaskChildOverlaps of a pushed shift: the call throws, its earlier rows *)
(* stay.                                                                      *)
Recheck(c) ==
  /\ call[c].pc = "recheck"
  /\ call' = [call EXCEPT ![c].pc =
                 IF \E r \in rows : /\ r.task = TaskOf[c]
                                    /\ Overlaps(r, call[c].at, call[c].till)
                 THEN "thrown" ELSE "create"]
  /\ UNCHANGED rows

(* Mutant: the loop over the plan ends one shift too late. *)
CreateNext(c) ==
  /\ call[c].pc = "create"
  /\ rows' = rows \cup
       {[call |-> c, no |-> call[c].next, task |-> TaskOf[c], user |-> Shift(c).user,
         asked |-> call[c].asked, start |-> call[c].at, end |-> call[c].till,
         length |-> Length(c), pushed |-> call[c].pushed, raced |-> call[c].raced]}
  /\ call' = [d \in Calls |->
       IF d # c THEN [call[d] EXCEPT !.raced = @ \/ call[d].pc \in {"recheck", "create"}]
       ELSE [call[c] EXCEPT !.next = @ + 1, !.prevEnd = call[c].till,
                            !.pc = IF @ = "create" /\ call[c].next > Len(call[c].plan)
                                   THEN "done" ELSE "place"]]

(* createActive; then the next shift of the plan. *)
Create(c) ==
  /\ call[c].pc = "create"
  /\ rows' = rows \cup
       {[call |-> c, no |-> call[c].next, task |-> TaskOf[c], user |-> Shift(c).user,
         asked |-> call[c].asked, start |-> call[c].at, end |-> call[c].till,
         length |-> Length(c), pushed |-> call[c].pushed, raced |-> call[c].raced]}
  /\ call' = [d \in Calls |->
       IF d # c THEN [call[d] EXCEPT !.raced = @ \/ call[d].pc \in {"recheck", "create"}]
       ELSE [call[c] EXCEPT !.next = @ + 1, !.prevEnd = call[c].till,
                            !.pc = IF @ = "create" /\ call[c].next = Len(call[c].plan)
                                   THEN "done" ELSE "place"]]

Next == \E c \in Calls : BeginPlan(c) \/ Place(c) \/ Recheck(c) \/ Create(c)
Spec == Init /\ [][Next]_vars

-----------------------------------------------------------------------------
(* Reference definitions, by counting ticks. *)
Works(u, t) ==
  LET slots == SlotsOn(u, DayOf(t))
      tick  == t % DayLength
  IN \E i \in DOMAIN slots : slots[i].start <= tick /\ tick < slots[i].end
WorkedTicks(u, from, to) == {t \in from .. to - 1 : Works(u, t)}
Worked(u, from, to)      == Cardinality(WorkedTicks(u, from, to))

(* The end of the days that are searched from t on. *)
Horizon(t) == StartOf(DayOf(t) + MaxDays)

RowSet  == [call : Calls, no : Nat, task : {TaskOf[c] : c \in Calls}, user : Users,
            asked : Nat, start : Nat, end : Nat, length : Nat,
            pushed : BOOLEAN, raced : BOOLEAN]
CallSet == [pc : {"idle", "place", "recheck", "create", "done", "thrown"},
            plan : Seq(ShiftSet), next : Nat, prevEnd : Nat, asked : Nat,
            at : Nat, till : Nat, pushed : BOOLEAN, raced : BOOLEAN]

(* Type invariant: a call places a shift of its plan, and no shift ends       *)
(* before it starts.                                                          *)
TypeOK ==
  /\ rows \subseteq RowSet /\ \A r \in rows : r.start <= r.end
  /\ call \in [Calls -> CallSet]
  /\ \A c \in Calls :
       /\ call[c].pc \in {"place", "recheck", "create"} => call[c].next \in DOMAIN call[c].plan
       /\ \A i \in DOMAIN call[c].plan : call[c].plan[i].start <= call[c].plan[i].end
       /\ call[c].at <= call[c].till

(* nextAllowedUtc finds the first working tick of the days it searches,       *)
(* across intervals, nights and days off, and the request itself when nobody  *)
(* works in them.                                                             *)
PlacedAtFirstWorkingTick ==
  \A r \in rows :
    IF \E t \in r.asked .. Horizon(r.asked) - 1 : Works(r.user, t)
    THEN /\ Works(r.user, r.start) /\ r.asked <= r.start
         /\ \A t \in r.asked .. r.start - 1 : ~Works(r.user, t)
    ELSE r.start = r.asked

(* addDurationWithinWorkingHours gives a shift exactly the working time that  *)
(* was planned for it, and stops with its last working tick; a shift longer   *)
(* than the working time of the days searched runs around the clock.          *)
GivenItsWorkingTime ==
  \A r \in rows :
    IF Worked(r.user, r.start, Horizon(r.start)) >= r.length
    THEN /\ Worked(r.user, r.start, r.end) = r.length
         /\ r.length > 0 => Works(r.user, r.end - 1)
    ELSE r.end = r.start + r.length

(* "Respect serial (child can't start before previous child ended)": the      *)
(* shifts of one call do not overlap, although each is fitted to the calendar *)
(* of another user and may be pushed.                                         *)
ShiftsAreSerial ==
  \A q, r \in rows : q.call = r.call /\ q.no < r.no => q.end <= r.start

DoubleBooked(q, r) == q # r /\ q.user = r.user /\ Overlaps(q, r.start, r.end)

(* An assignee is booked twice only where a shift was pushed, or where        *)
(* another row came between the look-up of the overlaps and the insertion.    *)
DoubleBookedOnlyByPushOrRace ==
  \A q, r \in rows : DoubleBooked(q, r) => q.pushed \/ r.pushed \/ q.raced \/ r.raced

(* "Prevent conflicts with user's other active schedules": without a race     *)
(* nobody is booked twice.                                                    *)
NoDoubleBooking ==
  \A q, r \in rows : DoubleBooked(q, r) => q.raced \/ r.raced
=============================================================================
