------------------------------- MODULE Timers -------------------------------
(***************************************************************************)
(* @time_trigger and @time_active: parse_date_time, timer_trigger_next and *)
(* timer_active_check of trigger.py, and the two loops that wait for the   *)
(* next time, TimeTriggerDecorator._cycle and the legacy trigger_watch,    *)
(* side by side, also on a day when the clocks change.                     *)
(*                                                                         *)
(* Local times are counted in units from midnight of day 0.  A date-time   *)
(* is a record of what its text says: which date, which time of the day,   *)
(* and the offset.                                                         *)
(***************************************************************************)
EXTENDS Integers, Sequences, FiniteSetsExt

CONSTANTS
  DayLen,    \* units of a day
  YearLen,   \* days of a year
  Sunset(_), \* the time of sunset on a day
  Triggers,  \* [spec, active, hold_off]: a time specification, and a set of
             \* ranges and a number of units for @time_active
  Startup,   \* times at which the trigger starts
  MaxTime,   \* bound: the last time
  MaxDelay,  \* bound: how long a dispatch may take
  Changes,   \* "none", "back" or "forward": what the clock does, by one unit,
  ChangeAt   \* when it shows this time

sunset == -1   \* as the time of a date-time
DateTime == [date : {"none", "full", "year", "dow", "today", "tomorrow", "now"},
             day : Nat, time : Nat \cup {sunset}, offset : Int]
TimeSpec == [kind : {"cron"}, hour : 0 .. DayLen - 1]
              \cup [kind : {"once"}, x : DateTime]
              \cup [kind : {"endless"}, x : DateTime, period : Nat \ {0}]
              \cup [kind : {"ending"}, x : DateTime, period : Nat \ {0}, y : DateTime]
TimeRange == [x : DateTime, y : DateTime, negate : BOOLEAN]

ASSUME TimersAssumption ==
  /\ DayLen \in Nat \ {0} /\ YearLen \in Nat \ {0} /\ Startup \subseteq Nat
  /\ Triggers \subseteq [spec : TimeSpec, active : SUBSET TimeRange, hold_off : Nat]
  /\ {MaxTime, MaxDelay, ChangeAt} \subseteq Nat /\ Changes \subseteq {"none", "back", "forward"}

VARIABLES
  trigger,  \* the arguments of the decorators
  change,   \* what the clock does
  u,        \* the time that has really passed
  startup,  \* startup_time
  loop      \* of each implementation: what it waits for, when the function ran
            \* last (none: it did not), the last time it was due

vars == <<trigger, change, u, startup, loop>>

Loops == {"cycle", "watch"}  \* TimeTriggerDecorator._cycle, trigger_watch
none == -1

-----------------------------------------------------------------------------
(* parse_date_time *)

day(t) == t \div DayLen
weekday(d) == d % 7

\* A day of the week is the next one, today included.
date(x, day_offset, now) ==
  CASE x.date = "none" -> day(now) + day_offset
    [] x.date = "full" -> x.day
    [] x.date = "year" -> YearLen * (day(now) \div YearLen) + x.day
    [] x.date = "dow" -> day(now) + ((x.day - weekday(day(now))) % 7)
    [] x.date \in {"today", "now"} -> day(now)
    [] x.date = "tomorrow" -> day(now) + 1

fixed_date(x) == x.date # "none"

parse_date_time(x, day_offset, now) ==
  x.offset +
    CASE x.date = "now" -> startup
      [] x.date # "now" /\ x.time = sunset ->
           DayLen * date(x, day_offset, now) + Sunset(date(x, day_offset, now))
      [] OTHER -> DayLen * date(x, day_offset, now) + x.time

-----------------------------------------------------------------------------
(* timer_trigger_next: the next local time and the time to wait, or nothing *)

\* once(): a day offset takes a time without a date to the first after now.
once(x, now) ==
  LET today == parse_date_time(x, 0, now)
      day_offset == (now - today) \div DayLen + 1
      this_t == IF day_offset # 0 /\ today # startup
                  THEN parse_date_time(x, day_offset, now) ELSE today
  IN {t \in {this_t} : now < t \/ (now = t /\ now = startup)}

\* The multiple of the period after now.
after(start, period, now) == start + period * (1 + (now - start) \div period)

endless(x, period, now) ==
  LET start == parse_date_time(x, 0, now)
  IN IF now < start \/ (now = start /\ now = startup) THEN {start} ELSE {after(start, period, now)}

\* Mutated form of day_dither: a window that began yesterday is forgotten.
day_dither_from_today(x, y) == IF fixed_date(x) \/ fixed_date(y) THEN <<0>> ELSE <<0, 1>>

day_dither(x, y) == IF fixed_date(x) \/ fixed_date(y) THEN <<0>> ELSE <<-1, 0, 1>>

\* period() with an end: the first of yesterday's, today's and tomorrow's
\* windows that has a time left.
ending(x, period, y, now) ==
  LET start(d) == parse_date_time(x, d, now)
      end_offset == IF ~fixed_date(x) /\ ~fixed_date(y) /\ parse_date_time(y, 0, now) < start(0)
                      THEN 1 ELSE 0
      end(d) == parse_date_time(y, d + end_offset, now)
      this_t(d) == IF (now < start(d) \/ (now = start(d) /\ now = startup)) /\ start(d) <= end(d)
                     THEN start(d) ELSE after(start(d), period, now)
      days == day_dither(x, y)
      found == {i \in DOMAIN days : start(days[i]) <= this_t(days[i]) /\ this_t(days[i]) <= end(days[i])}
  IN {this_t(days[i]) : i \in {j \in found : \A k \in found : j <= k}}

\* What the clock shows, and when a local time comes: of one that comes twice
\* the first, one that is left out as if it came.
local(t) ==
  CASE change = "back" /\ t >= ChangeAt -> t - 1
    [] change = "forward" /\ t >= ChangeAt -> t + 1
    [] OTHER -> t
as_utc(t) ==
  CASE change = "back" /\ t >= ChangeAt -> t + 1
    [] change = "forward" /\ t > ChangeAt -> t - 1
    [] OTHER -> t

\* Mutated form of cron: the difference of the local times.
cron_naive(hour) ==
  LET val == Min({t \in local(u) + 1 .. local(u) + 3 * DayLen : t % DayLen = hour})
  IN {[next |-> val, adj |-> val]}

\* cron(), here of a time of the day: the next that is still to come, and now
\* plus the time until it does.
cron(hour) ==
  LET val == Min({t \in local(u) + 1 .. local(u) + 3 * DayLen :
                    t % DayLen = hour /\ as_utc(t) > u})
  IN {[next |-> val, adj |-> local(u) + as_utc(val) - u]}

timer_trigger_next(s, now) ==
  CASE s.kind = "cron" -> cron(s.hour)
    [] s.kind = "once" -> {[next |-> t, adj |-> t] : t \in once(s.x, now)}
    [] s.kind = "endless" -> {[next |-> t, adj |-> t] : t \in endless(s.x, s.period, now)}
    [] s.kind = "ending" -> {[next |-> t, adj |-> t] : t \in ending(s.x, s.period, s.y, now)}

-----------------------------------------------------------------------------
(* timer_active_check *)

\* Mutated form of in_range: no range goes over midnight.
in_range_of_a_day(r, now) ==
  LET start == parse_date_time(r.x, 0, now)
  IN start <= now /\ now <= parse_date_time(r.y, 0, start)

in_range(r, now) ==
  LET start == parse_date_time(r.x, 0, now)
      end == parse_date_time(r.y, 0, start)
  IN IF start <= end THEN start <= now /\ now <= end ELSE now >= start \/ now <= end

timer_active_check(ranges, now) ==
  LET positive == {r \in ranges : ~r.negate}
  IN /\ positive = {} \/ \E r \in positive : in_range(r, now)
     /\ \A r \in ranges \ positive : ~in_range(r, now)

\* TimeActiveDecorator.handle_dispatch asks for one argument after the other;
\* trigger_watch for all of them.
handle_dispatch(ranges, now) ==
  ranges = {} \/ \E r \in ranges : timer_active_check({r}, now)

\* Whether the function runs, that was called last at this time (hold_off).
active(i, now) ==
  /\ loop[i].ran = none \/ u - loop[i].ran >= trigger.hold_off
  /\ IF i = "cycle" THEN handle_dispatch(trigger.active, now)
                    ELSE timer_active_check(trigger.active, now)

-----------------------------------------------------------------------------
(* The loops *)

Init ==
  /\ trigger \in Triggers
  /\ change \in Changes
  /\ u \in Startup
  /\ startup = local(u)
  /\ loop = [i \in Loops |-> [pc |-> "compute", now |-> local(u), next |-> none, adj |-> none,
                              wake |-> none, delay |-> 0, ran |-> none,
                              calls |-> <<>>]]

\* The next time is looked up and the sleep begins; without one the loop ends.
Sleep(i) ==
  /\ loop[i].pc = "compute"
  /\ LET now == IF loop[i].next = none THEN startup ELSE local(u)
         times == timer_trigger_next(trigger.spec, now)
     IN IF times = {} THEN loop' = [loop EXCEPT ![i].pc = "ended", ![i].now = now]
        ELSE \E t \in times :
               loop' = [loop EXCEPT ![i] = [loop[i] EXCEPT !.pc = "asleep", !.now = now,
                          !.next = t.next, !.adj = t.adj, !.wake = u + t.adj - now,
                          !.delay = 0]]
  /\ UNCHANGED <<trigger, change, u, startup>>

\* When it wakes too early by the clock it sleeps again: the decorator until
\* the clock shows the adjusted time, trigger_watch until it shows the next.
\* Then the function runs unless @time_active says no.
Wake(i) ==
  /\ loop[i].pc = "asleep" /\ loop[i].wake = u
  /\ LET l == loop[i]
         until == IF i = "cycle" THEN l.adj ELSE l.next
         runs == active(i, l.next)
         called == <<[time |-> l.next, at |-> u, before |-> l.ran, runs |-> runs]>>
     IN loop' = [loop EXCEPT ![i] =
                   IF local(u) < until THEN [l EXCEPT !.wake = u + until - local(u)]
                   ELSE [l EXCEPT !.pc = "compute", !.calls = called,
                                    !.ran = IF runs THEN u ELSE l.ran]]
  /\ UNCHANGED <<trigger, change, u, startup>>

\* Time passes: nobody oversleeps, a dispatch may take a little.
Tick ==
  /\ u < MaxTime
  /\ \A i \in Loops : /\ loop[i].pc = "asleep" => loop[i].wake > u
                      /\ loop[i].pc = "compute" =>
                           loop[i].next # none /\ loop[i].delay < MaxDelay
  /\ u' = u + 1
  /\ loop' = [i \in Loops |-> IF loop[i].pc = "compute"
                                THEN [loop[i] EXCEPT !.delay = @ + 1] ELSE loop[i]]
  /\ UNCHANGED <<trigger, change, startup>>

Next == Tick \/ \E i \in Loops : Sleep(i) \/ Wake(i)

Spec == Init /\ [][Next]_vars

-----------------------------------------------------------------------------
(* What the reference documentation says of the texts *)

\* The days around now that a text without a date stands for, or its one day.
Days(x, now) == IF x.date = "none" THEN day(now) - 3 .. day(now) + 3 ELSE {date(x, 0, now)}
At(x, d) ==
  x.offset + (CASE x.date = "now" -> startup
                [] x.date # "now" /\ x.time = sunset -> DayLen * d + Sunset(d)
                [] OTHER -> DayLen * d + x.time)

\* From the start at each interval; a period without an end starts anew with
\* the day.
Every(start, period, last) == {t \in start .. last : (t - start) % period = 0}
Listed(s, now) ==
  CASE s.kind = "once" -> {At(s.x, d) : d \in Days(s.x, now)}
    [] s.kind = "endless" ->
         LET start == At(s.x, date(s.x, 0, now))
         IN {start} \cup Every(start, s.period, now + s.period)
    [] s.kind = "ending" ->
         UNION {Every(At(s.x, d), s.period, IF At(s.y, d) < At(s.x, d) THEN At(s.y, d + 1)
                                                                     ELSE At(s.y, d)) :
                  d \in Days(s.x, now)}

\* At the startup itself a time that is now counts if something starts with it.
Expected(s, now) ==
  LET left == {t \in Listed(s, now) :
                 t > now \/ (t = now /\ now = startup /\ \E d \in Days(s.x, now) : t = At(s.x, d))}
  IN IF left = {} THEN none ELSE Min(left)

\* Each loop waits for the earliest of the times the text lists that is still
\* to come, and ends only if there is none: before and after midnight, in
\* windows over midnight, with offsets into another day, and for a start that
\* is now (timer_trigger_next).
NextIsLeast ==
  trigger.spec.kind # "cron" =>
    \A i \in Loops :
      /\ loop[i].pc = "asleep" => loop[i].next = Expected(trigger.spec, loop[i].now)
      /\ loop[i].pc = "ended" => Expected(trigger.spec, loop[i].now) = none

\* A daily cron trigger comes when the clock shows its time, or would have,
\* also on the day the clocks change: "(next_time_adj - now) is the correct
\* timedelta to wait" (timer_trigger_next).
OnTime(i) ==
  trigger.spec.kind = "cron" =>
    \A k \in DOMAIN loop[i].calls : loop[i].calls[k].at = as_utc(loop[i].calls[k].time)

\* That holds for the legacy loop,
WatchOnTime == OnTime("watch")

\* and not for the decorator, whose second sleep takes the adjusted time for a
\* time of the clock: on the day it is set back the trigger is late.
CycleOnTime == OnTime("cycle")

\* A range without a date is one of every day; over midnight if it ends before
\* it starts.
Within(r, now) ==
  \E d \in day(now) - 1 .. day(now) :
    /\ At(r.x, d) <= now
    /\ now <= IF At(r.y, d) < At(r.x, d) THEN At(r.y, d + 1) ELSE At(r.y, d)
ActiveAt(ranges, now) ==
  /\ (\E r \in ranges : ~r.negate) => \E r \in ranges : ~r.negate /\ Within(r, now)
  /\ \A r \in ranges : r.negate => ~Within(r, now)

\* A function runs exactly at the times that match one of the ranges of its
\* @time_active and none of those with "not", and that are hold_off after it
\* ran last: timer_active_check and the checks around it.
Ran(i) ==
  \A k \in DOMAIN loop[i].calls :
    LET c == loop[i].calls[k]
    IN c.runs <=> /\ ActiveAt(trigger.active, c.time)
                  /\ c.before # none => c.at >= c.before + trigger.hold_off
WatchRunsWhenActive == Ran("watch")

\* The decorator (handle_dispatch) runs it if one of the arguments alone allows
\* it, so that "range(8:00, 22:00)", "not range(12:00, 13:00)" has no gap.
CycleRunsWhenActive == Ran("cycle")
=============================================================================
