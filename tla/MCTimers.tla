------------------------------ MODULE MCTimers ------------------------------
(* Days of six units; sunset at two or four.  Times of the day are even and
   the start is odd: none is the start to the microsecond.  Times with an
   offset into another day are left out of windows, where README.md describes
   what becomes of them. *)
EXTENDS Timers

MCSunset(d) == 2 + 2 * (d % 2)

Text(dt, d, t, o) == [date |-> dt, day |-> d, time |-> t, offset |-> o]
Daily == {Text("none", 0, t, o) : t \in {sunset, 0, 2, 4}, o \in {-2, 0, 2}}
Plain(times) == {Text("none", 0, t, 0) : t \in times}
FromStart == {Text("now", 0, 0, o) : o \in {0, 1, 9}}
Dated == {Text("full", 8, t, 0) : t \in {0, 4}} \cup {Text("dow", 2, 4, 0)}
           \cup {Text("year", 9, 2, 0), Text("today", 0, 4, 0)}
Periods == {1, 2, 4, 7}

Specs ==
  [kind : {"once"}, x : Daily \cup FromStart \cup Dated]
    \cup [kind : {"endless"}, x : Daily \cup FromStart \cup Dated, period : Periods]
    \cup [kind : {"ending"}, x : Plain({0, 2, 4}), period : Periods, y : Plain({0, 2, 4})]
    \cup [kind : {"ending"}, x : Plain({0}), period : Periods, y : Plain({sunset})]
    \cup [kind : {"ending"}, x : Plain({sunset}), period : Periods, y : Plain({0})]
    \cup [kind : {"ending"}, x : FromStart, period : Periods, y : FromStart]
    \cup [kind : {"cron"}, hour : 0 .. 5]

Between(x, y, negate) ==
  [x |-> Text("none", 0, x, 0), y |-> Text("none", 0, y, 0), negate |-> negate]
Actives ==
  {{Between(1, 4, FALSE)}, {Between(4, 1, FALSE)}, {Between(1, 3, TRUE)}, {Between(sunset, 0, FALSE)},
   {Between(0, 2, FALSE), Between(4, 5, FALSE)}, {Between(5, 1, TRUE), Between(3, 3, TRUE)},
   {Between(1, 5, FALSE), Between(2, 3, TRUE)}}

MCTriggers ==
  [spec : Specs, active : {{}}, hold_off : {0}]
    \cup [spec : [kind : {"endless"}, x : FromStart, period : {1}], active : Actives,
           hold_off : {0, 3}]
=============================================================================
