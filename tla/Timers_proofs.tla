--------------------------- MODULE Timers_proofs ---------------------------
(* Proofs about Timers, for any texts, lengths of the day and clocks. *)
EXTENDS Timers, WellFoundedInduction, TLAPS

\* A nonempty set of integers with a lower bound has a least element, which is
\* its Min.
LEMMA LeastInteger ==
  ASSUME NEW T, T \subseteq Int, T # {}, NEW a \in Int, \A y \in T : a <= y
  PROVE  Min(T) \in T /\ \A y \in T : Min(T) <= y
<1> DEFINE S == {y - a : y \in T}
           R == OpToRel(<, Nat)
<1>1. S \subseteq Nat /\ S # {}
  <2>1. \A y \in T : y - a \in Nat
    OBVIOUS
  <2>2. QED
    BY <2>1
<1>2. IsWellFoundedOn(R, Nat)
  BY NatLessThanWellFounded
<1>3. PICK x \in S : \A y \in S : ~(<<y, x>> \in R)
  <2> HIDE DEF R, S
  <2> QED
    BY <1>1, <1>2, WFMin
<1>4. \A y \in S : x <= y
  <2>1. \A y \in S : ~(y < x)
    <3> HIDE DEF S
    <3> QED BY <1>1, <1>3 DEF OpToRel
  <2> HIDE DEF S
  <2>2. QED
    BY <1>1, <2>1
<1>5. PICK z \in T : x = z - a
  OBVIOUS
<1>6. \A y \in T : z <= y
  <2> TAKE y \in T
  <2>1. y - a \in S
    OBVIOUS
  <2>2. x <= y - a
    BY <1>4, <2>1
  <2>3. QED
    BY <1>5, <2>2
<1>7. QED
  BY <1>6 DEF Min

\* A time is a time of the day on its day.
LEMMA DivMod ==
  ASSUME NEW D \in Nat \ {0}, NEW t \in Int
  PROVE  t \div D \in Int /\ t % D \in 0 .. D - 1 /\ t = (D * (t \div D)) + (t % D)
BY Z3T(20)

\* A time of the day on some day.
LEMMA TimeOfDay ==
  ASSUME NEW D \in Nat \ {0}, NEW k \in Int, NEW h \in 0 .. D - 1
  PROVE  /\ D * k + h \in Int
         /\ (D * k + h) % D = h
         /\ (D * k + h) \div D = k
BY Z3T(20)

\* Each time of the day comes once a day.
LEMMA NextTime ==
  ASSUME NEW D \in Nat \ {0}, NEW now \in Int, NEW h \in 0 .. D - 1
  PROVE  \E t \in now + 2 .. now + 3 * D : t % D = h
<1>1. PICK q \in Int, r \in 0 .. D - 1 : now = (D * q) + r
  BY DivMod
<1>2. PICK t \in Int : t = (D * (q + 2)) + h
  OBVIOUS
<1>3. t % D = h
  BY <1>2, TimeOfDay
<1>4. D * (q + 2) = (D * q) + 2 * D
  BY <1>1
<1>5. t \in now + 2 .. now + 3 * D
  BY <1>1, <1>2, <1>4
<1>6. QED
  BY <1>3, <1>5

\* What a clock shows and when it shows it, for a clock that is set by one unit.
LEMMA ClockIs ==
  ASSUME change \in {"none", "back", "forward"}, NEW t \in Int
  PROVE  /\ local(t) \in Int /\ t - 1 <= local(t) /\ local(t) <= t + 1
         /\ as_utc(t) \in Int
         /\ local(as_utc(t)) >= t
         /\ t >= local(u) + 2 /\ u \in Int => as_utc(t) > u
BY TimersAssumption DEF TimersAssumption, local, as_utc

-----------------------------------------------------------------------------
(* The state *)

Call == [time : Int, at : Int, before : Int, runs : BOOLEAN]
Loop == [pc : {"compute", "asleep", "ended"}, now : Int, next : Int, adj : Int,
         wake : Int, delay : Int, ran : Int, calls : Seq(Call)]

\* Sunset is a time; it has no part in a cron trigger.
SunsetIsTime == \A d \in Int : Sunset(d) \in Int
Timed == trigger.spec.kind = "cron" \/ SunsetIsTime

\* Every part of the state has its type.
TypeInv ==
  /\ trigger \in Triggers /\ change \in {"none", "back", "forward"} /\ u \in Nat
  /\ Timed => startup \in Int /\ loop \in [Loops -> Loop]

\* A cron trigger of the legacy loop sleeps until the clock shows its next time,
\* and its first sleep begins at the startup time.
CronInv ==
  trigger.spec.kind = "cron" =>
    /\ loop["watch"].next = none => loop["watch"].pc = "compute" /\ startup = local(u)
    /\ loop["watch"].pc = "asleep" => loop["watch"].wake = as_utc(loop["watch"].next)
    /\ WatchOnTime

-----------------------------------------------------------------------------
(* The next times *)

\* cron finds a time that is to come, and how long it takes until it does.
LEMMA CronIs ==
  ASSUME change \in {"none", "back", "forward"}, u \in Nat, NEW hour \in 0 .. DayLen - 1
  PROVE  \E val \in Int :
           /\ cron(hour) = {[next |-> val, adj |-> local(u) + as_utc(val) - u]}
           /\ val > local(u) /\ as_utc(val) > u
<1> DEFINE times == {t \in local(u) + 1 .. local(u) + 3 * DayLen :
                       t % DayLen = hour /\ as_utc(t) > u}
<1>1. DayLen \in Nat \ {0}
  BY TimersAssumption DEF TimersAssumption
<1>2. local(u) \in Int
  BY ClockIs
<1>3. PICK t \in local(u) + 2 .. local(u) + 3 * DayLen : t % DayLen = hour
  BY ONLY <1>1, <1>2, hour \in 0 .. DayLen - 1, NextTime, Zenon
<1>7. as_utc(t) > u
  BY <1>1, <1>2, <1>3, ClockIs
<1>8. t \in times
  BY <1>1, <1>2, <1>3, <1>7
<1>9. times \subseteq Int /\ \A x \in times : local(u) <= x
  BY <1>1, <1>2
<1> DEFINE val == Min(times)
<1>10. val \in times
  <2> HIDE DEF times
  <2> QED BY <1>2, <1>8, <1>9, LeastInteger
<1>11. cron(hour) = {[next |-> val, adj |-> local(u) + as_utc(val) - u]}
  BY DEF cron
<1>12. val \in Int /\ val > local(u) /\ as_utc(val) > u
  BY <1>1, <1>2, <1>10
<1> HIDE DEF val
<1>13. QED
  BY <1>11, <1>12

\* A text is parsed to a time.
LEMMA ParsedIsTime ==
  ASSUME SunsetIsTime, startup \in Int, NEW x \in DateTime, NEW d \in Int, NEW now \in Int
  PROVE  parse_date_time(x, d, now) \in Int
<1>1. DayLen \in Nat \ {0} /\ YearLen \in Nat \ {0}
  BY TimersAssumption DEF TimersAssumption
<1>2. \A t \in Int : day(t) \in Int
  BY <1>1 DEF day
<1>3. date(x, d, now) \in Int
  <2>1. x.date \in {"none", "full", "year", "dow", "today", "tomorrow", "now"} /\ x.day \in Nat
    BY DEF DateTime
  <2>2. day(now) \in Int
    BY <1>2
  <2>3. day(now) \div YearLen \in Int /\ (x.day - weekday(day(now))) % 7 \in Int
    BY <1>1, <2>1, <2>2 DEF weekday
  <2>4. YearLen * (day(now) \div YearLen) \in Int
    BY <1>1, <2>3
  <2>5. QED
    BY <2>1, <2>2, <2>3, <2>4 DEF date
<1>4. PICK e \in Int : e = date(x, d, now)
  BY <1>3
<1>5. x.offset \in Int /\ x.time \in Int /\ DayLen * e \in Int /\ Sunset(e) \in Int
  BY <1>1 DEF DateTime, SunsetIsTime, sunset
<1>6. QED
  BY <1>4, <1>5 DEF parse_date_time

\* The times that are looked up are times.
LEMMA NextIsTime ==
  ASSUME change \in {"none", "back", "forward"}, u \in Nat, startup \in Int,
         NEW s \in TimeSpec, s.kind = "cron" \/ SunsetIsTime, NEW now \in Int
  PROVE  \A t \in timer_trigger_next(s, now) : t.next \in Int /\ t.adj \in Int
<1>1. CASE s.kind = "cron"
  <2>1. s.hour \in 0 .. DayLen - 1
    BY <1>1 DEF TimeSpec
  <2>2. PICK val \in Int : cron(s.hour) = {[next |-> val, adj |-> local(u) + as_utc(val) - u]}
    BY <2>1, CronIs
  <2>3. local(u) + as_utc(val) - u \in Int
    BY ClockIs
  <2>4. QED
    BY <1>1, <2>2, <2>3 DEF timer_trigger_next
<1>2. CASE s.kind # "cron"
  <2>1. /\ s.kind \in {"once", "endless", "ending"} /\ s.x \in DateTime
        /\ s.kind \in {"endless", "ending"} => s.period \in Nat \ {0}
        /\ s.kind = "ending" => s.y \in DateTime
    BY <1>2 DEF TimeSpec
  <2>2. DayLen \in Nat \ {0} /\ SunsetIsTime
    BY <1>2, TimersAssumption DEF TimersAssumption
  <2>3. \A d \in Int : parse_date_time(s.x, d, now) \in Int
    BY <2>1, <2>2, ParsedIsTime
  <2>4. \A a, p \in Int : p > 0 => after(a, p, now) \in Int
    <3> TAKE a, p \in Int
    <3>1. p > 0 => (now - a) \div p \in Int
      OBVIOUS
    <3>2. QED
      BY <3>1 DEF after
  <2>5. CASE s.kind = "once"
    <3>1. \A t \in once(s.x, now) : t \in Int
      <4>1. parse_date_time(s.x, 0, now) \in Int
        BY <2>3
      <4>2. (now - parse_date_time(s.x, 0, now)) \div DayLen + 1 \in Int
        BY <2>2, <4>1
      <4>3. QED
        BY <2>3, <4>1, <4>2 DEF once
    <3>2. QED
      BY <2>5, <3>1 DEF timer_trigger_next
  <2>6. CASE s.kind = "endless"
    <3>1. \A t \in endless(s.x, s.period, now) : t \in Int
      BY <2>1, <2>3, <2>4, <2>6 DEF endless
    <3>2. QED
      BY <2>6, <3>1 DEF timer_trigger_next
  <2>7. CASE s.kind = "ending"
    <3>1. \A t \in ending(s.x, s.period, s.y, now) : t \in Int
      <4>1. \A i \in DOMAIN day_dither(s.x, s.y) : day_dither(s.x, s.y)[i] \in Int
        BY DEF day_dither
      <4>2. s.period \in Int /\ s.period > 0
        BY <2>1, <2>7
      <4>3. QED
        BY <2>3, <2>4, <4>1, <4>2 DEF ending
    <3>2. QED
      BY <2>7, <3>1 DEF timer_trigger_next
  <2>8. QED
    BY <2>1, <2>5, <2>6, <2>7
<1>3. QED
  BY <1>1, <1>2

-----------------------------------------------------------------------------
(* The steps *)

\* What the steps of a loop do to it.
LEMMA LoopSteps ==
  ASSUME TypeInv, Timed, NEW i \in Loops
  PROVE  /\ loop[i] \in Loop /\ local(u) \in Int
         /\ Sleep(i) =>
              /\ loop[i].pc = "compute" /\ UNCHANGED <<trigger, change, u, startup>>
              /\ \E now \in Int :
                   /\ now = IF loop[i].next = none THEN startup ELSE local(u)
                   /\ \/ /\ timer_trigger_next(trigger.spec, now) = {}
                         /\ loop' = [loop EXCEPT ![i] =
                              [loop[i] EXCEPT !.pc = "ended", !.now = now]]
                      \/ \E t \in timer_trigger_next(trigger.spec, now) :
                           /\ t.next \in Int /\ t.adj \in Int
                           /\ loop' = [loop EXCEPT ![i] =
                                [loop[i] EXCEPT !.pc = "asleep", !.now = now,
                                   !.next = t.next, !.adj = t.adj, !.wake = u + t.adj - now,
                                   !.delay = 0]]
         /\ Wake(i) =>
              /\ loop[i].pc = "asleep" /\ loop[i].wake = u
              /\ UNCHANGED <<trigger, change, u, startup>>
              /\ \/ /\ i = "watch" => local(u) < loop[i].next
                    /\ \E w \in Int : loop' = [loop EXCEPT ![i] = [loop[i] EXCEPT !.wake = w]]
                 \/ \E runs \in BOOLEAN :
                      /\ runs <=> active(i, loop[i].next)
                      /\ loop' = [loop EXCEPT ![i] =
                           [loop[i] EXCEPT !.pc = "compute",
                              !.calls = <<[time |-> loop[i].next, at |-> u,
                                           before |-> loop[i].ran, runs |-> runs]>>,
                              !.ran = IF runs THEN u ELSE loop[i].ran]]
<1>1. loop \in [Loops -> Loop] /\ loop[i] \in Loop /\ startup \in Int
  BY DEF TypeInv
<1>2. local(u) \in Int /\ u \in Int
  BY ClockIs DEF TypeInv
<1>3. ASSUME Sleep(i)
      PROVE  \E now \in Int :
                   /\ now = IF loop[i].next = none THEN startup ELSE local(u)
                   /\ \/ /\ timer_trigger_next(trigger.spec, now) = {}
                         /\ loop' = [loop EXCEPT ![i] =
                              [loop[i] EXCEPT !.pc = "ended", !.now = now]]
                      \/ \E t \in timer_trigger_next(trigger.spec, now) :
                           /\ t.next \in Int /\ t.adj \in Int
                           /\ loop' = [loop EXCEPT ![i] =
                                [loop[i] EXCEPT !.pc = "asleep", !.now = now,
                                   !.next = t.next, !.adj = t.adj, !.wake = u + t.adj - now,
                                   !.delay = 0]]
  <2> DEFINE now == IF loop[i].next = none THEN startup ELSE local(u)
  <2>1. now \in Int
    BY <1>1, <1>2
  <2>2. trigger.spec \in TimeSpec
    BY TimersAssumption DEF TypeInv, TimersAssumption
  <2>3. \A t \in timer_trigger_next(trigger.spec, now) : t.next \in Int /\ t.adj \in Int
    <3> HIDE DEF now
    <3> QED BY <1>1, <2>1, <2>2, NextIsTime DEF TypeInv, Timed
  <2>4. \/ /\ timer_trigger_next(trigger.spec, now) = {}
           /\ loop' = [loop EXCEPT ![i].pc = "ended", ![i].now = now]
        \/ \E t \in timer_trigger_next(trigger.spec, now) :
             loop' = [loop EXCEPT ![i] =
                        [loop[i] EXCEPT !.pc = "asleep", !.now = now,
                           !.next = t.next, !.adj = t.adj, !.wake = u + t.adj - now,
                           !.delay = 0]]
    BY <1>3 DEF Sleep
  <2> HIDE DEF now
  <2>5. [loop EXCEPT ![i].pc = "ended", ![i].now = now]
          = [loop EXCEPT ![i] = [loop[i] EXCEPT !.pc = "ended", !.now = now]]
    BY <1>1 DEF Loop
  <2> WITNESS now \in Int
  <2>6. QED
    BY <2>3, <2>4, <2>5 DEF now
<1>4. ASSUME Wake(i)
      PROVE  \/ /\ i = "watch" => local(u) < loop[i].next
                /\ \E w \in Int : loop' = [loop EXCEPT ![i] = [loop[i] EXCEPT !.wake = w]]
             \/ \E runs \in BOOLEAN :
                  /\ runs <=> active(i, loop[i].next)
                  /\ loop' = [loop EXCEPT ![i] =
                       [loop[i] EXCEPT !.pc = "compute",
                          !.calls = <<[time |-> loop[i].next, at |-> u,
                                       before |-> loop[i].ran, runs |-> runs]>>,
                          !.ran = IF runs THEN u ELSE loop[i].ran]]
  <2> DEFINE l == loop[i]
             until == IF i = "cycle" THEN l.adj ELSE l.next
             runs == active(i, l.next)
             called == <<[time |-> l.next, at |-> u, before |-> l.ran, runs |-> runs]>>
  <2>1. loop' = [loop EXCEPT ![i] =
                   IF local(u) < until THEN [l EXCEPT !.wake = u + until - local(u)]
                   ELSE [l EXCEPT !.pc = "compute", !.calls = called,
                                    !.ran = IF runs THEN u ELSE l.ran]]
    BY <1>4 DEF Wake
  <2>2. until \in Int
    BY <1>1 DEF Loop
  <2>3. CASE local(u) < until
    <3>1. u + until - local(u) \in Int
      BY <1>2, <2>2
    <3>2. loop' = [loop EXCEPT ![i] = [loop[i] EXCEPT !.wake = u + until - local(u)]]
      BY <2>1, <2>3
    <3>3. QED
      BY <2>3, <3>1, <3>2
  <2>4. CASE ~(local(u) < until)
    <3>1. loop' = [loop EXCEPT ![i] =
                     [l EXCEPT !.pc = "compute", !.calls = called,
                               !.ran = IF runs THEN u ELSE l.ran]]
      BY <2>1, <2>4
    <3>2. runs \in BOOLEAN
      BY DEF active
    <3>3. \E b \in BOOLEAN : b = runs
      BY <3>2
    <3>4. QED
      BY <3>1, <3>3
  <2>5. QED
    BY <2>3, <2>4
<1>5. QED
  BY <1>1, <1>2, <1>3, <1>4 DEF Sleep, Wake

\* Time passes for both loops.
LEMMA TickStep ==
  ASSUME TypeInv, Timed, Tick
  PROVE  /\ u' = u + 1 /\ UNCHANGED <<trigger, change, startup>> /\ loop' \in [Loops -> Loop]
         /\ \A i \in Loops :
              /\ loop[i].pc = "asleep" => loop[i].wake > u
              /\ loop[i].pc = "compute" => loop[i].next # none
              /\ loop'[i].pc = loop[i].pc /\ loop'[i].next = loop[i].next
              /\ loop'[i].wake = loop[i].wake /\ loop'[i].calls = loop[i].calls
              /\ loop'[i].now = loop[i].now
<1>1. loop \in [Loops -> Loop]
  BY DEF TypeInv
<1>2. \A i \in Loops : [loop[i] EXCEPT !.delay = @ + 1] \in Loop
  <2> TAKE i \in Loops
  <2>1. PICK l \in Loop : l = loop[i]
    BY <1>1
  <2>2. l.delay + 1 \in Int
    BY DEF Loop
  <2>3. [l EXCEPT !.delay = l.delay + 1] \in Loop
    BY <2>2 DEF Loop
  <2>4. QED
    BY <2>1, <2>3
<1>3. \A i \in Loops : loop'[i] = IF loop[i].pc = "compute"
                                   THEN [loop[i] EXCEPT !.delay = @ + 1] ELSE loop[i]
  BY DEF Tick
<1>4. loop' \in [Loops -> Loop]
  BY <1>1, <1>2 DEF Tick
<1>5. QED
  BY <1>1, <1>3, <1>4 DEF Tick, Loop

LEMMA TypeStep ==
  ASSUME TypeInv, [Next]_vars
  PROVE  TypeInv'
<1>1. /\ trigger \in Triggers /\ change \in {"none", "back", "forward"} /\ u \in Nat
      /\ Timed => startup \in Int /\ loop \in [Loops -> Loop]
  BY DEF TypeInv
<1>2. /\ UNCHANGED <<trigger, change, startup>> /\ u' \in Nat
      /\ Timed' <=> Timed
  <2>1. UNCHANGED <<trigger, change, startup>>
    BY DEF Next, Tick, Sleep, Wake, vars
  <2>2. u' = u \/ u' = u + 1
    BY DEF Next, Tick, Sleep, Wake, vars
  <2>3. Timed' <=> Timed
    BY <2>1 DEF Timed
  <2>4. QED
    BY <1>1, <2>1, <2>2, <2>3
<1>3. ASSUME Timed
      PROVE  loop' \in [Loops -> Loop]
  <2>1. CASE Tick
    BY <1>3, <2>1, TickStep
  <2>2. ASSUME NEW i \in Loops, Sleep(i)
        PROVE  loop' \in [Loops -> Loop]
    <3>1. PICK now \in Int :
            \/ loop' = [loop EXCEPT ![i] = [loop[i] EXCEPT !.pc = "ended", !.now = now]]
            \/ \E t \in timer_trigger_next(trigger.spec, now) :
                 /\ t.next \in Int /\ t.adj \in Int
                 /\ loop' = [loop EXCEPT ![i] =
                      [loop[i] EXCEPT !.pc = "asleep", !.now = now,
                         !.next = t.next, !.adj = t.adj, !.wake = u + t.adj - now,
                         !.delay = 0]]
      BY <1>3, <2>2, LoopSteps
    <3>2. loop[i] \in Loop
      BY <1>1, <1>3
    <3>3. CASE loop' = [loop EXCEPT ![i] = [loop[i] EXCEPT !.pc = "ended", !.now = now]]
      <4>1. [loop[i] EXCEPT !.pc = "ended", !.now = now] \in Loop
        BY <3>2 DEF Loop
      <4>2. QED
        BY <1>1, <1>3, <3>3, <4>1
    <3>4. ASSUME NEW next \in Int, NEW adj \in Int, NEW delay \in Int,
                 loop' = [loop EXCEPT ![i] =
                      [loop[i] EXCEPT !.pc = "asleep", !.now = now,
                         !.next = next, !.adj = adj, !.wake = u + adj - now, !.delay = delay]]
          PROVE  loop' \in [Loops -> Loop]
      <4>1. PICK wake \in Int : wake = u + adj - now
        BY <1>1
      <4>2. [loop[i] EXCEPT !.pc = "asleep", !.now = now, !.next = next, !.adj = adj,
                            !.wake = wake, !.delay = delay] \in Loop
        BY <3>2 DEF Loop
      <4>3. QED
        BY <1>1, <1>3, <3>4, <4>1, <4>2
    <3>5. 0 \in Int
      OBVIOUS
    <3>6. QED
      BY <3>1, <3>3, <3>4, <3>5, Zenon
  <2>3. ASSUME NEW i \in Loops, Wake(i)
        PROVE  loop' \in [Loops -> Loop]
    <3>1. loop[i] \in Loop
      BY <1>1, <1>3
    <3>2. \/ \E w \in Int : loop' = [loop EXCEPT ![i] = [loop[i] EXCEPT !.wake = w]]
          \/ \E runs \in BOOLEAN :
               loop' = [loop EXCEPT ![i] =
                 [loop[i] EXCEPT !.pc = "compute",
                    !.calls = <<[time |-> loop[i].next, at |-> u,
                                 before |-> loop[i].ran, runs |-> runs]>>,
                    !.ran = IF runs THEN u ELSE loop[i].ran]]
      BY <1>3, <2>3, LoopSteps
    <3>3. ASSUME NEW w \in Int, loop' = [loop EXCEPT ![i] = [loop[i] EXCEPT !.wake = w]]
          PROVE  loop' \in [Loops -> Loop]
      <4>1. [loop[i] EXCEPT !.wake = w] \in Loop
        BY <3>1 DEF Loop
      <4>2. QED
        BY <1>1, <1>3, <3>3, <4>1
    <3>4. ASSUME NEW runs \in BOOLEAN,
                 loop' = [loop EXCEPT ![i] =
                   [loop[i] EXCEPT !.pc = "compute",
                      !.calls = <<[time |-> loop[i].next, at |-> u,
                                   before |-> loop[i].ran, runs |-> runs]>>,
                      !.ran = IF runs THEN u ELSE loop[i].ran]]
          PROVE  loop' \in [Loops -> Loop]
      <4>1. [time |-> loop[i].next, at |-> u, before |-> loop[i].ran, runs |-> runs] \in Call
        BY <1>1, <3>1 DEF Loop, Call
      <4>2. \A c \in Call : <<c>> \in Seq(Call)
        OBVIOUS
      <4>3. (IF runs THEN u ELSE loop[i].ran) \in Int
        BY <1>1, <3>1 DEF Loop
      <4>4. \A cs \in Seq(Call), ran \in Int :
              [loop[i] EXCEPT !.pc = "compute", !.calls = cs, !.ran = ran] \in Loop
        BY <3>1 DEF Loop
      <4>5. QED
        BY <1>1, <1>3, <3>4, <4>1, <4>2, <4>3, <4>4
    <3>5. QED
      BY <3>2, <3>3, <3>4
  <2>4. CASE UNCHANGED vars
    BY <1>1, <1>3, <2>4 DEF vars
  <2>5. QED
    BY <2>1, <2>2, <2>3, <2>4 DEF Next
<1>4. QED
  BY <1>1, <1>2, <1>3 DEF TypeInv

\* The legacy loop of a cron trigger sleeps until the time comes.
LEMMA CronStep ==
  ASSUME TypeInv, CronInv, [Next]_vars
  PROVE  CronInv'
<1> DEFINE l == loop["watch"]
<1> SUFFICES ASSUME trigger'.spec.kind = "cron"
             PROVE  /\ l'.next = none => l'.pc = "compute" /\ startup' = local(u)'
                    /\ l'.pc = "asleep" => l'.wake = as_utc(l.next)'
                    /\ WatchOnTime'
  BY DEF CronInv
<1>1. UNCHANGED <<trigger, change, startup>>
  BY DEF Next, Tick, Sleep, Wake, vars
<1>2. /\ trigger.spec.kind = "cron" /\ Timed /\ "watch" \in Loops
      /\ trigger.spec.hour \in 0 .. DayLen - 1
  BY <1>1, TimersAssumption DEF Timed, Loops, TypeInv, TimersAssumption, TimeSpec
<1>3. /\ l.next = none => l.pc = "compute" /\ startup = local(u)
      /\ l.pc = "asleep" => l.wake = as_utc(l.next)
      /\ \A k \in DOMAIN l.calls : l.calls[k].at = as_utc(l.calls[k].time)
  BY <1>2 DEF CronInv, WatchOnTime, OnTime
<1>4. l \in Loop /\ loop \in [Loops -> Loop] /\ u \in Nat
  BY <1>2 DEF TypeInv
<1>5. /\ \A t \in Int : as_utc(t)' = as_utc(t)
      /\ u' = u => local(u)' = local(u)
  BY <1>1 DEF as_utc, local
<1>6. SUFFICES /\ l'.next = none => l'.pc = "compute" /\ u' = u
               /\ l'.next = none => l.next = none
               /\ l'.pc = "asleep" => l'.wake = as_utc(l'.next)
               /\ l' \in Loop
               /\ \A k \in DOMAIN l'.calls : l'.calls[k].at = as_utc(l'.calls[k].time)
  <2>1. l' \in Loop => l'.next \in Int /\ l'.calls \in Seq(Call)
    BY DEF Loop
  <2>2. l' \in Loop => \A k \in DOMAIN l'.calls : l'.calls[k].time \in Int
    <3>1. \A s \in Seq(Call) : \A k \in DOMAIN s : s[k] \in Call
      OBVIOUS
    <3>2. \A c \in Call : c.time \in Int
      BY DEF Call
    <3>3. QED
      BY <2>1, <3>1, <3>2
  <2>3. as_utc(l.next)' = as_utc(l'.next)
    BY <1>1 DEF as_utc
  <2>4. WatchOnTime' <=> \A k \in DOMAIN l'.calls : l'.calls[k].at = as_utc(l'.calls[k].time)
    BY <1>1, <1>2 DEF WatchOnTime, OnTime, as_utc
  <2>5. QED
    BY <1>1, <1>3, <1>5, <2>3, <2>4
<1>7. loop' \in [Loops -> Loop]
  BY <1>2, TypeStep DEF TypeInv, Timed
<1> HIDE DEF l
<1>8. CASE l' = l /\ u' = u
  BY <1>3, <1>4, <1>8
<1>9. CASE Sleep("watch")
  <2>1. PICK now \in Int :
          /\ now = IF l.next = none THEN startup ELSE local(u)
          /\ \/ timer_trigger_next(trigger.spec, now) = {}
             \/ \E t \in timer_trigger_next(trigger.spec, now) :
                  loop' = [loop EXCEPT !["watch"] =
                    [l EXCEPT !.pc = "asleep", !.now = now,
                       !.next = t.next, !.adj = t.adj, !.wake = u + t.adj - now,
                       !.delay = 0]]
    BY <1>2, <1>9, LoopSteps DEF l
  <2>2. now = local(u)
    BY <1>3, <2>1
  <2>3. PICK val \in Int :
          /\ cron(trigger.spec.hour) = {[next |-> val, adj |-> local(u) + as_utc(val) - u]}
          /\ val > local(u)
    BY <1>2, CronIs DEF TypeInv
  <2>4. timer_trigger_next(trigger.spec, now) = cron(trigger.spec.hour)
    BY <1>2 DEF timer_trigger_next
  <2>9. PICK adj : adj = local(u) + as_utc(val) - u
    OBVIOUS
  <2>10. PICK t \in {[next |-> val, adj |-> adj]} :
          loop' = [loop EXCEPT !["watch"] =
                    [l EXCEPT !.pc = "asleep", !.now = now,
                       !.next = t.next, !.adj = t.adj, !.wake = u + t.adj - now,
                       !.delay = 0]]
    <3>1. timer_trigger_next(trigger.spec, now) = {[next |-> val, adj |-> adj]}
      BY <2>3, <2>4, <2>9
    <3> HIDE DEF timer_trigger_next
    <3>2. QED
      BY <2>1, <3>1
  <2>11. t.next = val /\ t.adj = adj
    BY <2>10
  <2>12. "watch" \in DOMAIN loop
    BY <1>2, <1>4
  <2>5. l' = [l EXCEPT !.pc = "asleep", !.now = now, !.next = val, !.adj = adj,
                 !.wake = u + adj - now, !.delay = 0]
    BY <2>10, <2>11, <2>12 DEF l
  <2>6. local(u) \in Int /\ as_utc(val) \in Int /\ u - 1 <= local(u)
    BY <1>4, ClockIs DEF TypeInv
  <2>7. l'.pc = "asleep" /\ l'.next = val /\ l'.calls = l.calls
        /\ l'.wake = u + (local(u) + as_utc(val) - u) - now
    BY <1>4, <2>5, <2>9 DEF Loop
  <2>8. l'.wake = as_utc(val) /\ val # none
    BY <1>4, <2>2, <2>3, <2>6, <2>7 DEF none
  <2>13. QED
    BY <1>2, <1>3, <1>7, <2>7, <2>8 DEF l
<1>10. CASE Wake("watch")
  <2>1. /\ l.pc = "asleep" /\ l.wake = u /\ u' = u
        /\ \/ local(u) < l.next
           \/ \E runs :
                loop' = [loop EXCEPT !["watch"] =
                  [l EXCEPT !.pc = "compute",
                     !.calls = <<[time |-> l.next, at |-> u, before |-> l.ran, runs |-> runs]>>,
                     !.ran = IF runs THEN u ELSE l.ran]]
    BY <1>2, <1>10, LoopSteps DEF l
  <2>2. l.next \in Int /\ u = as_utc(l.next) /\ l.next # none
    BY <1>3, <1>4, <2>1 DEF Loop
  <2>3. ~(local(u) < l.next)
    <3>1. local(as_utc(l.next)) >= l.next /\ local(u) \in Int
      BY <1>4, <2>2, ClockIs DEF TypeInv
    <3>2. QED
      BY <2>2, <3>1
  <2>4. PICK runs :
          loop' = [loop EXCEPT !["watch"] =
            [l EXCEPT !.pc = "compute",
               !.calls = <<[time |-> l.next, at |-> u, before |-> l.ran, runs |-> runs]>>,
               !.ran = IF runs THEN u ELSE l.ran]]
    BY <2>1, <2>3
  <2>5. /\ l'.pc = "compute" /\ l'.next = l.next
        /\ l'.calls = <<[time |-> l.next, at |-> u, before |-> l.ran, runs |-> runs]>>
    BY <1>2, <1>4, <2>4 DEF l, Loop
  <2>6. l' \in Loop
    BY <1>2, <1>7 DEF l
  <2>7. QED
    BY <2>2, <2>5, <2>6
<1>11. CASE Tick
  <2>1. /\ l.pc = "compute" => l.next # none
        /\ l'.pc = l.pc /\ l'.next = l.next /\ l'.wake = l.wake /\ l'.calls = l.calls
    BY <1>2, <1>11, TickStep DEF l
  <2>2. l' \in Loop
    BY <1>2, <1>7 DEF l
  <2>3. QED
    BY <1>3, <2>1, <2>2
<1>12. CASE Sleep("cycle") \/ Wake("cycle")
  <2>1. "cycle" \in Loops /\ "cycle" # "watch"
    BY DEF Loops
  <2>2. \E r : loop' = [loop EXCEPT !["cycle"] = r]
    <3>1. CASE Sleep("cycle")
      BY <1>2, <2>1, <3>1, LoopSteps
    <3>2. CASE Wake("cycle")
      BY <1>2, <2>1, <3>2, LoopSteps
    <3>3. QED
      BY <1>12, <3>1, <3>2
  <2>3. l' = l
    BY <1>2, <1>4, <2>1, <2>2 DEF l
  <2>4. u' = u
    BY <1>12 DEF Sleep, Wake
  <2>5. QED
    BY <1>8, <2>3, <2>4
<1>13. CASE UNCHANGED vars
  BY <1>8, <1>13 DEF vars, l
<1>14. QED
  BY <1>9, <1>10, <1>11, <1>12, <1>13 DEF Next, Loops

LEMMA InitHolds == Init => TypeInv /\ CronInv
<1> SUFFICES ASSUME Init
             PROVE  TypeInv /\ CronInv
  OBVIOUS
<1>1. /\ trigger \in Triggers /\ change \in {"none", "back", "forward"} /\ u \in Nat
      /\ startup = local(u)
  BY TimersAssumption DEF Init, TimersAssumption
<1>2. local(u) \in Int
  BY <1>1, ClockIs
<1> DEFINE idle == [pc |-> "compute", now |-> local(u), next |-> none, adj |-> none,
                    wake |-> none, delay |-> 0, ran |-> none, calls |-> <<>>]
<1>3. loop = [i \in Loops |-> idle] /\ "watch" \in Loops
  BY DEF Init, Loops
<1>4. idle \in Loop /\ idle.pc = "compute" /\ idle.next = none /\ idle.calls = <<>>
  BY <1>2 DEF Loop, none
<1> HIDE DEF idle
<1>5. loop \in [Loops -> Loop] /\ loop["watch"] = idle
  BY <1>3, <1>4
<1>6. WatchOnTime
  BY <1>4, <1>5 DEF WatchOnTime, OnTime
<1>7. QED
  BY <1>1, <1>2, <1>4, <1>5, <1>6 DEF TypeInv, CronInv

\* The state has its type, and a cron trigger of the legacy loop sleeps until
\* the clock shows the time it looked up (cron and trigger_watch).
THEOREM CronInvariant == Spec => [](TypeInv /\ CronInv)
<1>1. Init => TypeInv /\ CronInv
  BY InitHolds
<1>2. TypeInv /\ CronInv /\ [Next]_vars => (TypeInv /\ CronInv)'
  BY TypeStep, CronStep
<1>3. QED
  BY <1>1, <1>2, PTL DEF Spec

\* The legacy loop calls the function of a daily cron trigger when the clock
\* shows the time, for any hour, startup and length of the day and also on a day
\* when the clock is set: "the correct timedelta to wait" (timer_trigger_next).
THEOREM WatchIsOnTime == Spec => []WatchOnTime
<1>1. TypeInv /\ CronInv => WatchOnTime
  BY DEF CronInv, WatchOnTime, OnTime
<1>2. QED
  BY <1>1, CronInvariant, PTL

-----------------------------------------------------------------------------
(* @time_active *)

\* Of two times, the one on the earlier day is the earlier.
LEMMA EarlierDay ==
  ASSUME NEW D \in Nat \ {0}, NEW a \in Int, NEW b \in Int, a \div D < b \div D
  PROVE  a < b
<1>1. PICK p \in Int, r \in 0 .. D - 1 : p = a \div D /\ a = (D * p) + r
  BY DivMod
<1>2. PICK q \in Int, s \in 0 .. D - 1 : q = b \div D /\ b = (D * q) + s
  BY DivMod
<1>3. p + 1 <= q
  BY <1>1, <1>2
<1>4. D * (p + 1) <= D * q /\ D * (p + 1) = (D * p) + D
  BY ONLY <1>3, Z3T(20)
<1>5. QED
  BY <1>1, <1>2, <1>4

\* The time of a text without a date on a day.
TimeOn(x, d) == x.offset + (DayLen * d) + IF x.time = sunset THEN Sunset(d) ELSE x.time

\* A range without dates, whose times are of their days, also with an offset,
\* and which goes over midnight every day or never.
DailyRange(r) ==
  /\ r.x.date = "none" /\ r.y.date = "none"
  /\ \A d \in Int : day(TimeOn(r.x, d)) = d /\ day(TimeOn(r.y, d)) = d
  /\ \A d, e \in Int : TimeOn(r.y, d) < TimeOn(r.x, d) => TimeOn(r.y, e) < TimeOn(r.x, e)
DailyRanges == \A t \in Triggers : \A r \in t.active : DailyRange(r)

\* What a text without a date is parsed to and what it lists.
LEMMA UndatedIs ==
  ASSUME SunsetIsTime, NEW x \in DateTime, x.date = "none"
  PROVE  /\ \A d \in Int : TimeOn(x, d) \in Int /\ At(x, d) = TimeOn(x, d)
         /\ \A now \in Int : /\ day(now) \in Int
                             /\ parse_date_time(x, 0, now) = TimeOn(x, day(now))
<1>1. DayLen \in Nat \ {0} /\ x.offset \in Int /\ x.time \in Int
  BY TimersAssumption DEF TimersAssumption, DateTime, sunset
<1>2. ASSUME NEW d \in Int
      PROVE  TimeOn(x, d) \in Int /\ At(x, d) = TimeOn(x, d)
  <2>1. DayLen * d \in Int /\ Sunset(d) \in Int
    BY <1>1 DEF SunsetIsTime
  <2>2. QED
    BY <1>1, <2>1 DEF TimeOn, At
<1>3. ASSUME NEW now \in Int
      PROVE  day(now) \in Int /\ parse_date_time(x, 0, now) = TimeOn(x, day(now))
  <2>1. day(now) \in Int
    BY <1>1 DEF day
  <2>2. PICK d \in Int : d = day(now)
    BY <2>1
  <2>3. date(x, 0, now) = d
    BY <2>2 DEF date
  <2>4. DayLen * d \in Int /\ Sunset(d) \in Int
    BY <1>1 DEF SunsetIsTime
  <2>5. QED
    BY <1>1, <2>2, <2>3, <2>4 DEF TimeOn, parse_date_time
<1>4. QED
  BY <1>2, <1>3

\* in_range finds a time in a daily range, before and after midnight.
LEMMA InRangeIsWithin ==
  ASSUME SunsetIsTime, NEW r \in TimeRange, DailyRange(r), NEW now \in Int
  PROVE  in_range(r, now) <=> Within(r, now)
<1> DEFINE X(d) == TimeOn(r.x, d)
           Y(d) == TimeOn(r.y, d)
<1>1. /\ r.x \in DateTime /\ r.y \in DateTime /\ r.x.date = "none" /\ r.y.date = "none"
      /\ DayLen \in Nat \ {0}
  BY TimersAssumption DEF TimeRange, DailyRange, TimersAssumption
<1>2. \A d \in Int : /\ X(d) \in Int /\ Y(d) \in Int /\ At(r.x, d) = X(d) /\ At(r.y, d) = Y(d)
                     /\ day(X(d)) = d /\ day(Y(d)) = d
  BY <1>1, UndatedIs DEF DailyRange
<1>3. \A t \in Int : /\ parse_date_time(r.x, 0, t) = X(day(t))
                     /\ parse_date_time(r.y, 0, t) = Y(day(t))
  BY <1>1, UndatedIs
<1>4. PICK d \in Int : d = day(now)
  BY <1>1, UndatedIs
<1>5. \A a, b \in Int : day(a) < day(b) => a < b
  BY <1>1, EarlierDay DEF day
<1>6. \A e, f \in Int : Y(e) < X(e) => Y(f) < X(f)
  BY DEF DailyRange
<1> HIDE DEF X, Y
<1>7. in_range(r, now) <=> IF X(d) <= Y(d) THEN X(d) <= now /\ now <= Y(d)
                                           ELSE now >= X(d) \/ now <= Y(d)
  BY <1>2, <1>3, <1>4 DEF in_range
<1>8. Within(r, now) <=>
        \E e \in d - 1 .. d : X(e) <= now /\ now <= IF Y(e) < X(e) THEN Y(e + 1) ELSE Y(e)
  <2>1. \A e \in d - 1 .. d : e \in Int /\ e + 1 \in Int
    OBVIOUS
  <2>2. \A e \in d - 1 .. d : /\ At(r.x, e) = X(e) /\ At(r.y, e) = Y(e)
                              /\ At(r.y, e + 1) = Y(e + 1)
    BY <1>2, <2>1
  <2>3. QED
    BY <1>4, <2>2 DEF Within
<1>9. /\ X(d - 1) < now /\ Y(d - 1) < now /\ now < X(d + 1) /\ now < Y(d + 1)
  BY <1>2, <1>4, <1>5
<1>10. \A e \in d - 1 .. d : e = d - 1 \/ e = d
  OBVIOUS
<1>11. d - 1 \in d - 1 .. d /\ d \in d - 1 .. d /\ (d - 1) + 1 = d
  OBVIOUS
<1>12. CASE X(d) <= Y(d)
  <2>1. ~(Y(d) < X(d)) /\ ~(Y(d - 1) < X(d - 1))
    BY <1>2, <1>6, <1>12
  <2>2. ~(now <= Y(d - 1))
    BY <1>2, <1>9
  <2>3. Within(r, now) <=> X(d) <= now /\ now <= Y(d)
    BY <1>8, <1>10, <1>11, <2>1, <2>2
  <2>4. QED
    BY <1>7, <1>12, <2>3
<1>13. CASE ~(X(d) <= Y(d))
  <2>1. Y(d) < X(d) /\ Y(d - 1) < X(d - 1)
    BY <1>2, <1>6, <1>13
  <2>2. X(d - 1) <= now /\ now <= Y(d + 1)
    BY <1>2, <1>9
  <2>3. Within(r, now) <=> now <= Y(d) \/ X(d) <= now
    BY <1>8, <1>10, <1>11, <2>1, <2>2
  <2>4. QED
    BY <1>2, <1>7, <1>13, <2>3
<1>14. QED
  BY <1>12, <1>13

\* Each call of the legacy loop was decided by timer_active_check and hold_off.
RunsInv ==
  \A k \in DOMAIN loop["watch"].calls :
    LET c == loop["watch"].calls[k]
    IN c.runs <=> /\ timer_active_check(trigger.active, c.time)
                  /\ c.before # none => c.at >= c.before + trigger.hold_off

LEMMA RunsStep ==
  ASSUME SunsetIsTime, TypeInv, RunsInv, [Next]_vars
  PROVE  RunsInv'
<1> DEFINE l == loop["watch"]
           Right(c) == c.runs <=> /\ timer_active_check(trigger.active, c.time)
                                  /\ c.before # none => c.at >= c.before + trigger.hold_off
<1>1. UNCHANGED <<trigger, change, startup>>
  BY DEF Next, Tick, Sleep, Wake, vars
<1>2. Timed /\ "watch" \in Loops /\ loop \in [Loops -> Loop] /\ l \in Loop /\ u \in Nat
  BY DEF TypeInv, Timed, Loops
<1>3. \A k \in DOMAIN l.calls : Right(l.calls[k])
  BY DEF RunsInv
<1>4. SUFFICES \A k \in DOMAIN l'.calls : Right(l'.calls[k])
  <2>1. \A r, now : in_range(r, now)' <=> in_range(r, now)
    BY <1>1 DEF in_range, parse_date_time
  <2>2. \A ranges, now : timer_active_check(ranges, now)' <=> timer_active_check(ranges, now)
    BY <2>1 DEF timer_active_check
  <2>3. QED
    BY <1>1, <2>2 DEF RunsInv
<1> HIDE DEF l, Right
<1>5. CASE l'.calls = l.calls
  BY <1>3, <1>5
<1>6. CASE Tick
  <2>1. l'.calls = l.calls
    BY <1>2, <1>6, TickStep DEF l
  <2>2. QED
    BY <1>5, <2>1
<1>7. CASE Sleep("watch")
  <2>1. \E r : /\ loop' = [loop EXCEPT !["watch"] = r] /\ r.calls = l.calls
    <3>1. PICK now, t :
            \/ loop' = [loop EXCEPT !["watch"] = [l EXCEPT !.pc = "ended", !.now = now]]
            \/ loop' = [loop EXCEPT !["watch"] =
                   [l EXCEPT !.pc = "asleep", !.now = now,
                       !.next = t.next, !.adj = t.adj, !.wake = u + t.adj - now,
                       !.delay = 0]]
      BY <1>2, <1>7, LoopSteps, Zenon DEF l
    <3>2. /\ [l EXCEPT !.pc = "ended", !.now = now].calls = l.calls
          /\ [l EXCEPT !.pc = "asleep", !.now = now, !.next = t.next, !.adj = t.adj,
                       !.wake = u + t.adj - now, !.delay = 0].calls = l.calls
      BY <1>2 DEF Loop
    <3>3. QED
      BY <3>1, <3>2, Zenon
  <2>2. l'.calls = l.calls
    BY <1>2, <2>1 DEF l
  <2>3. QED
    BY <1>5, <2>2
<1>8. CASE Wake("watch")
  <2>1. CASE \E w \in Int : loop' = [loop EXCEPT !["watch"] = [l EXCEPT !.wake = w]]
    <3>1. PICK w \in Int : loop' = [loop EXCEPT !["watch"] = [l EXCEPT !.wake = w]]
      BY <2>1
    <3>2. l'.calls = l.calls
      BY <1>2, <3>1 DEF l, Loop
    <3>3. QED
      BY <1>5, <3>2
  <2>2. ASSUME NEW runs \in BOOLEAN, runs <=> active("watch", l.next),
               loop' = [loop EXCEPT !["watch"] =
                 [l EXCEPT !.pc = "compute",
                    !.calls = <<[time |-> l.next, at |-> u, before |-> l.ran, runs |-> runs]>>,
                    !.ran = IF runs THEN u ELSE l.ran]]
        PROVE  \A k \in DOMAIN l'.calls : Right(l'.calls[k])
    <3> DEFINE c == [time |-> l.next, at |-> u, before |-> l.ran, runs |-> runs]
    <3>1. l'.calls = <<c>>
      BY <1>2, <2>2 DEF l, Loop
    <3>2. Right(c)
      <4>1. l.ran \in Int /\ trigger.hold_off \in Nat /\ "watch" # "cycle"
        BY <1>2, TimersAssumption DEF Loop, TypeInv, TimersAssumption
      <4>2. active("watch", l.next) <=>
              /\ l.ran = none \/ u - l.ran >= trigger.hold_off
              /\ timer_active_check(trigger.active, l.next)
        BY DEF active, l
      <4>3. u - l.ran >= trigger.hold_off <=> u >= l.ran + trigger.hold_off
        BY <1>2, <4>1
      <4>4. QED
        BY <2>2, <4>2, <4>3 DEF Right
    <3> HIDE DEF c
    <3>3. QED
      BY <3>1, <3>2
  <2>3. QED
    BY <1>2, <1>8, <2>1, <2>2, LoopSteps DEF l
<1>9. CASE Sleep("cycle") \/ Wake("cycle")
  <2>1. "cycle" \in Loops /\ "cycle" # "watch"
    BY DEF Loops
  <2>2. \E r : loop' = [loop EXCEPT !["cycle"] = r]
    <3>1. CASE Sleep("cycle")
      BY <1>2, <2>1, <3>1, LoopSteps
    <3>2. CASE Wake("cycle")
      BY <1>2, <2>1, <3>2, LoopSteps
    <3>3. QED
      BY <1>9, <3>1, <3>2
  <2>3. l' = l
    BY <1>2, <2>1, <2>2 DEF l
  <2>4. QED
    BY <1>5, <2>3
<1>10. CASE UNCHANGED vars
  BY <1>5, <1>10 DEF vars, l
<1>11. QED
  BY <1>6, <1>7, <1>8, <1>9, <1>10 DEF Next, Loops

\* The legacy loop runs the function exactly at the times that match @time_active
\* and come hold_off after it ran last, for any daily ranges, also over midnight
\* and around sunset, and with "not" (timer_active_check).
THEOREM WatchRunsRight ==
  ASSUME SunsetIsTime, DailyRanges
  PROVE  Spec => []WatchRunsWhenActive
<1>1. TypeInv /\ RunsInv => WatchRunsWhenActive
  <2> SUFFICES ASSUME TypeInv, RunsInv
               PROVE  WatchRunsWhenActive
    OBVIOUS
  <2>1. \A r \in trigger.active : r \in TimeRange /\ DailyRange(r)
    BY TimersAssumption DEF TypeInv, TimersAssumption, DailyRanges
  <2>2. \A now \in Int : timer_active_check(trigger.active, now) <=> ActiveAt(trigger.active, now)
    <3> TAKE now \in Int
    <3>1. \A r \in trigger.active : in_range(r, now) <=> Within(r, now)
      BY <2>1, InRangeIsWithin
    <3>2. QED
      BY <3>1 DEF timer_active_check, ActiveAt
  <2>3. \A k \in DOMAIN loop["watch"].calls : loop["watch"].calls[k].time \in Int
    <3>1. loop["watch"] \in Loop
      BY DEF TypeInv, Timed, Loops
    <3>2. loop["watch"].calls \in Seq(Call)
      BY <3>1 DEF Loop
    <3>3. \A s \in Seq(Call) : \A k \in DOMAIN s : s[k] \in Call
      OBVIOUS
    <3>4. \A c \in Call : c.time \in Int
      BY DEF Call
    <3>5. QED
      BY <3>2, <3>3, <3>4
  <2>4. QED
    BY <2>2, <2>3 DEF RunsInv, WatchRunsWhenActive, Ran
<1>2. Init => RunsInv
  <2>1. "watch" \in Loops
    BY DEF Loops
  <2>2. QED
    BY <2>1 DEF Init, RunsInv
<1>3. TypeInv /\ RunsInv /\ [Next]_vars => RunsInv'
  BY RunsStep
<1>4. QED
  BY <1>1, <1>2, <1>3, CronInvariant, PTL DEF Spec

-----------------------------------------------------------------------------
(* The earliest of the times to come *)

LEMMA MinIs ==
  ASSUME NEW T, T \subseteq Int, NEW t \in T, \A y \in T : t <= y
  PROVE  Min(T) = t
<1>1. T # {} /\ t \in Int
  OBVIOUS
<1>2. PICK m \in T : m = Min(T) /\ \A y \in T : m <= y
  BY <1>1, LeastInteger
<1>3. m <= t /\ t <= m /\ m \in Int
  BY <1>2
<1>4. QED
  BY <1>1, <1>2, <1>3

LEMMA Multiples ==
  ASSUME NEW D \in Nat \ {0}, NEW a \in Int, NEW b \in Int
  PROVE  /\ D * a \in Int /\ D * (a + 1) = (D * a) + D
         /\ a <= b => D * a <= D * b
         /\ D * a < D * b => a < b
BY Z3T(20)

\* after is the first multiple of the period after now.
LEMMA AfterIs ==
  ASSUME NEW p \in Nat \ {0}, NEW start \in Int, NEW now \in Int
  PROVE  /\ after(start, p, now) \in now + 1 .. now + p
         /\ (after(start, p, now) - start) % p = 0
         /\ \A y \in Int : y > now /\ (y - start) % p = 0 => after(start, p, now) <= y
<1>1. PICK k \in Int, r \in 0 .. p - 1 : k = (now - start) \div p /\ now - start = (p * k) + r
  BY DivMod
<1>2. after(start, p, now) = start + (p * (k + 1))
  BY <1>1 DEF after
<1>3. p * k \in Int /\ p * (k + 1) = (p * k) + p
  BY <1>1, Multiples
<1>4. after(start, p, now) \in now + 1 .. now + p
  BY <1>1, <1>2, <1>3
<1>5. (after(start, p, now) - start) % p = 0
  <2>1. k + 1 \in Int /\ 0 \in 0 .. p - 1
    BY <1>1
  <2>2. ((p * (k + 1)) + 0) % p = 0
    BY ONLY <2>1, p \in Nat \ {0}, TimeOfDay, Zenon
  <2>3. after(start, p, now) - start = (p * (k + 1)) + 0
    BY <1>2, <1>3
  <2>4. QED
    BY ONLY <2>2, <2>3
<1>6. ASSUME NEW y \in Int, y > now, (y - start) % p = 0
      PROVE  after(start, p, now) <= y
  <2>1. PICK j \in Int : y - start = p * j
    <3>1. y - start = (p * ((y - start) \div p)) + ((y - start) % p) /\ (y - start) \div p \in Int
      BY DivMod
    <3>2. p * ((y - start) \div p) \in Int
      BY <3>1, Multiples
    <3>3. y - start = p * ((y - start) \div p)
      BY <1>6, <3>1, <3>2
    <3>4. QED
      BY <3>1, <3>3
  <2>2. p * j \in Int
    BY <2>1, Multiples
  <2>3. p * k < p * j
    BY <1>1, <1>3, <1>6, <2>1, <2>2
  <2>4. k + 1 <= j
    <3>1. k < j
      BY <1>1, <2>1, <2>3, Multiples
    <3>2. QED
      BY <1>1, <2>1, <3>1
  <2>5. p * (k + 1) <= p * j
    BY <1>1, <2>1, <2>4, Multiples
  <2>6. QED
    BY <1>2, <1>3, <2>1, <2>2, <2>5
<1>7. QED
  BY <1>4, <1>5, <1>6

\* A time of a window that is to come, or is the startup and begins the window.
Due(start, y, now) == y > now \/ (y = now /\ now = startup /\ y = start)

\* The time that ending takes of a window, and whether the window has it.
First(start, end, p, now) ==
  IF (now < start \/ (now = start /\ now = startup)) /\ start <= end
    THEN start ELSE after(start, p, now)
Has(start, end, p, now) ==
  start <= First(start, end, p, now) /\ First(start, end, p, now) <= end

\* It is the first of the window that is due, and if the window does not have it
\* nothing is left of the window.
LEMMA FirstOfWindow ==
  ASSUME NEW p \in Nat \ {0}, NEW start \in Int, NEW end \in Int, NEW now \in Int
  PROVE  /\ First(start, end, p, now) \in Int
         /\ Has(start, end, p, now) =>
              /\ First(start, end, p, now) \in Every(start, p, end)
              /\ Due(start, First(start, end, p, now), now)
              /\ \A y \in Every(start, p, end) :
                   Due(start, y, now) => First(start, end, p, now) <= y
         /\ ~Has(start, end, p, now) => \A y \in Every(start, p, end) : ~Due(start, y, now)
<1> DEFINE t == First(start, end, p, now)
           a == after(start, p, now)
<1>1. /\ a \in Int /\ a > now /\ (a - start) % p = 0
      /\ \A y \in Int : y > now /\ (y - start) % p = 0 => a <= y
  <2>1. /\ a \in now + 1 .. now + p /\ (a - start) % p = 0
        /\ \A y \in Int : y > now /\ (y - start) % p = 0 => a <= y
    BY AfterIs
  <2> HIDE DEF a
  <2>2. QED
    BY <2>1
<1>2. (start - start) % p = 0
  <2>1. 0 % p = 0
    BY Z3T(20)
  <2>2. start - start = 0
    OBVIOUS
  <2>3. QED
    BY <2>1, <2>2
<1>3. \A y : y \in Every(start, p, end) <=>
               y \in Int /\ start <= y /\ y <= end /\ (y - start) % p = 0
  BY DEF Every
<1> HIDE DEF a
<1>4. CASE (now < start \/ (now = start /\ now = startup)) /\ start <= end
  <2>1. t = start
    BY <1>4 DEF First
  <2>2. Has(start, end, p, now)
    BY <1>4, <2>1 DEF Has
  <2>3. t \in Every(start, p, end) /\ Due(start, t, now)
    BY <1>2, <1>3, <1>4, <2>1 DEF Due
  <2>4. \A y \in Every(start, p, end) : t <= y
    BY <1>3, <2>1
  <2>5. QED
    BY <2>1, <2>2, <2>3, <2>4
<1>5. CASE ~((now < start \/ (now = start /\ now = startup)) /\ start <= end)
  <2>1. t = a
    BY <1>5 DEF First, a
  <2>2. \A y \in Every(start, p, end) : Due(start, y, now) => y > now /\ a <= y
    BY <1>1, <1>3, <1>5 DEF Due
  <2>3. Has(start, end, p, now) <=> start <= a /\ a <= end
    BY <2>1 DEF Has
  <2>4. ASSUME Has(start, end, p, now)
        PROVE  t \in Every(start, p, end) /\ Due(start, t, now)
    BY <1>1, <1>3, <2>1, <2>3, <2>4 DEF Due
  <2>5. ASSUME ~Has(start, end, p, now), NEW y \in Every(start, p, end), Due(start, y, now)
        PROVE  FALSE
    <3>1. a <= y /\ start <= y /\ y <= end /\ y \in Int
      BY <1>3, <2>2, <2>5
    <3>2. start <= a
      BY <1>1, <1>5, <3>1
    <3>3. QED
      BY <1>1, <2>3, <2>5, <3>1, <3>2
  <2>6. QED
    BY <1>1, <2>1, <2>2, <2>4, <2>5
<1>6. QED
  BY <1>4, <1>5

\* The times of a text that are to come, of which Expected is the least.
Left(s, now) ==
  {t \in Listed(s, now) :
     t > now \/ (t = now /\ now = startup /\ \E d \in Days(s.x, now) : t = At(s.x, d))}

\* What is taken is the least of what is left, and nothing if nothing is left.
Least(T, L) == (T = {} => L = {}) /\ \A t \in T : t \in L /\ \A y \in L : t <= y

\* The texts for which that holds.  once: with a date, or without one and the
\* time on its day or the same every day and at most two days off.
OnItsDay(x) == \A d \in Int : day(TimeOn(x, d)) = d
EveryDay(x) == x.time # sunset /\ x.time + x.offset \in -(2 * DayLen) .. 2 * DayLen
NeverAtStartup(x) == \A d \in Int : At(x, d) # startup
RegularOnce(x) == fixed_date(x) \/ (NeverAtStartup(x) /\ (OnItsDay(x) \/ EveryDay(x)))
RegularEndless(x) == fixed_date(x) \/ NeverAtStartup(x)
\* ending: on one date, or daily.
RegularEnding(x, y) ==
  \/ /\ fixed_date(x) /\ x.date = y.date /\ x.day = y.day
     /\ x.date = "now" \/ \A d \in Int : TimeOn(x, d) <= TimeOn(y, d)
  \/ DailyRange([x |-> x, y |-> y, negate |-> FALSE])
Regular(s) ==
  CASE s.kind = "cron" -> TRUE
    [] s.kind = "once" -> RegularOnce(s.x)
    [] s.kind = "endless" -> RegularEndless(s.x)
    [] s.kind = "ending" -> RegularEnding(s.x, s.y)

\* What a text is parsed to is a time that it lists.
LEMMA ParsedIsListed ==
  ASSUME SunsetIsTime, startup \in Int, NEW x \in DateTime, NEW now \in Int
  PROVE  /\ DayLen \in Nat \ {0} /\ day(now) \in Int /\ Days(x, now) \subseteq Int
         /\ \A d \in Int : At(x, d) \in Int /\ date(x, d, now) \in Int
                           /\ parse_date_time(x, d, now) = At(x, date(x, d, now))
         /\ date(x, 0, now) \in Days(x, now)
         /\ parse_date_time(x, 0, now) = At(x, date(x, 0, now))
         /\ fixed_date(x) => /\ \A d \in Int : date(x, d, now) = date(x, 0, now)
                             /\ Days(x, now) = {date(x, 0, now)}
         /\ ~fixed_date(x) => /\ \A d \in Int : date(x, d, now) = day(now) + d
                              /\ Days(x, now) = day(now) - 3 .. day(now) + 3
<1>1. DayLen \in Nat \ {0} /\ YearLen \in Nat \ {0}
  BY TimersAssumption DEF TimersAssumption
<1>2. \A t \in Int : day(t) \in Int
  BY <1>1 DEF day
<1>3. /\ x.date \in {"none", "full", "year", "dow", "today", "tomorrow", "now"}
      /\ x.day \in Nat /\ x.offset \in Int /\ x.time \in Int
  BY DEF DateTime, sunset
<1>4. ASSUME NEW d \in Int
      PROVE  date(x, d, now) \in Int
  <2>1. day(now) \in Int
    BY <1>2
  <2>2. day(now) \div YearLen \in Int /\ (x.day - weekday(day(now))) % 7 \in Int
    BY <1>1, <1>3, <2>1 DEF weekday
  <2>3. YearLen * (day(now) \div YearLen) \in Int
    BY <1>1, <2>2
  <2>4. QED
    BY <1>3, <2>1, <2>2, <2>3 DEF date
<1>5. ASSUME NEW d \in Int
      PROVE  At(x, d) \in Int
  <2>1. DayLen * d \in Int /\ Sunset(d) \in Int
    BY <1>1 DEF SunsetIsTime
  <2>2. QED
    BY <1>3, <2>1 DEF At
<1>6. ASSUME NEW d \in Int
      PROVE  parse_date_time(x, d, now) = At(x, date(x, d, now))
  BY DEF parse_date_time, At
<1>7. fixed_date(x) => \A d \in Int : date(x, d, now) = date(x, 0, now)
  BY <1>3 DEF fixed_date, date
<1>8. ~fixed_date(x) => \A d \in Int : date(x, d, now) = day(now) + d
  BY DEF fixed_date, date
<1>9. fixed_date(x) => Days(x, now) = {date(x, 0, now)}
  BY DEF Days, fixed_date
<1>10. ~fixed_date(x) => Days(x, now) = day(now) - 3 .. day(now) + 3
  BY DEF Days, fixed_date
<1>11. Days(x, now) \subseteq Int
  <2>1. date(x, 0, now) \in Int /\ day(now) - 3 .. day(now) + 3 \subseteq Int
    BY <1>2, <1>4
  <2>2. QED
    BY <1>9, <1>10, <2>1
<1>12. date(x, 0, now) \in Days(x, now)
  <2>1. day(now) \in day(now) - 3 .. day(now) + 3 /\ day(now) + 0 = day(now)
    BY <1>2
  <2>2. ~fixed_date(x) => date(x, 0, now) = day(now) + 0
    BY DEF fixed_date, date
  <2>3. QED
    BY <1>9, <1>10, <2>1, <2>2
<1>13. parse_date_time(x, 0, now) = At(x, date(x, 0, now))
  BY DEF parse_date_time, At
<1>14. QED
  BY <1>1, <1>2, <1>4, <1>5, <1>6, <1>7, <1>8, <1>9, <1>10, <1>11, <1>12, <1>13

LEMMA SmallDiv ==
  ASSUME NEW D \in Nat \ {0}, NEW v \in Int
  PROVE  /\ v \in -D .. -1 => v \div D = -1
         /\ v \in 0 .. D - 1 => v \div D = 0
BY Z3T(20)

LEMMA Distribute ==
  ASSUME NEW D \in Int, NEW a \in Int, NEW b \in Int
  PROVE  D * (a + b) = (D * a) + (D * b) /\ D * a \in Int /\ D * b \in Int
BY Z3T(20)

\* The day offset of once, of a time without a date, which is X[d] on day d,
DayOffset(D, today, now) == ((now - today) \div D) + 1
\* takes it to the first time after now
ToTheFirst(X, e, n, now) ==
  /\ n \in -3 .. 3 /\ X[e + n] > now
  /\ \A d \in Int : X[d] > now => X[e + n] <= X[d]
IsDay(e, D, now) == e = now \div D
OnDays(X, D) == \A d \in Int : IsDay(d, D, X[d])

\* if all times are on their days,
LEMMA OffsetOnItsDay ==
  ASSUME NEW D \in Nat \ {0}, NEW X \in [Int -> Int], OnDays(X, D),
         NEW now \in Int, NEW e \in Int, IsDay(e, D, now)
  PROVE  ToTheFirst(X, e, DayOffset(D, X[e], now), now)
<1> DEFINE n == DayOffset(D, X[e], now)
<1>1. \A c, d \in Int : c < d => X[c] < X[d]
  <2> TAKE c, d \in Int
  <2>1. PICK a \in Int, b \in Int : a = X[c] /\ b = X[d]
    OBVIOUS
  <2>2. a \div D = c /\ b \div D = d
    BY <2>1 DEF OnDays, IsDay
  <2>3. QED
    BY <2>1, <2>2, EarlierDay
<1>2. \A d \in Int : /\ d < e => X[d] < now
                     /\ e < d => now < X[d]
  <2> TAKE d \in Int
  <2>1. PICK b \in Int : b = X[d]
    OBVIOUS
  <2>2. b \div D = d /\ now \div D = e
    BY <2>1 DEF OnDays, IsDay
  <2>3. QED
    BY <2>1, <2>2, EarlierDay
<1>3. PICK x \in Int : x = X[e]
  OBVIOUS
<1>4. PICK r \in 0 .. D - 1 : now = (D * e) + r
  BY DivMod DEF IsDay
<1>5. PICK q \in 0 .. D - 1 : x = (D * e) + q
  <2>1. x \div D = e
    BY <1>3 DEF IsDay, OnDays
  <2>2. QED
    BY <2>1, DivMod
<1>6. D * e \in Int
  BY Multiples
<1>7. PICK v \in Int : v = now - x
  BY <1>3
<1>8. n = (v \div D) + 1
  BY <1>3, <1>7 DEF DayOffset
<1> HIDE DEF n
<1>9. CASE now < x
  <2>1. v \in -D .. -1
    BY <1>4, <1>5, <1>6, <1>7, <1>9
  <2>2. n = 0
    <3>1. v \div D = -1
      BY <2>1, SmallDiv
    <3>2. QED
      BY ONLY <1>8, <3>1
  <2>3. X[e + n] = x
    BY <1>3, <2>2
  <2>4. ASSUME NEW d \in Int, X[d] > now
        PROVE  x <= X[d]
    <3>1. d = e \/ e < d
      BY <1>2, <2>4
    <3>2. QED
      BY <1>1, <1>3, <3>1
  <2>5. QED
    BY <1>9, <2>2, <2>3, <2>4 DEF ToTheFirst, n
<1>10. CASE ~(now < x)
  <2>1. v \in 0 .. D - 1
    BY <1>4, <1>5, <1>6, <1>7, <1>10
  <2>2. n = 1
    <3>1. v \div D = 0
      BY <2>1, SmallDiv
    <3>2. QED
      BY ONLY <1>8, <3>1
  <2>3. X[e + n] = X[e + 1] /\ X[e + 1] > now
    BY <1>2, <2>2
  <2>4. ASSUME NEW d \in Int, X[d] > now
        PROVE  X[e + 1] <= X[d]
    <3>1. d = e + 1 \/ e + 1 < d
      BY <1>2, <1>3, <1>10, <2>4
    <3>2. QED
      BY <1>1, <3>1
  <2>5. QED
    BY <2>2, <2>3, <2>4 DEF ToTheFirst, n
<1>11. QED
  BY <1>9, <1>10

\* and if the time is the same every day, with an offset of up to two days.
LEMMA OffsetEveryDay ==
  ASSUME NEW D \in Nat \ {0}, NEW c \in -(2 * D) .. 2 * D,
         NEW X \in [Int -> Int], \A d \in Int : X[d] = (D * d) + c,
         NEW now \in Int, NEW e \in Int, IsDay(e, D, now)
  PROVE  ToTheFirst(X, e, DayOffset(D, X[e], now), now)
<1> DEFINE n == DayOffset(D, X[e], now)
<1>1. PICK r \in 0 .. D - 1 : now = (D * e) + r
  BY ONLY D \in Nat \ {0}, now \in Int, IsDay(e, D, now), DivMod DEF IsDay
<1>2. PICK v \in Int : v = r - c
  BY <1>1
<1>3. PICK k \in Int, h \in 0 .. D - 1 : k = v \div D /\ v = (D * k) + h
  BY ONLY D \in Nat \ {0}, v \in Int, DivMod
<1>4. PICK a \in Int, b \in Int : a = D * e /\ b = D * k
  BY ONLY D \in Nat \ {0}, e \in Int, k \in Int, Multiples
<1>5. X[e] = a + c
  BY ONLY \A d \in Int : X[d] = (D * d) + c, e \in Int, <1>4
<1>6. n = k + 1
  <2>1. now - X[e] = v
    BY ONLY <1>1, <1>2, <1>4, <1>5, a \in Int, c \in -(2 * D) .. 2 * D, D \in Nat
  <2>2. QED
    BY ONLY <1>3, <2>1 DEF DayOffset, n
<1> HIDE DEF n
<1>7. -3 < k /\ k < 3
  <2>1. b <= (3 * D) - 1 /\ b >= 1 - (3 * D)
    BY ONLY <1>1, <1>2, <1>3, <1>4, c \in -(2 * D) .. 2 * D, D \in Nat \ {0}
  <2>2. b < D * 3 /\ D * (-3) < b
    BY ONLY <1>4, <2>1, D \in Nat \ {0}
  <2>3. QED
    BY ONLY <1>3, <1>4, <2>2, D \in Nat \ {0}, Z3T(20)
<1>8. \A d \in Int : d > e + k => X[d] >= a + b + D + c
  <2> TAKE d \in Int
  <2> SUFFICES ASSUME d > e + k PROVE X[d] >= a + b + D + c
    OBVIOUS
  <2>1. X[d] = (D * d) + c
    OBVIOUS
  <2>2. D * d >= (D * e) + (D * k) + D
    BY ONLY D \in Nat \ {0}, d \in Int, e \in Int, k \in Int, d > e + k, Z3T(20)
  <2>3. D * d \in Int
    BY ONLY D \in Nat \ {0}, d \in Int, Multiples
  <2>4. QED
    BY ONLY <1>4, <2>1, <2>2, <2>3, D \in Nat, c \in -(2 * D) .. 2 * D
<1>9. \A d \in Int : d <= e + k => X[d] <= a + b + c
  <2> TAKE d \in Int
  <2> SUFFICES ASSUME d <= e + k PROVE X[d] <= a + b + c
    OBVIOUS
  <2>1. X[d] = (D * d) + c
    OBVIOUS
  <2>2. D * d <= (D * e) + (D * k)
    BY ONLY D \in Nat \ {0}, d \in Int, e \in Int, k \in Int, d <= e + k, Z3T(20)
  <2>3. D * d \in Int
    BY ONLY D \in Nat \ {0}, d \in Int, Multiples
  <2>4. QED
    BY ONLY <1>4, <2>1, <2>2, <2>3, D \in Nat, c \in -(2 * D) .. 2 * D
<1>10. PICK f \in Int : f = e + k + 1 /\ f = e + n
  <2>1. e + k + 1 \in Int /\ e + k + 1 = e + (k + 1)
    BY ONLY k \in Int, e \in Int
  <2>2. QED
    BY ONLY <1>6, <2>1
<1>11. X[f] = a + b + D + c
  <2>1. X[f] = (D * f) + c
    BY <1>10
  <2>2. D * f = (D * e) + (D * k) + D
    BY ONLY D \in Nat \ {0}, f \in Int, e \in Int, k \in Int, <1>10, Z3T(20)
  <2>3. QED
    BY ONLY <1>4, <2>1, <2>2
<1>12. now = a + r /\ r = (b + h) + c
  BY ONLY <1>1, <1>2, <1>3, <1>4, c \in -(2 * D) .. 2 * D, D \in Nat
<1>13. a + b + c <= now /\ now < a + b + D + c
  BY ONLY <1>3, <1>4, <1>12, c \in -(2 * D) .. 2 * D, D \in Nat
<1>14. ASSUME NEW d \in Int, X[d] > now
       PROVE  X[f] <= X[d]
  <2>1. X[d] \in Int /\ X[f] \in Int
    BY ONLY X \in [Int -> Int], d \in Int, f \in Int
  <2>2. d > e + k
    BY ONLY <1>3, <1>4, <1>9, <1>13, <1>14, <2>1, e \in Int, d \in Int, now \in Int,
            c \in -(2 * D) .. 2 * D, D \in Nat
  <2>3. QED
    BY ONLY <1>8, <1>11, <2>1, <2>2, d \in Int
<1>15. X[f] > now
  BY ONLY <1>11, <1>13, a \in Int, now \in Int
<1>16. QED
  BY ONLY <1>3, <1>6, <1>7, <1>10, <1>14, <1>15 DEF ToTheFirst, n

LEMMA OnceIsLeast ==
  ASSUME SunsetIsTime, startup \in Int, NEW s \in TimeSpec, s.kind = "once", RegularOnce(s.x),
         NEW now \in Int
  PROVE  Least(once(s.x, now), Left(s, now)) /\ Left(s, now) \subseteq Int
<1> DEFINE x == s.x
           X == [d \in Int |-> At(x, d)]
           today == parse_date_time(x, 0, now)
           n == DayOffset(DayLen, today, now)
<1>1. x \in DateTime
  BY DEF TimeSpec
<1> HIDE DEF x
<1>2. /\ DayLen \in Nat \ {0} /\ day(now) \in Int /\ Days(x, now) \subseteq Int
      /\ \A d \in Int : At(x, d) \in Int /\ date(x, d, now) \in Int
                        /\ parse_date_time(x, d, now) = At(x, date(x, d, now))
      /\ fixed_date(x) => /\ \A d \in Int : date(x, d, now) = date(x, 0, now)
                          /\ Days(x, now) = {date(x, 0, now)}
      /\ ~fixed_date(x) => /\ \A d \in Int : date(x, d, now) = day(now) + d
                           /\ Days(x, now) = day(now) - 3 .. day(now) + 3
  BY <1>1, ParsedIsListed
<1>3. \A t : t \in Left(s, now) <=>
               \E d \in Days(x, now) :
                 /\ t = At(x, d)
                 /\ t > now \/ (t = now /\ now = startup)
  <2>1. Listed(s, now) = {At(x, d) : d \in Days(x, now)}
    BY DEF Listed, x
  <2>2. QED
    BY <2>1 DEF Left, x
<1>4. today \in Int /\ n \in Int
  <2>1. today \in Int
    BY <1>2
  <2>2. (now - today) \div DayLen \in Int
    BY <1>2, <2>1
  <2>3. QED
    BY <2>1, <2>2 DEF DayOffset
<1>5. \A t : t \in once(x, now) <=>
               /\ t = IF n # 0 /\ today # startup THEN parse_date_time(x, n, now) ELSE today
               /\ now < t \/ (now = t /\ now = startup)
  BY DEF once, DayOffset
<1> HIDE DEF today, n
<1>6. Left(s, now) \subseteq Int
  BY <1>2, <1>3
<1>7. CASE fixed_date(x)
  <2>1. parse_date_time(x, n, now) = today /\ today = At(x, date(x, 0, now))
    BY <1>2, <1>4, <1>7 DEF today
  <2>2. \A t : t \in once(x, now) <=> t = today /\ (now < t \/ (now = t /\ now = startup))
    BY <1>5, <2>1
  <2>3. \A t : t \in Left(s, now) <=> t = today /\ (t > now \/ (t = now /\ now = startup))
    BY <1>2, <1>3, <1>7, <2>1
  <2>4. QED
    BY <1>4, <1>6, <2>2, <2>3 DEF Least, x
<1>8. CASE ~fixed_date(x)
  <2>1. X \in [Int -> Int]
    BY <1>2
  <2>2. PICK e \in Int : e = day(now) /\ IsDay(e, DayLen, now)
    BY <1>2 DEF IsDay, day
  <2>3. today = X[e] /\ today # startup
    <3>1. today = At(x, e) /\ NeverAtStartup(x)
      BY <1>2, <1>8, <2>2 DEF today, RegularOnce, x
    <3>2. QED
      BY <2>2, <3>1 DEF NeverAtStartup
  <2>4. ToTheFirst(X, e, n, now)
    <3>1. n = DayOffset(DayLen, X[e], now)
      BY <2>3 DEF n
    <3>2. CASE OnItsDay(x)
      <4>1. OnDays(X, DayLen)
        <5>1. x.date = "none"
          BY <1>8 DEF fixed_date
        <5>2. \A d \in Int : At(x, d) = TimeOn(x, d)
          BY <1>1, <5>1, UndatedIs
        <5>3. QED
          BY <3>2, <5>2 DEF OnDays, IsDay, OnItsDay, day
      <4>2. QED
        BY <1>2, <2>1, <2>2, <3>1, <4>1, OffsetOnItsDay
    <3>3. CASE EveryDay(x)
      <4>1. \A d \in Int : X[d] = (DayLen * d) + (x.time + x.offset)
        <5> TAKE d \in Int
        <5>1. x.date = "none" /\ x.time # sunset
          BY <1>8, <3>3 DEF fixed_date, EveryDay
        <5>2. At(x, d) = x.offset + (DayLen * d + x.time)
          BY <5>1 DEF At
        <5>3. DayLen * d \in Int /\ x.offset \in Int /\ x.time \in Int
          BY <1>1, <1>2, Multiples DEF DateTime, sunset
        <5>4. QED
          BY <5>2, <5>3
      <4>2. x.time + x.offset \in -(2 * DayLen) .. 2 * DayLen
        BY <3>3 DEF EveryDay
      <4> HIDE DEF X
      <4>3. QED
        BY <1>2, <2>1, <2>2, <3>1, <4>1, <4>2, OffsetEveryDay
    <3>4. QED
      BY <1>8, <3>2, <3>3 DEF RegularOnce, x
  <2>5. parse_date_time(x, n, now) = X[e + n] /\ X[e + n] \in Int
    BY <1>2, <1>4, <1>8, <2>2
  <2>6. \A d \in Int : X[d] = At(x, d) /\ X[d] # startup
    BY <1>8 DEF RegularOnce, NeverAtStartup, x
  <2> HIDE DEF X
  <2>7. e + 0 = e /\ e + n \in Int /\ e + n \in Days(x, now)
    <3>1. n \in -3 .. 3
      BY <2>4 DEF ToTheFirst
    <3>2. e + n \in e - 3 .. e + 3
      BY <3>1
    <3>3. QED
      BY <1>2, <1>8, <2>2, <3>1, <3>2
  <2>8. X[e + n] > now /\ \A d \in Int : X[d] > now => X[e + n] <= X[d]
    BY <2>4 DEF ToTheFirst
  <2>9. \A t : t \in once(x, now) <=> t = X[e + n]
    <3>1. n = 0 => today = X[e + n]
      BY <2>3, <2>7
    <3>2. \A t : t \in once(x, now) <=> t = X[e + n] /\ (now < t \/ (now = t /\ now = startup))
      BY <1>5, <2>3, <2>5, <3>1
    <3>3. QED
      BY <2>5, <2>8, <3>2
  <2>10. X[e + n] \in Left(s, now)
    BY <1>3, <2>6, <2>7, <2>8
  <2>11. \A y \in Left(s, now) : X[e + n] <= y
    <3> TAKE y \in Left(s, now)
    <3>1. PICK d \in Int : y = At(x, d) /\ (y > now \/ (y = now /\ now = startup))
      BY <1>2, <1>3
    <3>2. X[d] = y /\ y # startup
      BY <2>6, <3>1
    <3>3. QED
      BY <2>8, <3>1, <3>2
  <2>12. X[e + n] \in once(x, now)
    BY <2>9
  <2>13. Least(once(x, now), Left(s, now))
    BY <2>9, <2>10, <2>11, <2>12 DEF Least
  <2>14. QED
    BY <1>6, <2>13 DEF x
<1>9. QED
  BY <1>7, <1>8

LEMMA EndlessIsLeast ==
  ASSUME SunsetIsTime, startup \in Int, NEW s \in TimeSpec, s.kind = "endless",
         RegularEndless(s.x), NEW now \in Int
  PROVE  Least(endless(s.x, s.period, now), Left(s, now)) /\ Left(s, now) \subseteq Int
<1> DEFINE x == s.x
           p == s.period
           d0 == date(x, 0, now)
           start == At(x, d0)
           a == after(start, p, now)
<1>1. x \in DateTime /\ p \in Nat \ {0}
  BY DEF TimeSpec
<1> HIDE DEF x, p
<1>2. /\ d0 \in Int /\ start \in Int /\ parse_date_time(x, 0, now) = start
      /\ d0 \in Days(x, now) /\ Days(x, now) \subseteq Int
      /\ fixed_date(x) => Days(x, now) = {d0}
  <2>1. /\ Days(x, now) \subseteq Int /\ d0 \in Days(x, now)
        /\ \A d \in Int : At(x, d) \in Int
        /\ parse_date_time(x, 0, now) = start
        /\ fixed_date(x) => Days(x, now) = {d0}
    BY <1>1, ParsedIsListed
  <2> HIDE DEF d0
  <2>2. QED
    BY <2>1
<1> HIDE DEF d0, start
<1>3. /\ a \in Int /\ a > now /\ a <= now + p /\ (a - start) % p = 0
      /\ \A y \in Int : y > now /\ (y - start) % p = 0 => a <= y
  <2>1. /\ a \in now + 1 .. now + p /\ (a - start) % p = 0
        /\ \A y \in Int : y > now /\ (y - start) % p = 0 => a <= y
    BY <1>1, <1>2, AfterIs
  <2> HIDE DEF a
  <2>2. QED
    BY <1>1, <2>1
<1>4. \A t : t \in endless(x, p, now) <=>
               t = IF now < start \/ (now = start /\ now = startup) THEN start ELSE a
  BY <1>2 DEF endless
<1> HIDE DEF a
<1>5. \A t : t \in Left(s, now) <=>
               /\ t = start \/ (t \in start .. now + p /\ (t - start) % p = 0)
               /\ \/ t > now
                  \/ t = now /\ now = startup /\ \E d \in Days(x, now) : t = At(x, d)
  <2>1. Listed(s, now) = {start} \cup Every(start, p, now + p)
    BY DEF Listed, x, p, start, d0
  <2>2. QED
    BY <2>1 DEF Left, Every, x
<1>6. now = startup /\ (\E d \in Days(x, now) : now = At(x, d)) => now = start
  BY <1>2 DEF start, RegularEndless, NeverAtStartup, x
<1>7. Left(s, now) \subseteq Int
  BY <1>1, <1>2, <1>5
<1>8. CASE now < start \/ (now = start /\ now = startup)
  <2>1. start \in Left(s, now)
    BY <1>2, <1>5, <1>8 DEF start
  <2>2. \A y \in Left(s, now) : start <= y
    BY <1>1, <1>2, <1>5
  <2>3. QED
    BY <1>4, <1>7, <1>8, <2>1, <2>2 DEF Least, x, p
<1>9. CASE ~(now < start \/ (now = start /\ now = startup))
  <2>1. a \in start .. now + p
    BY <1>1, <1>2, <1>3, <1>9
  <2>2. a \in Left(s, now)
    BY <1>3, <1>5, <2>1
  <2>3. \A y \in Left(s, now) : y \in Int /\ y > now /\ (y - start) % p = 0
    BY <1>1, <1>2, <1>5, <1>6, <1>7, <1>9
  <2>4. \A y \in Left(s, now) : a <= y
    BY <1>3, <2>3
  <2>5. QED
    BY <1>4, <1>7, <1>9, <2>2, <2>4 DEF Least, x, p
<1>10. QED
  BY <1>8, <1>9

\* The end of the window that begins on a day.
EndOf(x, y, d) == IF At(y, d) < At(x, d) THEN At(y, d + 1) ELSE At(y, d)

LEMMA LeftOfWindows ==
  ASSUME NEW s, s.kind = "ending", NEW now
  PROVE  \A t : t \in Left(s, now) <=>
                  \E d \in Days(s.x, now) :
                    /\ t \in Every(At(s.x, d), s.period, EndOf(s.x, s.y, d))
                    /\ \/ t > now
                       \/ t = now /\ now = startup /\ \E e \in Days(s.x, now) : t = At(s.x, e)
<1>1. Listed(s, now) =
        UNION {Every(At(s.x, d), s.period, EndOf(s.x, s.y, d)) : d \in Days(s.x, now)}
  BY DEF Listed, EndOf
<1>2. \A t : t \in Listed(s, now) <=>
               \E d \in Days(s.x, now) : t \in Every(At(s.x, d), s.period, EndOf(s.x, s.y, d))
  BY <1>1
<1>3. QED
  BY <1>2 DEF Left

\* A window on one date.
LEMMA EndingOnDate ==
  ASSUME SunsetIsTime, startup \in Int, NEW s \in TimeSpec, s.kind = "ending",
         fixed_date(s.x) /\ s.x.date = s.y.date /\ s.x.day = s.y.day,
         s.x.date = "now" \/ \A d \in Int : TimeOn(s.x, d) <= TimeOn(s.y, d),
         NEW now \in Int
  PROVE  /\ Least(ending(s.x, s.period, s.y, now), Left(s, now))
         /\ Left(s, now) \subseteq Int
<1> DEFINE x == s.x
           y == s.y
           p == s.period
           d0 == date(x, 0, now)
           start == At(x, d0)
           end == At(y, d0)
           first == First(start, end, p, now)
<1>1. x \in DateTime /\ y \in DateTime /\ p \in Nat \ {0} /\ fixed_date(x) /\ fixed_date(y)
  BY DEF TimeSpec, fixed_date
<1>2. date(y, 0, now) = d0
  BY DEF date
<1>3. x.date = "now" \/ \A d \in Int : At(x, d) <= At(y, d)
  <2> SUFFICES ASSUME x.date # "now", NEW d \in Int
               PROVE  At(x, d) <= At(y, d)
    OBVIOUS
  <2>1. DayLen \in Nat \ {0} /\ Sunset(d) \in Int
    BY TimersAssumption DEF TimersAssumption, SunsetIsTime
  <2>2. /\ DayLen * d \in Int
        /\ x.offset \in Int /\ x.time \in Int /\ y.offset \in Int /\ y.time \in Int
    BY <1>1, <2>1, Multiples DEF DateTime, sunset
  <2>3. TimeOn(x, d) <= TimeOn(y, d) /\ y.date # "now"
    OBVIOUS
  <2>4. At(x, d) = TimeOn(x, d) /\ At(y, d) = TimeOn(y, d)
    BY <2>1, <2>2, <2>3 DEF At, TimeOn
  <2>5. QED
    BY <2>3, <2>4
<1>4. x.date = "now" => \A d : At(y, d) = y.offset + startup
  BY DEF At
<1> HIDE DEF x, y, p
<1>5. /\ d0 \in Int /\ start \in Int /\ end \in Int
      /\ parse_date_time(x, 0, now) = start /\ parse_date_time(y, 0, now) = end
      /\ Days(x, now) = {d0}
  <2>1. /\ Days(x, now) \subseteq Int /\ d0 \in Days(x, now)
        /\ \A d \in Int : At(x, d) \in Int
        /\ parse_date_time(x, 0, now) = start
        /\ Days(x, now) = {d0}
    BY <1>1, ParsedIsListed
  <2>2. /\ \A d \in Int : At(y, d) \in Int
        /\ parse_date_time(y, 0, now) = end
    BY <1>1, <1>2, ParsedIsListed
  <2> HIDE DEF d0
  <2>3. QED
    BY <2>1, <2>2
<1> HIDE DEF d0
<1>6. EndOf(x, y, d0) = end
  BY <1>3, <1>4, <1>5 DEF EndOf
<1>7. \A t : t \in Left(s, now) <=> t \in Every(start, p, end) /\ Due(start, t, now)
  <2>1. \A t : t \in Left(s, now) <=>
               \E d \in Days(x, now) :
                    /\ t \in Every(At(x, d), p, EndOf(x, y, d))
                    /\ \/ t > now
                       \/ t = now /\ now = startup /\ \E e \in Days(x, now) : t = At(x, e)
    BY LeftOfWindows DEF x, y, p
  <2>2. QED
    BY <1>5, <1>6, <2>1 DEF Due
<1>8. ending(x, p, y, now) = {first : i \in {j \in {1} : Has(start, end, p, now)}}
  <2>1. day_dither(x, y) = <<0>> /\ DOMAIN <<0>> = {1}
    BY <1>1 DEF day_dither
  <2>2. QED
    BY <1>1, <1>5, <2>1 DEF ending, First, Has
<1> HIDE DEF start, end
<1>9. /\ first \in Int
      /\ Has(start, end, p, now) =>
           /\ first \in Every(start, p, end) /\ Due(start, first, now)
           /\ \A t \in Every(start, p, end) : Due(start, t, now) => first <= t
      /\ ~Has(start, end, p, now) => \A t \in Every(start, p, end) : ~Due(start, t, now)
  BY <1>1, <1>5, FirstOfWindow
<1> HIDE DEF first
<1>10. Left(s, now) \subseteq Int
  BY <1>5, <1>7 DEF Every
<1>11. Least(ending(x, p, y, now), Left(s, now))
  BY <1>7, <1>8, <1>9 DEF Least
<1>12. QED
  BY <1>10, <1>11 DEF x, y, p

\* The windows of every day.
LEMMA EndingDaily ==
  ASSUME SunsetIsTime, startup \in Int, NEW s \in TimeSpec, s.kind = "ending",
         DailyRange([x |-> s.x, y |-> s.y, negate |-> FALSE]),
         NEW now \in Int
  PROVE  /\ Least(ending(s.x, s.period, s.y, now), Left(s, now))
         /\ Left(s, now) \subseteq Int
<1> DEFINE x == s.x
           y == s.y
           p == s.period
           X(d) == At(x, d)
           End(d) == EndOf(x, y, d)
           first(d) == First(X(d), End(d), p, now)
           has(d) == Has(X(d), End(d), p, now)
           due(d) == {t \in Every(X(d), p, End(d)) : Due(X(d), t, now)}
<1>1. /\ x \in DateTime /\ y \in DateTime /\ p \in Nat \ {0}
      /\ x.date = "none" /\ y.date = "none" /\ ~fixed_date(x) /\ ~fixed_date(y)
      /\ \A d \in Int : day(TimeOn(x, d)) = d /\ day(TimeOn(y, d)) = d
      /\ \A d, e \in Int : TimeOn(y, d) < TimeOn(x, d) => TimeOn(y, e) < TimeOn(x, e)
  BY DEF TimeSpec, fixed_date, DailyRange
<1>2. /\ \A d \in Int : /\ X(d) \in Int /\ At(y, d) \in Int
                        /\ X(d) = TimeOn(x, d) /\ At(y, d) = TimeOn(y, d)
      /\ \A d \in Int : day(X(d)) = d /\ day(At(y, d)) = d
  BY <1>1, UndatedIs
<1>3. \A d, e \in Int : At(y, d) < X(d) => At(y, e) < X(e)
  BY <1>1, <1>2
<1>4. \A a, b \in Int : day(a) < day(b) => a < b
  BY TimersAssumption, EarlierDay DEF day, TimersAssumption
<1>5. PICK D \in Int : D = day(now)
  BY <1>1, ParsedIsListed
<1>6. \A d \in Int : End(d) \in Int /\ X(d) <= End(d)
  <2> TAKE d \in Int
  <2>1. d + 1 \in Int /\ d < d + 1
    OBVIOUS
  <2>2. X(d) < At(y, d + 1)
    BY <1>2, <1>4, <2>1
  <2>3. QED
    BY <1>2, <2>1, <2>2 DEF EndOf
<1>7. \A d, e \in Int : d < e => End(d) < X(e)
  <2> TAKE d, e \in Int
  <2> SUFFICES ASSUME d < e PROVE End(d) < X(e)
    OBVIOUS
  <2>1. CASE ~(At(y, d) < X(d))
    BY <1>2, <1>4, <2>1 DEF EndOf
  <2>2. CASE At(y, d) < X(d)
    <3>1. d + 1 \in Int /\ (d + 1 = e \/ d + 1 < e)
      OBVIOUS
    <3>2. At(y, d + 1) < X(d + 1)
      BY <1>3, <2>2, <3>1
    <3>3. X(d + 1) <= X(e)
      <4>1. d + 1 < e => X(d + 1) < X(e)
        BY <1>2, <1>4, <3>1
      <4>2. QED
        BY <1>2, <3>1, <4>1
    <3>4. QED
      BY <1>2, <2>2, <3>1, <3>2, <3>3 DEF EndOf
  <2>3. QED
    BY <2>1, <2>2
<1>8. \A d \in Int : d < D - 1 => End(d) < now
  <2> TAKE d \in Int
  <2> SUFFICES ASSUME d < D - 1 PROVE End(d) < now
    OBVIOUS
  <2>1. d + 1 \in Int /\ d < day(now) /\ d + 1 < day(now)
    BY <1>5
  <2>2. At(y, d) < now /\ At(y, d + 1) < now
    BY <1>2, <1>4, <2>1
  <2>3. QED
    BY <2>2 DEF EndOf
<1>9. /\ \A d \in Int : D < d => now < X(d)
      /\ \A d \in Int : d < D => X(d) < now
  BY <1>2, <1>4, <1>5
<1>10. Days(x, now) = D - 3 .. D + 3
  BY <1>1, <1>5, ParsedIsListed
<1> HIDE DEF x, y, p
<1>11. ending(x, p, y, now) # {}
         /\ \A t \in ending(x, p, y, now) :
              \E e \in D - 1 .. D + 1 : /\ t = first(e) /\ has(e)
                                        /\ \A d \in D - 1 .. e - 1 : ~has(d)
  <2> DEFINE start(d) == parse_date_time(x, d, now)
             end_offset == IF ~fixed_date(x) /\ ~fixed_date(y)
                                /\ parse_date_time(y, 0, now) < start(0) THEN 1 ELSE 0
             end(d) == parse_date_time(y, d + end_offset, now)
             this_t(d) == IF (now < start(d) \/ (now = start(d) /\ now = startup))
                                /\ start(d) <= end(d)
                            THEN start(d) ELSE after(start(d), p, now)
             days == day_dither(x, y)
             found == {i \in DOMAIN days :
                         start(days[i]) <= this_t(days[i]) /\ this_t(days[i]) <= end(days[i])}
  <2>1. ending(x, p, y, now) = {this_t(days[i]) : i \in {j \in found : \A k \in found : j <= k}}
    BY DEF ending
  <2>2. days = <<-1, 0, 1>> /\ DOMAIN days = {1, 2, 3}
    BY <1>1 DEF day_dither
  <2>3. \A d \in Int : /\ parse_date_time(x, d, now) = X(D + d)
                       /\ parse_date_time(y, d, now) = At(y, D + d)
    <3> TAKE d \in Int
    <3>1. parse_date_time(x, d, now) = At(x, date(x, d, now)) /\ date(x, d, now) = day(now) + d
      BY <1>1, ParsedIsListed
    <3>2. parse_date_time(y, d, now) = At(y, date(y, d, now)) /\ date(y, d, now) = day(now) + d
      BY <1>1, ParsedIsListed
    <3>3. QED
      BY <1>5, <3>1, <3>2
  <2>4. \A d \in Int : end(d) = End(D + d)
    <3>1. parse_date_time(y, 0, now) = At(y, D) /\ start(0) = X(D)
      BY <1>5, <2>3
    <3> TAKE d \in Int
    <3>2. At(y, D + d) < X(D + d) <=> At(y, D) < X(D)
      BY <1>3, <1>5
    <3>3. end_offset = IF At(y, D + d) < X(D + d) THEN 1 ELSE 0
      BY <1>1, <3>1, <3>2
    <3>4. /\ parse_date_time(y, d + 1, now) = At(y, D + d + 1)
          /\ parse_date_time(y, d + 0, now) = At(y, D + d)
      <4>1. d + 1 \in Int /\ D + (d + 1) = D + d + 1 /\ d + 0 = d
        BY <1>5
      <4>2. QED
        BY <2>3, <4>1
    <3> HIDE DEF end_offset
    <3>5. QED
      BY <3>3, <3>4 DEF EndOf
  <2>5. \A d \in Int : this_t(d) = first(D + d) /\ start(d) = X(D + d)
    <3> HIDE DEF end_offset, end
    <3>1. QED
      BY <2>3, <2>4 DEF First
  <2>6. \A i \in {1, 2, 3} : /\ days[i] = i - 2 /\ days[i] \in Int
                             /\ D + days[i] = D + i - 2
    BY <1>5, <2>2
  <2> HIDE DEF start, end, this_t, days
  <2>7. \A i : i \in found <=> i \in {1, 2, 3} /\ has(D + i - 2)
    BY <2>2, <2>4, <2>5, <2>6 DEF Has
  <2> HIDE DEF found
  <2>8. has(D + 1)
    <3>1. X(D + 1) \in Int /\ now < X(D + 1) /\ X(D + 1) <= End(D + 1)
      BY <1>2, <1>5, <1>6, <1>9
    <3>2. QED
      BY <3>1 DEF First, Has
  <2>9. \E j \in found : \A k \in found : j <= k
    <3>1. 3 \in found
      BY <1>5, <2>7, <2>8
    <3>2. found \subseteq {1, 2, 3}
      BY <2>7
    <3>3. QED
      BY <3>1, <3>2
  <2>10. ASSUME NEW i \in found, \A k \in found : i <= k
         PROVE  \E e \in D - 1 .. D + 1 : /\ this_t(days[i]) = first(e) /\ has(e)
                                         /\ \A d \in D - 1 .. e - 1 : ~has(d)
    <3>1. i \in {1, 2, 3} /\ has(D + i - 2)
      BY <2>7
    <3>2. PICK e \in Int : e = D + i - 2 /\ e \in D - 1 .. D + 1
      BY <1>5, <3>1
    <3>3. this_t(days[i]) = first(e)
      BY <2>5, <2>6, <3>1, <3>2
    <3>4. \A d \in D - 1 .. e - 1 : ~has(d)
      <4> TAKE d \in D - 1 .. e - 1
      <4>1. PICK k \in Int : k = d - D + 2
        BY <1>5
      <4>2. d = D + k - 2 /\ k \in {1, 2, 3} /\ k < i
        BY <1>5, <3>1, <3>2, <4>1
      <4>3. k \notin found
        BY <2>10, <3>1, <4>2
      <4>4. QED
        BY <2>7, <4>2, <4>3
    <3>5. has(e)
      BY <3>1, <3>2
    <3>6. QED
      BY <3>2, <3>3, <3>4, <3>5
  <2>11. QED
    BY <2>1, <2>9, <2>10
<1>12. \A t : t \in Left(s, now) <=> \E d \in D - 3 .. D + 3 : t \in due(d)
  <2>1. \A t : t \in Left(s, now) <=>
               \E d \in D - 3 .. D + 3 :
                    /\ t \in Every(X(d), p, End(d))
                    /\ \/ t > now
                       \/ t = now /\ now = startup /\ \E e \in D - 3 .. D + 3 : t = X(e)
    <3>1. \A t : t \in Left(s, now) <=>
                 \E d \in Days(x, now) :
                    /\ t \in Every(X(d), p, End(d))
                    /\ \/ t > now
                       \/ t = now /\ now = startup /\ \E e \in Days(x, now) : t = X(e)
      BY LeftOfWindows, Zenon DEF x, y, p
    <3>2. QED
      BY <1>10, <3>1
  <2>2. ASSUME NEW d \in D - 3 .. D + 3, NEW e \in D - 3 .. D + 3,
               now \in Every(X(d), p, End(d)), now = X(e)
        PROVE  now = X(d)
    <3>1. d \in Int /\ e \in Int /\ X(d) <= now /\ now <= End(d)
      BY <1>5, <2>2 DEF Every
    <3>2. e = D
      BY <1>5, <1>9, <2>2, <3>1
    <3>3. ~(D < d)
      BY <1>2, <1>9, <3>1
    <3>4. ~(d < D)
      BY <1>2, <1>5, <1>6, <1>7, <2>2, <3>1, <3>2
    <3>5. QED
      BY <1>5, <2>2, <3>1, <3>2, <3>3, <3>4
  <2>3. QED
    BY <2>1, <2>2 DEF Due
<1>13. \A d \in Int : /\ first(d) \in Int
                      /\ has(d) => /\ first(d) \in due(d) /\ first(d) <= End(d)
                                   /\ \A t \in due(d) : first(d) <= t
                      /\ ~has(d) => due(d) = {}
                      /\ \A t \in due(d) : t \in Int /\ X(d) <= t /\ t <= End(d) /\ now <= t
  <2> TAKE d \in Int
  <2>1. X(d) \in Int /\ End(d) \in Int
    BY <1>2, <1>6
  <2>2. /\ first(d) \in Int
        /\ has(d) => /\ first(d) \in due(d)
                     /\ \A t \in due(d) : first(d) <= t
        /\ ~has(d) => due(d) = {}
    BY <1>1, <2>1, FirstOfWindow
  <2>3. has(d) => first(d) <= End(d)
    BY DEF Has
  <2>4. \A t \in due(d) : t \in Int /\ X(d) <= t /\ t <= End(d) /\ now <= t
    BY <2>1 DEF Every, Due
  <2>5. QED
    BY <2>2, <2>3, <2>4
<1> HIDE DEF X, End, first, has, due
<1>14. Left(s, now) \subseteq Int
  BY <1>5, <1>12, <1>13
<1>15. ASSUME NEW t \in ending(x, p, y, now)
       PROVE  t \in Left(s, now) /\ \A z \in Left(s, now) : t <= z
  <2>1. PICK e \in D - 1 .. D + 1 : /\ t = first(e) /\ has(e)
                                    /\ \A d \in D - 1 .. e - 1 : ~has(d)
    BY <1>11, <1>15
  <2>2. e \in Int /\ e \in D - 3 .. D + 3
    BY <1>5, <2>1
  <2>3. t \in Left(s, now)
    BY <1>12, <1>13, <2>1, <2>2
  <2>4. ASSUME NEW z \in Left(s, now)
        PROVE  t <= z
    <3>1. PICK d \in D - 3 .. D + 3 : z \in due(d)
      BY <1>12
    <3>2. d \in Int /\ (d < D - 1 \/ d \in D - 1 .. e - 1 \/ d = e \/ e < d)
      BY <1>5, <2>2
    <3>3. ~(d < D - 1)
      BY <1>6, <1>8, <1>13, <3>1, <3>2
    <3>4. d \notin D - 1 .. e - 1
      BY <1>13, <2>1, <3>1, <3>2
    <3>5. CASE d = e
      BY <1>13, <2>1, <2>2, <3>1, <3>5
    <3>6. CASE e < d
      <4>1. X(d) \in Int /\ End(e) \in Int /\ End(e) < X(d) /\ X(d) <= z /\ z \in Int
        BY <1>2, <1>6, <1>7, <1>13, <2>2, <3>1, <3>2, <3>6
      <4>2. t \in Int /\ t <= End(e)
        BY <1>13, <2>1, <2>2
      <4>3. QED
        BY <4>1, <4>2
    <3>7. QED
      BY <3>2, <3>3, <3>4, <3>5, <3>6
  <2>5. QED
    BY <2>3, <2>4
<1>16. Least(ending(x, p, y, now), Left(s, now))
  BY <1>11, <1>15 DEF Least
<1>17. QED
  BY <1>14, <1>16 DEF x, y, p

\* For a regular text, timer_trigger_next finds the earliest time that the text
\* lists and that is still to come.
LEMMA NextIsExpected ==
  ASSUME SunsetIsTime, startup \in Int, NEW s \in TimeSpec, s.kind # "cron", Regular(s),
         NEW now \in Int
  PROVE  /\ timer_trigger_next(s, now) = {} => Expected(s, now) = none
         /\ \A t \in timer_trigger_next(s, now) : t.next = Expected(s, now)
<1>1. s.kind \in {"once", "endless", "ending"}
  BY DEF TimeSpec
<1>2. ASSUME NEW T, Least(T, Left(s, now)), Left(s, now) \subseteq Int
      PROVE  /\ {[next |-> t, adj |-> t] : t \in T} = {} => Expected(s, now) = none
             /\ \A r \in {[next |-> t, adj |-> t] : t \in T} : r.next = Expected(s, now)
  <2>1. Expected(s, now) = IF Left(s, now) = {} THEN none ELSE Min(Left(s, now))
    BY DEF Expected, Left
  <2>2. T = {} => Left(s, now) = {}
    BY <1>2 DEF Least
  <2>3. ASSUME NEW t \in T
        PROVE  t = Expected(s, now)
    <3>1. t \in Left(s, now) /\ \A y \in Left(s, now) : t <= y
      BY <1>2, <2>3 DEF Least
    <3>2. Min(Left(s, now)) = t
      BY <1>2, <3>1, MinIs
    <3>3. QED
      BY <2>1, <3>1, <3>2
  <2>4. \A r \in {[next |-> t, adj |-> t] : t \in T} : r.next = Expected(s, now)
    BY <2>3
  <2>5. {[next |-> t, adj |-> t] : t \in T} = {} => T = {}
    OBVIOUS
  <2>6. QED
    BY ONLY <2>1, <2>2, <2>4, <2>5, Zenon
<1>3. CASE s.kind = "once"
  <2>1. timer_trigger_next(s, now) = {[next |-> t, adj |-> t] : t \in once(s.x, now)}
    BY <1>3 DEF timer_trigger_next
  <2>2. Least(once(s.x, now), Left(s, now)) /\ Left(s, now) \subseteq Int
    BY <1>3, OnceIsLeast DEF Regular
  <2>3. QED
    BY ONLY <1>2, <2>1, <2>2, Zenon
<1>4. CASE s.kind = "endless"
  <2>1. timer_trigger_next(s, now) =
          {[next |-> t, adj |-> t] : t \in endless(s.x, s.period, now)}
    BY <1>4 DEF timer_trigger_next
  <2>2. Least(endless(s.x, s.period, now), Left(s, now)) /\ Left(s, now) \subseteq Int
    BY <1>4, EndlessIsLeast DEF Regular
  <2>3. QED
    BY ONLY <1>2, <2>1, <2>2, Zenon
<1>5. CASE s.kind = "ending"
  <2>1. timer_trigger_next(s, now) =
          {[next |-> t, adj |-> t] : t \in ending(s.x, s.period, s.y, now)}
    BY <1>5 DEF timer_trigger_next
  <2>2. Least(ending(s.x, s.period, s.y, now), Left(s, now)) /\ Left(s, now) \subseteq Int
    <3>1. RegularEnding(s.x, s.y)
      BY <1>5 DEF Regular
    <3>2. QED
      BY <1>5, <3>1, EndingOnDate, EndingDaily DEF RegularEnding
  <2>3. QED
    BY ONLY <1>2, <2>1, <2>2, Zenon
<1>6. QED
  BY <1>1, <1>3, <1>4, <1>5

\* What the loops wait for.
TimesInv == Regular(trigger.spec) => NextIsLeast

LEMMA TimesStep ==
  ASSUME SunsetIsTime, TypeInv, TimesInv, [Next]_vars
  PROVE  TimesInv'
<1> DEFINE s == trigger.spec
           Waits(l) == /\ l.pc = "asleep" => l.next = Expected(s, l.now)
                       /\ l.pc = "ended" => Expected(s, l.now) = none
<1>1. UNCHANGED <<trigger, change, startup>>
  BY DEF Next, Tick, Sleep, Wake, vars
<1>2. /\ Timed /\ loop \in [Loops -> Loop] /\ startup \in Int /\ u \in Nat
      /\ \A i \in Loops : loop[i] \in Loop
  BY DEF TypeInv, Timed
<1>3. Regular(s)' <=> Regular(s)
  BY <1>1 DEF Regular, RegularOnce, RegularEndless, RegularEnding, NeverAtStartup, At
<1>4. \A n : Expected(s, n)' = Expected(s, n)
  <2> SUFFICES ASSUME NEW n PROVE Expected(s, n)' = Expected(s, n)
    OBVIOUS
  <2>1. QED
    BY <1>1, SMT DEF Expected, Listed, At, Days, Every, date, day
<1> SUFFICES ASSUME Regular(s), s.kind # "cron", NEW i \in Loops
             PROVE  Waits(loop'[i])
  BY <1>1, <1>3, <1>4 DEF TimesInv, NextIsLeast
<1>5. \A j \in Loops : Waits(loop[j])
  BY DEF TimesInv, NextIsLeast
<1> HIDE DEF Waits
<1>6. CASE loop'[i] = loop[i]
  BY <1>5, <1>6
<1>7. CASE Tick
  <2>1. /\ loop'[i].pc = loop[i].pc /\ loop'[i].next = loop[i].next
        /\ loop'[i].now = loop[i].now
    BY <1>2, <1>7, TickStep
  <2>2. QED
    BY <1>5, <2>1 DEF Waits
<1>8. ASSUME NEW j \in Loops, Sleep(j)
      PROVE  Waits(loop'[i])
  <2>1. PICK now \in Int :
          \/ /\ timer_trigger_next(trigger.spec, now) = {}
             /\ loop' = [loop EXCEPT ![j] = [loop[j] EXCEPT !.pc = "ended", !.now = now]]
          \/ \E t \in timer_trigger_next(trigger.spec, now) :
               loop' = [loop EXCEPT ![j] =
                          [loop[j] EXCEPT !.pc = "asleep", !.now = now,
                             !.next = t.next, !.adj = t.adj, !.wake = u + t.adj - now,
                             !.delay = 0]]
    <3>1. PICK now \in Int :
                   /\ now = IF loop[j].next = none THEN startup ELSE local(u)
                   /\ \/ /\ timer_trigger_next(trigger.spec, now) = {}
                         /\ loop' = [loop EXCEPT ![j] =
                              [loop[j] EXCEPT !.pc = "ended", !.now = now]]
                      \/ \E t \in timer_trigger_next(trigger.spec, now) :
                           /\ t.next \in Int /\ t.adj \in Int
                           /\ loop' = [loop EXCEPT ![j] =
                                [loop[j] EXCEPT !.pc = "asleep", !.now = now,
                                   !.next = t.next, !.adj = t.adj, !.wake = u + t.adj - now,
                                   !.delay = 0]]
      BY <1>2, <1>8, LoopSteps
    <3>2. QED
      BY <3>1, Zenon
  <2>2. /\ timer_trigger_next(s, now) = {} => Expected(s, now) = none
        /\ \A t \in timer_trigger_next(s, now) : t.next = Expected(s, now)
    <3>1. s \in TimeSpec
      BY TimersAssumption DEF TypeInv, TimersAssumption
    <3>2. QED
      BY <1>2, <3>1, NextIsExpected
  <2> HIDE DEF s
  <2>3. CASE i # j
    <3>1. \E r : loop' = [loop EXCEPT ![j] = r]
      BY <2>1
    <3>2. loop'[i] = loop[i]
      BY <1>2, <2>3, <3>1
    <3>3. QED
      BY <1>6, <3>2
  <2>4. CASE /\ i = j /\ timer_trigger_next(trigger.spec, now) = {}
             /\ loop' = [loop EXCEPT ![j] = [loop[j] EXCEPT !.pc = "ended", !.now = now]]
    <3>1. loop'[i].pc = "ended" /\ loop'[i].now = now
      BY <1>2, <2>4 DEF Loop
    <3>2. QED
      BY <2>2, <2>4, <3>1 DEF Waits, s
  <2>5. ASSUME i = j, NEW t \in timer_trigger_next(trigger.spec, now),
               loop' = [loop EXCEPT ![j] =
                          [loop[j] EXCEPT !.pc = "asleep", !.now = now,
                             !.next = t.next, !.adj = t.adj, !.wake = u + t.adj - now,
                             !.delay = 0]]
        PROVE  Waits(loop'[i])
    <3>1. loop'[i].pc = "asleep" /\ loop'[i].now = now /\ loop'[i].next = t.next
      BY <1>2, <2>5 DEF Loop
    <3>2. QED
      BY <2>2, <2>5, <3>1 DEF Waits, s
  <2>6. QED
    BY <2>1, <2>3, <2>4, <2>5
<1>9. ASSUME NEW j \in Loops, Wake(j)
      PROVE  Waits(loop'[i])
  <2>1. loop[j].pc = "asleep" /\ loop[j] \in Loop
    BY <1>2, <1>9, LoopSteps
  <2>2. \E r : /\ loop' = [loop EXCEPT ![j] = r]
               /\ r.pc \in {"asleep", "compute"}
               /\ r.next = loop[j].next /\ r.now = loop[j].now
    <3>1. CASE \E w \in Int : loop' = [loop EXCEPT ![j] = [loop[j] EXCEPT !.wake = w]]
      <4>1. PICK w \in Int : loop' = [loop EXCEPT ![j] = [loop[j] EXCEPT !.wake = w]]
        BY <3>1
      <4>2. PICK r : r = [loop[j] EXCEPT !.wake = w]
        OBVIOUS
      <4>3. r.pc = "asleep" /\ r.next = loop[j].next /\ r.now = loop[j].now
        BY <2>1, <4>2 DEF Loop
      <4>4. QED
        BY <4>1, <4>2, <4>3
    <3>2. CASE \E runs \in BOOLEAN :
                 loop' = [loop EXCEPT ![j] =
                   [loop[j] EXCEPT !.pc = "compute",
                      !.calls = <<[time |-> loop[j].next, at |-> u,
                                   before |-> loop[j].ran, runs |-> runs]>>,
                      !.ran = IF runs THEN u ELSE loop[j].ran]]
      <4>1. PICK runs, r :
                 /\ loop' = [loop EXCEPT ![j] = r]
                 /\ r = [loop[j] EXCEPT !.pc = "compute",
                      !.calls = <<[time |-> loop[j].next, at |-> u,
                                   before |-> loop[j].ran, runs |-> runs]>>,
                      !.ran = IF runs THEN u ELSE loop[j].ran]
        BY <3>2, Zenon
      <4>2. r.pc = "compute" /\ r.next = loop[j].next /\ r.now = loop[j].now
        BY <2>1, <4>1 DEF Loop
      <4>3. QED
        BY <4>1, <4>2
    <3>3. QED
      BY <1>2, <1>9, <3>1, <3>2, LoopSteps, Zenon
  <2>3. QED
    <3>1. CASE i # j
      <4>1. loop'[i] = loop[i]
        BY <1>2, <2>2, <3>1
      <4>2. QED
        BY <1>6, <4>1
    <3>2. CASE i = j
      <4>1. /\ loop'[i].pc \in {"asleep", "compute"}
            /\ loop'[i].next = loop[i].next /\ loop'[i].now = loop[i].now
        BY <1>2, <2>2, <3>2
      <4>2. QED
        BY <1>5, <2>1, <3>2, <4>1 DEF Waits
    <3>3. QED
      BY <3>1, <3>2
<1>10. CASE UNCHANGED vars
  BY <1>6, <1>10 DEF vars
<1>11. QED
  BY <1>7, <1>8, <1>9, <1>10 DEF Next

\* For a regular text each loop waits for the earliest of the times the text
\* lists that is still to come, and ends only if there is none: for any period,
\* date, time and start, and for any sunset that stays on its day
\* (timer_trigger_next).
THEOREM NextIsRight ==
  ASSUME SunsetIsTime
  PROVE  Spec => [](Regular(trigger.spec) => NextIsLeast)
<1>1. Init => TimesInv
  BY DEF Init, TimesInv, NextIsLeast
<1>2. TypeInv /\ TimesInv /\ [Next]_vars => TimesInv'
  BY TimesStep
<1>3. TimesInv <=> (Regular(trigger.spec) => NextIsLeast)
  BY DEF TimesInv
<1>4. QED
  BY <1>1, <1>2, <1>3, CronInvariant, PTL DEF Spec
=============================================================================
