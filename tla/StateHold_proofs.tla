-------------------------- MODULE StateHold_proofs --------------------------
(* Proofs about StateHold, for any values of state_hold and state_hold_false *)
(* and any times.                                                          *)
EXTENDS StateHold, TLAPS

Time == Nat \cup {None}
Kinds == {"any", "values", "neither"}
Config == [hold : Hold, hold_false : HoldFalse, check_now : BOOLEAN,
           expr : BOOLEAN, mode : {"decorator", "wait_until"}]
Decorator == [true_at : Time, false_at : Time, fires : Nat, ended : BOOLEAN,
              hold_false : Time]

Legacy == [since : Time, false_at : Time, fires : Nat, ended : BOOLEAN]

\* Everything but the legacy state has its type.
Typed ==
  /\ cfg \in Config
  /\ now \in Nat
  /\ truth \in BOOLEAN
  /\ dm \in Decorator
  /\ seen \subseteq Kinds
  /\ first \in Time
  /\ armed \in BOOLEAN
  /\ falseAt \in Time

\* A hold that runs began at or after the first trigger of the true time.
HoldInTime ==
  /\ dm.true_at # None => /\ cfg.hold # None /\ dm.true_at <= now
                          /\ first # None /\ first <= dm.true_at
  /\ dm.ended => dm.true_at = None
  /\ first # None => first <= now

\* Where EdgeTriggered speaks: state_hold_false, and only values changed.
ValuesOnly == /\ cfg.hold_false # None /\ cfg.expr /\ seen \subseteq {"values"}
              /\ ~(waits /\ cfg.check_now)

\* The decorator knows since when the expression is false, and a hold that
\* runs began with a rise.
EdgeKept ==
  /\ truth <=> falseAt = None
  /\ ValuesOnly => /\ dm.hold_false = cfg.hold_false
                   /\ dm.true_at # None => armed
                   /\ ~dm.ended => dm.false_at = falseAt

\* Without state_hold_false the hold began at the first trigger.
FirstIsHeld ==
  (cfg.hold # None /\ cfg.hold_false = None /\ "neither" \notin seen /\ ~dm.ended)
    => dm.hold_false = None /\ (first # None => dm.true_at = first)

HoldInv == Typed /\ HoldInTime /\ EdgeKept /\ FirstIsHeld

-----------------------------------------------------------------------------
(* What the operators do to each field *)

\* fire at the end of a hold: the hold is over, one more fire, and the end of
\* a task.wait_until.
LEMMA FireFields ==
  ASSUME HoldAssumption, NEW x \in Decorator
  PROVE  LET c == fire([x EXCEPT !.true_at = None])
         IN /\ c \in Decorator /\ c.true_at = None /\ c.fires = x.fires + 1
            /\ c.ended = waits /\ c.false_at = x.false_at
            /\ c.hold_false = x.hold_false
<1> DEFINE y == [x EXCEPT !.true_at = None]
           w == waits
<1>1. w \in BOOLEAN
  BY DEF waits
<1>2. y \in Decorator
  BY DEF Decorator, Time
<1>3. /\ y.true_at = None /\ y.fires = x.fires
      /\ y.false_at = x.false_at /\ y.hold_false = x.hold_false
  BY DEF Decorator, Time
<1> DEFINE f == y.fires + 1
           v == [y EXCEPT !.fires = f, !.ended = w]
<1>4. fire([x EXCEPT !.true_at = None]) = v
  BY DEF fire
<1>5. f \in Nat
  BY <1>2 DEF Decorator
<1> HIDE DEF y, w, f
<1>6. v \in Decorator
  BY <1>1, <1>2, <1>5 DEF Decorator
<1>7. v.ended = w
  BY <1>1, <1>2, <1>5 DEF Decorator
<1>8. /\ v.true_at = y.true_at /\ v.fires = f
      /\ v.false_at = y.false_at /\ v.hold_false = y.hold_false
  BY <1>1, <1>2, <1>5 DEF Decorator
<1> HIDE DEF v
<1>9. v.ended = waits
  BY <1>7 DEF w
<1>10. v.fires = x.fires + 1
  BY <1>3, <1>8 DEF f
<1>11. QED
  BY <1>3, <1>4, <1>6, <1>8, <1>9, <1>10

\* check_new_state sorted by what it decides (decorators/state.py:152-207).
LEMMA CheckFields ==
  ASSUME HoldAssumption, cfg \in Config, NEW d \in Decorator, NEW t \in Nat,
         NEW ok \in BOOLEAN
  PROVE  LET c == check_new_state(d, ok, t)
             due == cfg.hold = None \/ (d.true_at # None /\ t - d.true_at >= cfg.hold)
             passed == hold_false_passed(d, t)
             used == IF d.hold_false = None \/ ~cfg.expr THEN d.false_at ELSE None
         IN /\ c \in Decorator
            /\ c.hold_false = d.hold_false
            /\ ~ok => /\ c.true_at = None /\ c.fires = d.fires /\ c.ended = d.ended
                      /\ c.false_at = IF d.hold_false # None /\ d.false_at = None
                                        THEN t ELSE d.false_at
            /\ ok => c.false_at = used
            /\ ok /\ ~passed => /\ c.true_at = d.true_at /\ c.fires = d.fires
                                /\ c.ended = d.ended
            /\ ok /\ passed /\ due => /\ c.true_at = None /\ c.fires = d.fires + 1
                                      /\ c.ended = waits
            /\ ok /\ passed /\ ~due => /\ c.fires = d.fires /\ c.ended = d.ended
                                       /\ c.true_at = IF d.true_at = None THEN t
                                                                     ELSE d.true_at
<1> DEFINE due == cfg.hold = None \/ (d.true_at # None /\ t - d.true_at >= cfg.hold)
           e == IF d.hold_false = None \/ ~cfg.expr THEN d ELSE [d EXCEPT !.false_at = None]
<1>1. e \in Decorator /\ e.true_at = d.true_at /\ e.fires = d.fires /\ e.ended = d.ended
        /\ e.hold_false = d.hold_false
        /\ e.false_at = IF d.hold_false = None \/ ~cfg.expr THEN d.false_at ELSE None
  BY DEF Decorator, Time
<1>2. CASE ~ok
  <2>1. check_new_state(d, ok, t) =
          [d EXCEPT !.true_at = None, !.false_at =
             IF d.hold_false # None /\ @ = None THEN t ELSE @]
    BY <1>2 DEF check_new_state
  <2>2. QED
    BY <1>2, <2>1 DEF Decorator, Time
<1>3. CASE ok /\ ~hold_false_passed(d, t)
  <2>1. check_new_state(d, ok, t) = e
    BY <1>3 DEF check_new_state
  <2>2. QED
    BY <1>1, <1>3, <2>1
<1>4. CASE ok /\ hold_false_passed(d, t) /\ due
  <2>1. check_new_state(d, ok, t) = fire([e EXCEPT !.true_at = None])
    BY <1>4 DEF check_new_state
  <2> HIDE DEF e
  <2>3. LET x == fire([e EXCEPT !.true_at = None])
        IN /\ x \in Decorator /\ x.true_at = None /\ x.fires = e.fires + 1
           /\ x.ended = waits /\ x.false_at = e.false_at
           /\ x.hold_false = e.hold_false
    BY <1>1, FireFields
  <2> DEFINE c == check_new_state(d, ok, t)
  <2>4. /\ c \in Decorator /\ c.true_at = None /\ c.fires = e.fires + 1
        /\ c.ended = waits /\ c.false_at = e.false_at /\ c.hold_false = e.hold_false
    BY <1>1, <2>1, <2>3
  <2> HIDE DEF c
  <2>5. /\ c \in Decorator /\ c.hold_false = d.hold_false /\ c.true_at = None
        /\ c.fires = d.fires + 1 /\ c.ended = waits
        /\ c.false_at = IF d.hold_false = None \/ ~cfg.expr THEN d.false_at ELSE None
    BY <1>1, <2>4
  <2>6. QED
    BY <1>4, <2>5 DEF c
<1>5. CASE ok /\ hold_false_passed(d, t) /\ ~due
  <2>1. check_new_state(d, ok, t) = [e EXCEPT !.true_at = IF @ = None THEN t ELSE @]
    BY <1>5 DEF check_new_state
  <2>2. QED
    BY <1>1, <1>5, <2>1 DEF Decorator, Time
<1>6. ok \in BOOLEAN /\ (hold_false_passed(d, t) \/ ~hold_false_passed(d, t))
  OBVIOUS
<1>7. QED
  BY ONLY <1>2, <1>3, <1>4, <1>5, <1>6

\* The head of _cycle (decorators/state.py:221-244): a hold it starts is one of
\* the first check, and under state_hold_false it only notes a false result.
LEMMA StartFields ==
  ASSUME HoldAssumption, cfg \in Config, NEW t \in Nat, NEW ok \in BOOLEAN
  PROVE  LET c == cycle_start(t, ok)
         IN /\ c \in Decorator
            /\ c.hold_false = IF waits /\ ok /\ cfg.check_now THEN None
                                                         ELSE cfg.hold_false
            /\ c.ended => c.true_at = None
            /\ c.true_at # None => /\ cfg.hold # None /\ cfg.check_now /\ cfg.expr
                                   /\ ok /\ c.true_at = t /\ c.fires = 0
            /\ c.hold_false # None /\ cfg.expr =>
                 c.true_at = None /\ c.false_at = IF ok THEN None ELSE t
            /\ (/\ cfg.hold # None /\ c.hold_false = None /\ cfg.expr
                /\ cfg.check_now /\ ok) => c.true_at = t
<1> DEFINE hf == IF waits /\ ok /\ cfg.check_now THEN None ELSE cfg.hold_false
           d == [true_at |-> None, false_at |-> None, fires |-> 0,
                 ended |-> FALSE, hold_false |-> hf]
           c == cycle_start(t, ok)
<1>1. hf \in Time
  BY DEF Config, HoldAssumption, Time
<1>2. cfg.hold_false = None => hf = None
  OBVIOUS
<1>3. c = CASE ~(cfg.check_now \/ cfg.hold_false # None) -> d
            [] cfg.check_now /\ cfg.expr -> check_new_state(d, ok, t)
            [] OTHER -> [d EXCEPT !.false_at =
                           IF ~ok /\ d.hold_false # None THEN t ELSE None]
  BY DEF cycle_start
<1> HIDE DEF c, hf
<1>4. /\ d \in Decorator /\ d.true_at = None /\ d.false_at = None
      /\ d.fires = 0 /\ d.ended = FALSE /\ d.hold_false = hf
  BY <1>1 DEF Decorator, Time
<1> HIDE DEF d
<1>5. CASE ~(cfg.check_now \/ cfg.hold_false # None)
  <2>1. c = d
    BY <1>3, <1>5
  <2>2. QED
    BY <1>2, <1>4, <1>5, <2>1 DEF c, hf
<1>6. CASE cfg.check_now /\ cfg.expr
  <2>1. c = check_new_state(d, ok, t)
    BY <1>3, <1>6
  <2> DEFINE due == cfg.hold = None \/ (d.true_at # None /\ t - d.true_at >= cfg.hold)
             passed == hold_false_passed(d, t)
  <2>2. due <=> cfg.hold = None
    BY <1>4
  <2>3. passed <=> hf = None
    BY <1>4, <1>6 DEF hold_false_passed
  <2>4. /\ c \in Decorator
        /\ c.hold_false = d.hold_false
        /\ ~ok => /\ c.true_at = None /\ c.fires = d.fires /\ c.ended = d.ended
                  /\ c.false_at = IF d.hold_false # None /\ d.false_at = None
                                    THEN t ELSE d.false_at
        /\ ok => c.false_at = IF d.hold_false = None \/ ~cfg.expr THEN d.false_at
                                                                  ELSE None
        /\ ok /\ ~passed => /\ c.true_at = d.true_at /\ c.fires = d.fires
                            /\ c.ended = d.ended
        /\ ok /\ passed /\ due => /\ c.true_at = None /\ c.fires = d.fires + 1
                                  /\ c.ended = waits
        /\ ok /\ passed /\ ~due => /\ c.fires = d.fires /\ c.ended = d.ended
                                   /\ c.true_at = IF d.true_at = None THEN t
                                                                 ELSE d.true_at
    BY <1>4, <2>1, CheckFields
  <2> HIDE DEF due, passed
  <2>5. c.hold_false = hf /\ (c.ended => c.true_at = None)
    BY <1>4, <2>4
  <2>6. c.true_at # None => cfg.hold # None /\ ok /\ c.true_at = t /\ c.fires = 0
    BY <1>4, <2>2, <2>4
  <2>7. c.hold_false # None =>
          c.true_at = None /\ c.false_at = IF ok THEN None ELSE t
    BY <1>4, <2>3, <2>4
  <2>8. cfg.hold # None /\ c.hold_false = None /\ ok => c.true_at = t
    BY <1>4, <2>2, <2>3, <2>4
  <2>9. QED
    BY <1>6, <2>4, <2>5, <2>6, <2>7, <2>8 DEF c, hf
<1>7. CASE (cfg.check_now \/ cfg.hold_false # None) /\ ~(cfg.check_now /\ cfg.expr)
  <2> DEFINE n == IF ~ok /\ hf # None THEN t ELSE None
  <2>1. c = [d EXCEPT !.false_at = n]
    BY <1>3, <1>4, <1>7
  <2>2. n \in Time
    BY DEF Time
  <2> HIDE DEF n
  <2>3. /\ c \in Decorator /\ c.true_at = None /\ c.fires = 0 /\ c.ended = FALSE
        /\ c.hold_false = hf /\ c.false_at = n
    BY <1>4, <2>1, <2>2 DEF Decorator
  <2>4. c.hold_false # None => c.false_at = IF ok THEN None ELSE t
    BY <2>3 DEF n
  <2>5. QED
    BY <1>7, <2>3, <2>4 DEF c, hf
<1>8. QED
  BY <1>5, <1>6, <1>7
-----------------------------------------------------------------------------
(* What a step does to the decorator *)

\* What _cycle passes to check_new_state (decorators/state.py:269-285).
Result(kind, ok) == kind = "any" \/ (kind = "values" /\ ok)
Passed == hold_false_passed(dm, now)

\* A notification while the trigger runs. No hold is due, so it fires only
\* without state_hold.
LEMMA NotifyFields ==
  ASSUME HoldAssumption, Typed, HoldInTime, ~dm.ended,
         NEW kind \in Kinds, NEW ok \in BOOLEAN, Notify(kind, ok)
  PROVE  /\ dm' \in Decorator
         /\ dm'.hold_false = dm.hold_false
         /\ ~Result(kind, ok) =>
              /\ dm'.true_at = None /\ dm'.fires = dm.fires /\ ~dm'.ended
              /\ dm'.false_at = IF dm.hold_false # None /\ dm.false_at = None
                                  THEN now ELSE dm.false_at
         /\ Result(kind, ok) =>
              dm'.false_at = IF dm.hold_false = None \/ ~cfg.expr THEN dm.false_at
                                                                  ELSE None
         /\ Result(kind, ok) /\ ~Passed =>
              dm'.true_at = dm.true_at /\ dm'.fires = dm.fires /\ ~dm'.ended
         /\ Result(kind, ok) /\ Passed /\ cfg.hold = None =>
              dm'.true_at = None /\ dm'.fires = dm.fires + 1 /\ dm'.ended = waits
         /\ Result(kind, ok) /\ Passed /\ cfg.hold # None =>
              /\ dm'.fires = dm.fires /\ ~dm'.ended
              /\ dm'.true_at = IF dm.true_at = None THEN now ELSE dm.true_at
<1> DEFINE r == Result(kind, ok)
           due == cfg.hold = None \/ (dm.true_at # None /\ now - dm.true_at >= cfg.hold)
<1>1. r \in BOOLEAN
  BY DEF Result
<1>2. dm' = check_new_state(dm, r, now)
  BY DEF Notify, cycle_notified, Result
<1>3. due <=> cfg.hold = None
  BY DEF Notify, dm_due
<1>4. cfg \in Config /\ now \in Nat /\ dm \in Decorator
  BY DEF Typed
<1> HIDE DEF r
<1>5. /\ dm' \in Decorator
      /\ dm'.hold_false = dm.hold_false
      /\ ~r => /\ dm'.true_at = None /\ dm'.fires = dm.fires /\ dm'.ended = dm.ended
               /\ dm'.false_at = IF dm.hold_false # None /\ dm.false_at = None
                                   THEN now ELSE dm.false_at
      /\ r => dm'.false_at = IF dm.hold_false = None \/ ~cfg.expr THEN dm.false_at
                                                                  ELSE None
      /\ r /\ ~Passed => /\ dm'.true_at = dm.true_at /\ dm'.fires = dm.fires
                         /\ dm'.ended = dm.ended
      /\ r /\ Passed /\ due => /\ dm'.true_at = None /\ dm'.fires = dm.fires + 1
                               /\ dm'.ended = waits
      /\ r /\ Passed /\ ~due => /\ dm'.fires = dm.fires /\ dm'.ended = dm.ended
                                /\ dm'.true_at = IF dm.true_at = None THEN now
                                                                ELSE dm.true_at
  BY <1>1, <1>2, <1>4, CheckFields DEF Passed
<1> HIDE DEF due
<1>6. QED
  BY <1>3, <1>5 DEF r

\* The timer of the hold.
LEMMA ExpiresFields ==
  ASSUME HoldAssumption, Typed, DmExpires
  PROVE  /\ dm' \in Decorator
         /\ dm'.hold_false = dm.hold_false /\ dm'.false_at = dm.false_at
         /\ dm'.true_at = None /\ dm'.fires = dm.fires + 1 /\ dm'.ended = waits
<1>1. dm \in Decorator
  BY DEF Typed
<1>2. dm' = fire([dm EXCEPT !.true_at = None])
  BY DEF DmExpires, check_state_hold
<1>3. QED
  BY <1>1, <1>2, FireFields

\* The next instant.
LEMMA TickFields ==
  ASSUME HoldAssumption, Typed, Tick
  PROVE  /\ dm' \in Decorator
         /\ dm'.hold_false = dm.hold_false /\ dm'.false_at = dm.false_at
         /\ dm'.true_at = dm.true_at /\ dm'.ended = dm.ended /\ dm'.fires = 0
BY DEF Typed, Tick, Decorator

-----------------------------------------------------------------------------
(* The invariant *)

\* The first check (the head of _cycle) establishes the invariant.
LEMMA InitHolds ==
  ASSUME HoldAssumption, Init
  PROVE  HoldInv
<1>1. cfg \in Config /\ truth \in BOOLEAN /\ now = 1 /\ now \in Nat
  BY DEF Init, Config
<1>2. dm = cycle_start(now, truth)
  BY DEF Init
<1>3. /\ dm \in Decorator
      /\ dm.hold_false = IF waits /\ truth /\ cfg.check_now THEN None
                                                       ELSE cfg.hold_false
      /\ dm.ended => dm.true_at = None
      /\ dm.true_at # None => /\ cfg.hold # None /\ cfg.check_now /\ cfg.expr
                              /\ truth /\ dm.true_at = now /\ dm.fires = 0
      /\ dm.hold_false # None /\ cfg.expr =>
           dm.true_at = None /\ dm.false_at = IF truth THEN None ELSE now
      /\ (/\ cfg.hold # None /\ dm.hold_false = None /\ cfg.expr
          /\ cfg.check_now /\ truth) => dm.true_at = now
  BY <1>1, <1>2, StartFields
<1>4. /\ first = IF cfg.expr /\ cfg.check_now /\ truth /\ dm.fires = 0
                   THEN now ELSE None
      /\ armed = FALSE /\ seen = {} /\ falseAt = IF truth THEN None ELSE now
  BY DEF Init
<1>5. None \notin Nat
  BY DEF HoldAssumption
<1>6. Typed
  BY <1>1, <1>3, <1>4 DEF Typed, Time
<1>7. HoldInTime
  BY <1>1, <1>3, <1>4, <1>5 DEF HoldInTime
<1>8. EdgeKept
  BY <1>1, <1>3, <1>4, <1>5 DEF EdgeKept, ValuesOnly
<1>9. FirstIsHeld
  BY <1>1, <1>3, <1>4, <1>5 DEF FirstIsHeld
<1>10. QED
  BY <1>6, <1>7, <1>8, <1>9 DEF HoldInv

\* A notification, before or after the end of the trigger, keeps the invariant.
LEMMA NotifyKeeps ==
  ASSUME HoldAssumption, HoldInv,
         NEW kind \in Kinds, NEW ok \in BOOLEAN, Notify(kind, ok)
  PROVE  HoldInv'
<1>1. Typed /\ HoldInTime /\ EdgeKept /\ FirstIsHeld
  BY DEF HoldInv
<1>2. /\ truth' = ok /\ seen' = seen \cup {kind} /\ cfg' = cfg /\ now' = now
      /\ first' = IF dm'.fires > dm.fires \/ (kind = "values" /\ ~ok) THEN None
                  ELSE IF first = None /\ kind # "neither" THEN now ELSE first
      /\ armed' = (ok /\ (armed \/ Rise) /\ dm'.fires = dm.fires)
      /\ falseAt' = IF ok THEN None ELSE IF falseAt = None THEN now ELSE falseAt
      /\ kind = "neither" => ok = truth
  BY DEF Notify
<1>3. None \notin Nat /\ dm.fires \in Nat
  BY <1>1 DEF HoldAssumption, Typed, Decorator
<1>4. falseAt' \in Time /\ first' \in Time /\ seen' \subseteq Kinds
  BY <1>1, <1>2 DEF Typed, Time
<1>5. armed' \in BOOLEAN
  BY <1>2
<1>6. truth' <=> falseAt' = None
  BY <1>1, <1>2, <1>3 DEF Typed
<1>7. CASE dm.ended
  <2>1. dm' = dm
    BY <1>7 DEF Notify, cycle_notified
  <2>2. Typed'
    BY <1>1, <1>2, <1>4, <1>5, <2>1 DEF Typed
  <2>3. HoldInTime'
    BY <1>1, <1>2, <1>3, <1>7, <2>1 DEF HoldInTime, Typed
  <2>4. EdgeKept'
    BY <1>1, <1>2, <1>6, <1>7, <2>1 DEF EdgeKept, ValuesOnly, waits, HoldInTime
  <2>5. FirstIsHeld'
    BY <1>7, <2>1 DEF FirstIsHeld
  <2>6. QED
    BY <2>2, <2>3, <2>4, <2>5 DEF HoldInv
<1>8. CASE ~dm.ended
  <2> DEFINE r == Result(kind, ok)
  <2>1. /\ dm' \in Decorator
        /\ dm'.hold_false = dm.hold_false
        /\ ~r => /\ dm'.true_at = None /\ dm'.fires = dm.fires /\ ~dm'.ended
                 /\ dm'.false_at = IF dm.hold_false # None /\ dm.false_at = None
                                     THEN now ELSE dm.false_at
        /\ r => dm'.false_at = IF dm.hold_false = None \/ ~cfg.expr THEN dm.false_at
                                                                    ELSE None
        /\ r /\ ~Passed =>
             dm'.true_at = dm.true_at /\ dm'.fires = dm.fires /\ ~dm'.ended
        /\ r /\ Passed /\ cfg.hold = None =>
             dm'.true_at = None /\ dm'.fires = dm.fires + 1
        /\ r /\ Passed /\ cfg.hold # None =>
             /\ dm'.fires = dm.fires /\ ~dm'.ended
             /\ dm'.true_at = IF dm.true_at = None THEN now ELSE dm.true_at
    BY <1>1, <1>8, NotifyFields
  <2>2. r => kind # "neither" /\ ~(kind = "values" /\ ~ok)
    BY DEF Result
  <2>3. ~r => kind = "neither" \/ (kind = "values" /\ ~ok)
    BY DEF Result, Kinds
  <2>4. Typed'
    BY <1>1, <1>2, <1>4, <1>5, <2>1 DEF Typed
  <2>5. HoldInTime'
    <3>1. first' # None => first' <= now
      BY <1>1, <1>2, <1>3 DEF HoldInTime, Typed
    <3>2. CASE ~r \/ (r /\ Passed /\ cfg.hold = None)
      BY <1>2, <2>1, <3>1, <3>2 DEF HoldInTime
    <3>3. CASE r /\ ~(Passed /\ cfg.hold = None)
      <4>1. ~(dm'.fires > dm.fires) /\ ~dm'.ended
        BY <1>3, <2>1, <3>3
      <4>2. first' = IF first = None THEN now ELSE first
        BY <1>2, <2>2, <3>3, <4>1
      <4>3. dm'.true_at # None => /\ cfg.hold # None /\ dm'.true_at <= now
                                  /\ first' # None /\ first' <= dm'.true_at
        BY <1>1, <1>3, <2>1, <3>3, <4>2 DEF HoldInTime, Typed, Time
      <4>4. QED
        BY <1>2, <3>1, <4>1, <4>3 DEF HoldInTime
    <3>4. QED
      BY <3>2, <3>3
  <2>6. EdgeKept'
    <3>1. ASSUME ValuesOnly'
          PROVE  /\ dm'.hold_false = cfg.hold_false
                 /\ dm'.true_at # None => armed'
                 /\ ~dm'.ended => dm'.false_at = falseAt'
      <4>1. ValuesOnly /\ kind = "values" /\ (r <=> ok)
        BY <1>2, <3>1 DEF ValuesOnly, waits, Result
      <4>2. /\ dm.hold_false = cfg.hold_false /\ cfg.hold_false # None /\ cfg.expr
            /\ dm.true_at # None => armed
            /\ dm.false_at = falseAt /\ (truth <=> falseAt = None)
        BY <1>1, <1>8, <4>1 DEF EdgeKept, ValuesOnly
      <4>3. dm'.false_at = falseAt'
        BY <1>2, <2>1, <4>1, <4>2
      <4>4. r /\ Passed => Rise
        BY <1>2, <4>1, <4>2 DEF Passed, hold_false_passed, Rise
      <4>5. dm'.true_at # None => armed'
        BY <1>2, <2>1, <4>1, <4>2, <4>4
      <4>6. QED
        BY <2>1, <4>2, <4>3, <4>5
    <3>2. QED
      BY <1>2, <1>6, <3>1 DEF EdgeKept
  <2>7. FirstIsHeld'
    <3>1. ASSUME cfg.hold # None, cfg.hold_false = None, "neither" \notin seen'
          PROVE  dm'.hold_false = None /\ (first' # None => dm'.true_at = first')
      <4>1. "neither" \notin seen /\ kind # "neither"
        BY <1>2, <3>1
      <4>2. dm.hold_false = None /\ (first # None => dm.true_at = first)
        BY <1>1, <1>8, <3>1, <4>1 DEF FirstIsHeld
      <4>3. Passed
        BY <4>2 DEF Passed, hold_false_passed
      <4>4. CASE ~r
        BY <1>2, <2>1, <2>3, <4>1, <4>2, <4>4
      <4>5. CASE r
        <5>1. /\ dm'.fires = dm.fires
              /\ dm'.true_at = IF dm.true_at = None THEN now ELSE dm.true_at
          BY <2>1, <3>1, <4>3, <4>5
        <5>2. first' = IF first = None THEN now ELSE first
          BY <1>2, <1>3, <2>2, <4>5, <5>1
        <5>3. dm.true_at # None => first # None
          BY <1>1 DEF HoldInTime
        <5>4. QED
          BY <2>1, <4>2, <5>1, <5>2, <5>3
      <4>6. QED
        BY <4>4, <4>5
    <3>2. QED
      BY <1>2, <3>1 DEF FirstIsHeld
  <2>8. QED
    BY <2>4, <2>5, <2>6, <2>7 DEF HoldInv
<1>9. QED
  BY <1>7, <1>8

\* The end of a hold keeps the invariant: nothing of it is left.
LEMMA ExpiresKeeps ==
  ASSUME HoldAssumption, HoldInv, DmExpires
  PROVE  HoldInv'
<1>1. Typed /\ HoldInTime /\ EdgeKept /\ FirstIsHeld
  BY DEF HoldInv
<1>2. /\ dm' \in Decorator
      /\ dm'.hold_false = dm.hold_false /\ dm'.false_at = dm.false_at
      /\ dm'.true_at = None
  BY <1>1, ExpiresFields
<1>3. /\ first' = None /\ armed' = FALSE /\ ~dm.ended
      /\ cfg' = cfg /\ now' = now /\ truth' = truth /\ seen' = seen
      /\ falseAt' = falseAt
  BY DEF DmExpires, dm_due
<1>4. Typed'
  BY <1>1, <1>2, <1>3 DEF Typed, Time
<1>5. HoldInTime'
  BY <1>2, <1>3 DEF HoldInTime
<1>6. EdgeKept'
  BY <1>1, <1>2, <1>3 DEF EdgeKept, ValuesOnly, waits
<1>7. FirstIsHeld'
  BY <1>1, <1>2, <1>3 DEF FirstIsHeld
<1>8. QED
  BY <1>4, <1>5, <1>6, <1>7 DEF HoldInv

\* Time passing keeps the invariant.
LEMMA TickKeeps ==
  ASSUME HoldAssumption, HoldInv, Tick
  PROVE  HoldInv'
<1>1. Typed /\ HoldInTime /\ EdgeKept /\ FirstIsHeld
  BY DEF HoldInv
<1>2. /\ dm' \in Decorator
      /\ dm'.hold_false = dm.hold_false /\ dm'.false_at = dm.false_at
      /\ dm'.true_at = dm.true_at /\ dm'.ended = dm.ended
  BY <1>1, TickFields
<1>3. /\ first' = first /\ armed' = armed /\ cfg' = cfg /\ now' = now + 1
      /\ truth' = truth /\ seen' = seen /\ falseAt' = falseAt
  BY DEF Tick, history
<1>4. Typed'
  BY <1>1, <1>2, <1>3 DEF Typed
<1>5. HoldInTime'
  BY <1>1, <1>2, <1>3 DEF HoldInTime, Typed, Time, Decorator
<1>6. EdgeKept'
  BY <1>1, <1>2, <1>3 DEF EdgeKept, ValuesOnly, waits
<1>7. FirstIsHeld'
  BY <1>1, <1>2, <1>3 DEF FirstIsHeld
<1>8. QED
  BY <1>4, <1>5, <1>6, <1>7 DEF HoldInv

\* HoldInv holds always, whatever the keywords and however long the run.
THEOREM HoldInvariant == Spec => []HoldInv
<1>1. Init => HoldInv
  BY HoldAssumption, InitHolds
<1>2. HoldInv /\ [Next]_vars => HoldInv'
  <2> SUFFICES ASSUME HoldInv, [Next]_vars PROVE HoldInv'
    OBVIOUS
  <2>1. ASSUME NEW kind \in {"any", "values", "neither"}, NEW ok \in BOOLEAN,
               Notify(kind, ok)
        PROVE  HoldInv'
    BY <2>1, HoldAssumption, NotifyKeeps DEF Kinds
  <2>2. CASE DmExpires
    BY <2>2, HoldAssumption, ExpiresKeeps
  <2>3. CASE LegacyExpires
    BY <2>3 DEF LegacyExpires, history, HoldInv, Typed, HoldInTime, EdgeKept,
                ValuesOnly, waits, FirstIsHeld
  <2>4. CASE Tick
    BY <2>4, HoldAssumption, TickKeeps
  <2>5. CASE UNCHANGED vars
    BY <2>5 DEF vars, HoldInv, Typed, HoldInTime, EdgeKept, ValuesOnly, waits,
                FirstIsHeld
  <2>6. QED
    BY <2>1, <2>2, <2>3, <2>4, <2>5 DEF Next
<1>3. QED
  BY <1>1, <1>2, PTL DEF Spec

-----------------------------------------------------------------------------
(* When it fires *)

\* A step in which the decorator fires is a notification that passed
\* state_hold_false while there is no state_hold, or the end of a hold.
LEMMA FireSteps ==
  ASSUME HoldAssumption, HoldInv, [Next]_vars, dm'.fires > dm.fires
  PROVE  \/ DmExpires
         \/ \E kind \in Kinds, ok \in BOOLEAN :
              /\ Notify(kind, ok) /\ Result(kind, ok) /\ Passed
              /\ ~dm.ended /\ cfg.hold = None
<1>1. Typed /\ HoldInTime /\ dm.fires \in Nat
  BY DEF HoldInv, Typed, Decorator
<1>2. ASSUME NEW kind \in {"any", "values", "neither"}, NEW ok \in BOOLEAN,
             Notify(kind, ok)
      PROVE  Result(kind, ok) /\ Passed /\ ~dm.ended /\ cfg.hold = None
  <2>1. ~dm.ended
    BY <1>1, <1>2 DEF Notify, cycle_notified
  <2>2. kind \in Kinds
    BY DEF Kinds
  <2>3. /\ ~Result(kind, ok) => dm'.fires = dm.fires
        /\ Result(kind, ok) /\ ~Passed => dm'.fires = dm.fires
        /\ Result(kind, ok) /\ Passed /\ cfg.hold # None => dm'.fires = dm.fires
    BY <1>1, <1>2, <2>1, <2>2, NotifyFields
  <2>4. QED
    BY <1>1, <2>1, <2>3
<1>3. CASE LegacyExpires
  BY <1>1, <1>3 DEF LegacyExpires
<1>4. CASE Tick
  BY <1>1, <1>4, TickFields
<1>5. CASE UNCHANGED vars
  BY <1>1, <1>5 DEF vars
<1>6. QED
  BY <1>2, <1>3, <1>4, <1>5 DEF Next, Kinds

\* Whatever the keywords, no fire comes sooner than state_hold after the first
\* true result of the true time (NotBeforeHold).
THEOREM HoldRespected == Spec => NotBeforeHold
<1>1. HoldInv /\ [Next]_vars
        => [dm'.fires > dm.fires /\ cfg.hold # None /\ cfg.expr
              => first # None /\ now - first >= cfg.hold]_vars
  <2> SUFFICES ASSUME HoldInv, [Next]_vars, dm'.fires > dm.fires, cfg.hold # None
               PROVE  first # None /\ now - first >= cfg.hold
    OBVIOUS
  <2>1. DmExpires
    BY HoldAssumption, FireSteps
  <2>2. /\ dm.true_at # None /\ now - dm.true_at >= cfg.hold
        /\ first # None /\ first <= dm.true_at
    BY <2>1 DEF DmExpires, dm_due, HoldInv, HoldInTime
  <2>3. /\ now \in Nat /\ dm.true_at \in Nat /\ first \in Nat /\ cfg.hold \in Nat
    BY <2>2, HoldAssumption DEF HoldAssumption, HoldInv, Typed, Decorator, Time, Config
  <2>4. QED
    BY <2>2, <2>3
<1>2. QED
  BY <1>1, HoldInvariant, PTL DEF Spec, NotBeforeHold

\* Whatever the keywords, under state_hold_false a fire takes a rise of the
\* expression after a false time of that length (EdgeTriggered).
THEOREM EdgeRespected == Spec => EdgeTriggered
<1>1. HoldInv /\ [Next]_vars
        => [dm'.fires > dm.fires /\ cfg.hold_false # None /\ cfg.expr
              /\ seen' \subseteq {"values"} /\ ~(waits /\ cfg.check_now)
              => armed \/ Rise]_vars
  <2> SUFFICES ASSUME HoldInv, [Next]_vars, dm'.fires > dm.fires,
                      cfg.hold_false # None, cfg.expr, seen' \subseteq {"values"},
                      ~(waits /\ cfg.check_now)
               PROVE  armed \/ Rise
    OBVIOUS
  <2>1. CASE DmExpires
    <3>1. seen' = seen /\ dm.true_at # None
      BY <2>1 DEF DmExpires, dm_due
    <3>2. QED
      BY <3>1 DEF HoldInv, EdgeKept, ValuesOnly
  <2>2. ASSUME NEW kind \in Kinds, NEW ok \in BOOLEAN, Notify(kind, ok),
               Result(kind, ok), Passed, ~dm.ended
        PROVE  Rise
    <3>1. seen' = seen \cup {kind} /\ truth' = ok
      BY <2>2 DEF Notify
    <3>2. ValuesOnly /\ ok
      BY <2>2, <3>1 DEF ValuesOnly, Result
    <3>3. /\ dm.hold_false = cfg.hold_false /\ dm.false_at = falseAt
          /\ truth <=> falseAt = None
      BY <2>2, <3>2 DEF HoldInv, EdgeKept
    <3>4. QED
      BY <2>2, <3>1, <3>2, <3>3 DEF Passed, hold_false_passed, Rise
  <2>3. QED
    BY <2>1, <2>2, HoldAssumption, FireSteps
<1>2. QED
  BY <1>1, HoldInvariant, PTL DEF Spec, EdgeTriggered

\* Whatever the keywords, with state_hold alone a hold is over state_hold after
\* the first trigger (HoldNotRestarted).
THEOREM HoldEnds == Spec => []HoldNotRestarted
<1>1. HoldInv => HoldNotRestarted
  <2> SUFFICES ASSUME HoldInv, Settled, cfg.hold # None, cfg.hold_false = None,
                      "neither" \notin seen, first # None, ~dm.ended
               PROVE  now - first < cfg.hold
    BY DEF HoldNotRestarted
  <2>1. dm.true_at = first
    BY DEF HoldInv, FirstIsHeld
  <2>2. ~(now - first >= cfg.hold)
    BY <2>1 DEF Settled, dm_due
  <2>3. now \in Nat /\ first \in Nat /\ cfg.hold \in Nat
    BY HoldAssumption DEF HoldAssumption, HoldInv, Typed, Time, Config
  <2>4. QED
    BY <2>2, <2>3
<1>2. QED
  BY <1>1, HoldInvariant, PTL

-----------------------------------------------------------------------------
(* The decorator and the code it replaces *)

\* After the timers that are due, the two are in the same state.
Alike ==
  Comparable =>
    /\ (IF dm_due THEN None ELSE dm.true_at)
         = (IF legacy_due THEN None ELSE legacy.since)
    /\ (IF dm_due THEN dm.fires + 1 ELSE dm.fires)
         = (IF legacy_due THEN legacy.fires + 1 ELSE legacy.fires)
    /\ (IF dm_due THEN waits ELSE dm.ended)
         = (IF legacy_due THEN waits ELSE legacy.ended)
    /\ ~dm.ended /\ cfg.hold_false # None /\ cfg.expr
         => dm.false_at = legacy.false_at

\* The two are in the same state.
Same ==
  /\ dm.true_at = legacy.since /\ dm.fires = legacy.fires
  /\ dm.ended = legacy.ended
  /\ ~dm.ended /\ cfg.hold_false # None /\ cfg.expr
       => dm.false_at = legacy.false_at

\* The first check of wait_until is all that drops state_hold_false, and an
\* expression that is not there is not false.
StartKept ==
  /\ cfg.hold_false = None => dm.hold_false = None
  /\ ~cfg.check_now => dm.hold_false = cfg.hold_false

AlikeInv == HoldInv /\ legacy \in Legacy /\ StartKept /\ Alike

\* fire of the legacy code.
LEMMA LegacyFire ==
  ASSUME HoldAssumption, NEW w \in Legacy
  PROVE  LET c == fire(w)
         IN /\ c \in Legacy /\ c.since = w.since /\ c.false_at = w.false_at
            /\ c.fires = w.fires + 1 /\ c.ended = waits
<1> DEFINE b == waits
           f == w.fires + 1
           v == [w EXCEPT !.fires = f, !.ended = b]
<1>1. b \in BOOLEAN
  BY DEF waits
<1>2. f \in Nat
  BY DEF Legacy
<1>3. fire(w) = v
  BY DEF fire
<1> HIDE DEF b, f
<1>4. v \in Legacy
  BY <1>1, <1>2 DEF Legacy
<1>5. v.ended = b
  BY <1>1, <1>2 DEF Legacy
<1>6. v.since = w.since /\ v.false_at = w.false_at /\ v.fires = f
  BY <1>1, <1>2 DEF Legacy
<1> HIDE DEF v
<1>7. v.ended = waits /\ v.fires = w.fires + 1
  BY <1>5, <1>6 DEF b, f
<1>8. QED
  BY <1>3, <1>4, <1>6, <1>7

\* held sorted by what it decides (trigger.py:1234-1262).
LEMMA HeldFields ==
  ASSUME HoldAssumption, cfg \in Config, NEW w \in Legacy, NEW t \in Nat,
         NEW ok \in BOOLEAN
  PROVE  LET c == held(w, ok, t)
         IN /\ c \in Legacy /\ c.false_at = w.false_at
            /\ cfg.hold = None /\ ok =>
                 c.since = w.since /\ c.fires = w.fires + 1 /\ c.ended = waits
            /\ cfg.hold = None /\ ~ok => c = w
            /\ cfg.hold # None =>
                 /\ c.fires = w.fires /\ c.ended = w.ended
                 /\ c.since = IF ~ok THEN None ELSE IF w.since = None THEN t
                                                                ELSE w.since
<1>1. CASE cfg.hold = None /\ ok
  <2>1. held(w, ok, t) = fire(w)
    BY <1>1 DEF held
  <2>2. QED
    BY <1>1, <2>1, LegacyFire
<1>2. CASE cfg.hold = None /\ ~ok
  BY <1>2 DEF held
<1>3. CASE cfg.hold # None
  <2> DEFINE n == IF ~ok THEN None ELSE IF w.since = None THEN t ELSE w.since
             c == [w EXCEPT !.since = n]
  <2>1. held(w, ok, t) = c
    BY <1>3 DEF held
  <2>2. n \in Time
    BY DEF Legacy, Time
  <2> HIDE DEF n
  <2>3. c \in Legacy /\ c.false_at = w.false_at /\ c.fires = w.fires
        /\ c.ended = w.ended /\ c.since = n
    BY <2>2 DEF Legacy
  <2> HIDE DEF c
  <2>4. QED
    BY <1>3, <2>1, <2>3 DEF n
<1>4. QED
  BY <1>1, <1>2, <1>3

\* A value under state_hold_false in the legacy code (trigger.py:1198-1232).
LEMMA EdgeFields ==
  ASSUME HoldAssumption, cfg \in Config, cfg.hold_false # None,
         NEW w \in Legacy, NEW t \in Nat, NEW ok \in BOOLEAN
  PROVE  LET c == legacy_edge(w, ok, t)
             passed == w.false_at # None /\ t - w.false_at >= cfg.hold_false
         IN /\ c \in Legacy
            /\ ok => c.false_at = None
            /\ ~ok => c.false_at = IF w.false_at = None THEN t ELSE w.false_at
            /\ ok /\ ~passed =>
                 c.since = w.since /\ c.fires = w.fires /\ c.ended = w.ended
            /\ cfg.hold = None /\ ok /\ passed =>
                 c.since = w.since /\ c.fires = w.fires + 1 /\ c.ended = waits
            /\ cfg.hold # None /\ ok /\ passed =>
                 /\ c.fires = w.fires /\ c.ended = w.ended
                 /\ c.since = IF w.since = None THEN t ELSE w.since
            /\ ~ok => /\ c.fires = w.fires /\ c.ended = w.ended
                      /\ c.since = IF cfg.hold = None THEN w.since ELSE None
<1> DEFINE passed == w.false_at # None /\ t - w.false_at >= cfg.hold_false
           c == legacy_edge(w, ok, t)
<1>1. w.false_at # None => w.false_at \in Nat
  BY DEF Legacy, Time
<1>2. cfg.hold_false \in Nat
  BY DEF Config, HoldAssumption
<1>3. CASE ~ok
  <2> DEFINE n == IF w.false_at = None THEN t ELSE w.false_at
             x == [w EXCEPT !.false_at = n]
  <2>1. n \in Time
    BY DEF Legacy, Time
  <2>2. c = held(x, FALSE, t)
    BY <1>3 DEF legacy_edge
  <2> HIDE DEF n
  <2>3. x \in Legacy /\ x.since = w.since /\ x.fires = w.fires
        /\ x.ended = w.ended /\ x.false_at = n
    BY <2>1 DEF Legacy
  <2> HIDE DEF x, c
  <2>4. /\ c \in Legacy /\ c.false_at = x.false_at
        /\ cfg.hold = None => c = x
        /\ cfg.hold # None => c.fires = x.fires /\ c.ended = x.ended /\ c.since = None
    BY <2>2, <2>3, HeldFields
  <2>5. QED
    BY <1>3, <2>3, <2>4 DEF n, c
<1>4. CASE ok /\ w.false_at = None
  <2>1. c = w
    BY <1>4 DEF legacy_edge
  <2>2. QED
    BY <1>4, <2>1
<1>5. CASE ok /\ w.false_at # None
  <2> DEFINE x == [w EXCEPT !.false_at = None]
  <2>1. x \in Legacy /\ x.since = w.since /\ x.fires = w.fires
        /\ x.ended = w.ended /\ x.false_at = None
    BY DEF Legacy, Time
  <2>2. CASE t - w.false_at < cfg.hold_false
    <3>1. c = x
      BY <1>5, <2>2 DEF legacy_edge
    <3>2. ~passed
      BY <1>1, <1>2, <1>5, <2>2
    <3> HIDE DEF x, c
    <3>3. QED
      BY <1>5, <2>1, <3>1, <3>2 DEF c
  <2>3. CASE ~(t - w.false_at < cfg.hold_false)
    <3>1. c = held(x, TRUE, t)
      BY <1>5, <2>3 DEF legacy_edge
    <3>2. passed
      BY <1>1, <1>2, <1>5, <2>3
    <3> HIDE DEF x, c
    <3>3. /\ c \in Legacy /\ c.false_at = x.false_at
          /\ cfg.hold = None =>
               c.since = x.since /\ c.fires = x.fires + 1 /\ c.ended = waits
          /\ cfg.hold # None =>
               /\ c.fires = x.fires /\ c.ended = x.ended
               /\ c.since = IF x.since = None THEN t ELSE x.since
      BY <2>1, <3>1, HeldFields
    <3>4. QED
      BY <1>5, <2>1, <3>2, <3>3 DEF c
  <2>4. QED
    BY <2>2, <2>3
<1>6. QED
  BY <1>3, <1>4, <1>5

\* The head of _cycle again, for the uses in which the legacy first check
\* decides the same.
LEMMA StartSame ==
  ASSUME HoldAssumption, Init
  PROVE  legacy \in Legacy /\ StartKept /\ (Comparable => Same)
<1> DEFINE w == [since |-> None, false_at |-> None, fires |-> 0, ended |-> FALSE]
           d == [true_at |-> None, false_at |-> None, fires |-> 0, ended |-> FALSE,
                 hold_false |-> IF waits /\ truth /\ cfg.check_now
                                  THEN None ELSE cfg.hold_false]
           n == IF truth THEN None ELSE now
           f == [w EXCEPT !.false_at = n]
<1>1. cfg \in Config /\ truth \in BOOLEAN /\ now \in Nat /\ (~cfg.expr => truth)
  BY DEF Init, Config
<1>2. dm = cycle_start(now, truth) /\ legacy = legacy_start(now, truth)
  BY DEF Init
<1>3. w \in Legacy /\ w.since = None /\ w.false_at = None /\ w.fires = 0
        /\ w.ended = FALSE
  BY DEF Legacy, Time
<1>4. n \in Time
  BY <1>1 DEF Time
<1>5. f \in Legacy /\ f.since = None /\ f.false_at = n /\ f.fires = 0
        /\ f.ended = FALSE
  BY <1>4 DEF Legacy, Time
<1>6. /\ ~cfg.expr \/ ~(cfg.check_now \/ cfg.hold_false # None) => legacy = w
      /\ cfg.expr /\ cfg.hold_false # None /\ ~cfg.check_now => legacy = f
      /\ cfg.expr /\ cfg.check_now =>
           legacy = held(IF waits \/ cfg.hold_false = None THEN w ELSE f, truth, now)
  BY <1>2 DEF legacy_start
<1>7. d.hold_false \in Time
  BY <1>1 DEF Config, HoldAssumption, Time
<1>8. d \in Decorator
  BY <1>7 DEF Decorator, Time
<1>9. /\ d.true_at = None /\ d.false_at = None /\ d.fires = 0 /\ d.ended = FALSE
      /\ cfg.hold_false = None => d.hold_false = None
      /\ ~cfg.check_now => d.hold_false = cfg.hold_false
  OBVIOUS
<1>10. /\ ~(cfg.check_now \/ cfg.hold_false # None) => dm = d
       /\ cfg.check_now /\ cfg.expr => dm = check_new_state(d, truth, now)
       /\ (cfg.check_now \/ cfg.hold_false # None) /\ ~(cfg.check_now /\ cfg.expr)
            => dm = [d EXCEPT !.false_at =
                       IF ~truth /\ d.hold_false # None THEN now ELSE None]
  BY <1>2 DEF cycle_start
<1> HIDE DEF w, d, f
<1>11. legacy \in Legacy
  <2>1. CASE cfg.expr /\ cfg.check_now
    <3> DEFINE x == IF waits \/ cfg.hold_false = None THEN w ELSE f
    <3>1. x \in Legacy
      BY <1>3, <1>5
    <3> HIDE DEF x
    <3>2. QED
      BY <1>1, <1>6, <2>1, <3>1, HeldFields DEF x
  <2>2. QED
    BY <1>3, <1>5, <1>6, <2>1
<1>12. StartKept
  <2>1. CASE cfg.check_now /\ cfg.expr
    BY <1>1, <1>8, <1>9, <1>10, <2>1, CheckFields DEF StartKept
  <2>2. CASE ~(cfg.check_now /\ cfg.expr)
    <3>1. dm.hold_false = d.hold_false
      BY <1>8, <1>10, <2>2 DEF Decorator
    <3>2. QED
      BY <1>9, <3>1 DEF StartKept
  <2>3. QED
    BY <2>1, <2>2
<1>13. ASSUME Comparable
       PROVE  Same
  <2>1. CASE ~(cfg.check_now \/ cfg.hold_false # None)
    BY <1>3, <1>6, <1>9, <1>10, <2>1 DEF Same
  <2>2. CASE cfg.check_now /\ cfg.expr
    <3>1. cfg.hold_false = None
      BY <1>13, <2>2 DEF Comparable
    <3>2. legacy = held(w, truth, now) /\ dm = check_new_state(d, truth, now)
      BY <1>6, <1>10, <2>2, <3>1
    <3>3. hold_false_passed(d, now)
      BY <1>9, <3>1 DEF hold_false_passed
    <3>4. /\ ~truth => dm.true_at = None /\ dm.fires = 0 /\ dm.ended = FALSE
          /\ truth /\ cfg.hold = None =>
               dm.true_at = None /\ dm.fires = 1 /\ dm.ended = waits
          /\ truth /\ cfg.hold # None =>
               dm.true_at = now /\ dm.fires = 0 /\ dm.ended = FALSE
      BY <1>1, <1>8, <1>9, <3>2, <3>3, CheckFields
    <3>5. /\ cfg.hold = None /\ truth =>
               legacy.since = None /\ legacy.fires = 1 /\ legacy.ended = waits
          /\ cfg.hold = None /\ ~truth => legacy = w
          /\ cfg.hold # None =>
               /\ legacy.fires = 0 /\ legacy.ended = FALSE
               /\ legacy.since = IF ~truth THEN None ELSE now
      BY <1>1, <1>3, <3>2, HeldFields
    <3>6. QED
      BY <1>1, <1>3, <3>1, <3>4, <3>5 DEF Same
  <2>3. CASE cfg.hold_false # None /\ cfg.expr /\ ~cfg.check_now
    <3>1. legacy = f /\ d.hold_false # None
      BY <1>6, <1>9, <2>3
    <3>2. dm = [d EXCEPT !.false_at = n]
      BY <1>10, <2>3, <3>1
    <3> HIDE DEF n
    <3>3. /\ dm.true_at = None /\ dm.false_at = n /\ dm.fires = 0
          /\ dm.ended = FALSE
      BY <1>8, <1>9, <3>2 DEF Decorator
    <3>4. QED
      BY <1>5, <3>1, <3>3 DEF Same
  <2>4. CASE (cfg.check_now \/ cfg.hold_false # None) /\ ~cfg.expr
    <3>1. legacy = w /\ dm = [d EXCEPT !.false_at = None]
      BY <1>1, <1>6, <1>10, <2>4
    <3>2. dm.true_at = None /\ dm.fires = 0 /\ dm.ended = FALSE
      BY <1>8, <1>9, <3>1 DEF Decorator
    <3>3. QED
      BY <1>3, <2>4, <3>1, <3>2 DEF Same
  <2>5. QED
    BY <2>1, <2>2, <2>3, <2>4
<1>14. QED
  BY <1>11, <1>12, <1>13

\* A notification leaves the two in the same state.
LEMMA NotifySame ==
  ASSUME HoldAssumption, AlikeInv,
         NEW kind \in Kinds, NEW ok \in BOOLEAN, Notify(kind, ok)
  PROVE  legacy' \in Legacy /\ StartKept' /\ (Comparable => Same)'
<1>1. /\ Typed /\ HoldInTime /\ legacy \in Legacy /\ StartKept /\ Alike
      /\ cfg \in Config /\ now \in Nat
  BY DEF AlikeInv, HoldInv, Typed
<1>2. /\ cfg' = cfg /\ now' = now /\ seen' = seen \cup {kind}
      /\ ~dm_due /\ ~legacy_due
      /\ dm' = cycle_notified(dm, kind, ok, now)
      /\ legacy' = legacy_notified(legacy, kind, ok, now)
      /\ ~cfg.expr => kind # "values" /\ ok
  BY DEF Notify
<1>3. legacy' \in Legacy
  <2>1. CASE legacy.ended \/ kind = "neither"
    BY <1>1, <1>2, <2>1 DEF legacy_notified
  <2>2. CASE ~legacy.ended /\ kind = "any"
    BY <1>1, <1>2, <2>2, HeldFields DEF legacy_notified
  <2>3. CASE ~legacy.ended /\ kind = "values" /\ cfg.hold_false = None
    BY <1>1, <1>2, <2>3, HeldFields DEF legacy_notified, legacy_edge
  <2>4. CASE ~legacy.ended /\ kind = "values" /\ cfg.hold_false # None
    BY <1>1, <1>2, <2>4, EdgeFields DEF legacy_notified
  <2>5. QED
    BY <2>1, <2>2, <2>3, <2>4 DEF Kinds
<1>4. dm'.hold_false = dm.hold_false
  <2>1. CASE dm.ended
    BY <1>2, <2>1 DEF cycle_notified
  <2>2. CASE ~dm.ended
    BY <1>1, <2>2, NotifyFields
  <2>3. QED
    BY <2>1, <2>2
<1>5. StartKept'
  BY <1>1, <1>2, <1>4 DEF StartKept
<1>6. ASSUME Comparable'
      PROVE  Same'
  <2>1. /\ Comparable /\ kind \in {"any", "values"}
        /\ cfg.hold_false # None /\ cfg.expr => kind = "values" /\ ~cfg.check_now
    BY <1>2, <1>6 DEF Comparable, Kinds
  <2>2. /\ dm.true_at = legacy.since /\ dm.fires = legacy.fires
        /\ dm.ended = legacy.ended
        /\ ~dm.ended /\ cfg.hold_false # None /\ cfg.expr
             => dm.false_at = legacy.false_at
    BY <1>1, <1>2, <2>1 DEF Alike
  <2>3. CASE dm.ended
    <3>1. dm' = dm /\ legacy' = legacy
      BY <1>2, <2>2, <2>3 DEF cycle_notified, legacy_notified
    <3>2. QED
      BY <1>2, <2>2, <2>3, <3>1 DEF Same
  <2>4. CASE ~dm.ended
    <3> DEFINE r == Result(kind, ok)
    <3>1. /\ ~r => dm'.true_at = None /\ dm'.fires = dm.fires /\ ~dm'.ended
          /\ r /\ ~Passed =>
               dm'.true_at = dm.true_at /\ dm'.fires = dm.fires /\ ~dm'.ended
          /\ r /\ Passed /\ cfg.hold = None =>
               dm'.true_at = None /\ dm'.fires = dm.fires + 1
          /\ r /\ Passed /\ cfg.hold # None =>
               /\ dm'.fires = dm.fires /\ ~dm'.ended
               /\ dm'.true_at = IF dm.true_at = None THEN now ELSE dm.true_at
      BY <1>1, <2>4, NotifyFields
    <3>2. /\ dm'.ended \in BOOLEAN /\ legacy'.ended \in BOOLEAN
          /\ dm.ended \in BOOLEAN /\ legacy.ended \in BOOLEAN
      BY <1>1, <1>3, <2>4, NotifyFields DEF Typed, Decorator, Legacy
    <3>3. r /\ Passed /\ cfg.hold = None => dm'.ended = waits
      BY <1>1, <2>4, NotifyFields
    <3>4. cfg.hold = None => dm.true_at = None
      BY <1>1 DEF HoldInTime
    <3>5. CASE cfg.hold_false = None \/ ~cfg.expr
      <4>1. Passed
        BY <1>1, <3>5 DEF Passed, hold_false_passed, StartKept
      <4>2. r \in BOOLEAN /\ (kind = "any" => r) /\ (kind = "values" => (r <=> ok))
        BY DEF Result
      <4>3. legacy' = held(legacy, r, now)
        <5>1. CASE kind = "any"
          <6>1. r = TRUE
            BY <5>1 DEF Result
          <6>2. QED
            BY <1>2, <2>2, <2>4, <5>1, <6>1 DEF legacy_notified
        <5>2. CASE kind = "values"
          <6>1. r = ok /\ cfg.hold_false = None
            BY <1>2, <3>5, <5>2 DEF Result
          <6>2. QED
            BY <1>2, <2>2, <2>4, <5>2, <6>1 DEF legacy_notified, legacy_edge
        <5>3. QED
          BY <2>1, <5>1, <5>2
      <4> HIDE DEF r
      <4>4. /\ cfg.hold = None /\ r => /\ legacy'.since = legacy.since
                                       /\ legacy'.fires = legacy.fires + 1
                                       /\ legacy'.ended = waits
            /\ cfg.hold = None /\ ~r => legacy' = legacy
            /\ cfg.hold # None =>
                 /\ legacy'.fires = legacy.fires /\ legacy'.ended = legacy.ended
                 /\ legacy'.since = IF ~r THEN None
                                    ELSE IF legacy.since = None THEN now
                                                               ELSE legacy.since
        BY <1>1, <4>2, <4>3, HeldFields
      <4>5. dm'.true_at = legacy'.since /\ dm'.fires = legacy'.fires
        BY <2>2, <3>1, <3>4, <4>1, <4>2, <4>4
      <4>6. dm'.ended <=> legacy'.ended
        BY <2>2, <2>4, <3>1, <3>3, <4>1, <4>2, <4>4
      <4>7. QED
        BY <1>2, <3>2, <3>5, <4>5, <4>6 DEF Same
    <3>6. CASE cfg.hold_false # None /\ cfg.expr
      <4> DEFINE passed == legacy.false_at # None
                             /\ now - legacy.false_at >= cfg.hold_false
      <4>1. kind = "values" /\ dm.hold_false = cfg.hold_false
              /\ dm.false_at = legacy.false_at
        BY <1>1, <2>1, <2>2, <2>4, <3>6 DEF StartKept
      <4>2. (r <=> ok) /\ (Passed <=> passed)
        BY <3>6, <4>1 DEF Result, Passed, hold_false_passed
      <4>3. legacy' = legacy_edge(legacy, ok, now)
        BY <1>2, <2>2, <2>4, <4>1 DEF legacy_notified
      <4>4. /\ ok => legacy'.false_at = None
            /\ ~ok => legacy'.false_at =
                        IF legacy.false_at = None THEN now ELSE legacy.false_at
            /\ ok /\ ~passed => /\ legacy'.since = legacy.since
                                /\ legacy'.fires = legacy.fires
                                /\ legacy'.ended = legacy.ended
            /\ cfg.hold = None /\ ok /\ passed =>
                 /\ legacy'.since = legacy.since
                 /\ legacy'.fires = legacy.fires + 1 /\ legacy'.ended = waits
            /\ cfg.hold # None /\ ok /\ passed =>
                 /\ legacy'.fires = legacy.fires /\ legacy'.ended = legacy.ended
                 /\ legacy'.since = IF legacy.since = None THEN now
                                                           ELSE legacy.since
            /\ ~ok => /\ legacy'.fires = legacy.fires
                      /\ legacy'.ended = legacy.ended
                      /\ legacy'.since = IF cfg.hold = None THEN legacy.since
                                                            ELSE None
        BY <1>1, <3>6, <4>3, EdgeFields
      <4> HIDE DEF passed, r
      <4>5. dm'.true_at = legacy'.since /\ dm'.fires = legacy'.fires
        BY <2>2, <3>1, <3>4, <4>2, <4>4
      <4>6. dm'.ended <=> legacy'.ended
        BY <2>2, <2>4, <3>1, <3>3, <4>2, <4>4
      <4>7. dm'.false_at = legacy'.false_at
        <5>1. /\ ~ok => dm'.false_at = IF dm.hold_false # None /\ dm.false_at = None
                                         THEN now ELSE dm.false_at
              /\ ok => dm'.false_at =
                         IF dm.hold_false = None \/ ~cfg.expr THEN dm.false_at
                                                              ELSE None
          BY <1>1, <2>4, <4>2, NotifyFields DEF r
        <5>2. QED
          BY <3>6, <4>1, <4>4, <5>1
      <4>8. QED
        BY <3>2, <4>5, <4>6, <4>7 DEF Same
    <3>7. QED
      BY <3>5, <3>6
  <2>5. QED
    BY <2>3, <2>4
<1>7. QED
  BY <1>3, <1>5, <1>6

\* Every step keeps the two alike: a notification by NotifySame, a timer
\* because what it does was counted before.
LEMMA AlikeStep ==
  ASSUME HoldAssumption, AlikeInv, HoldInv', [Next]_vars
  PROVE  AlikeInv'
<1>1. /\ Typed /\ HoldInTime /\ legacy \in Legacy /\ StartKept /\ Alike
  BY DEF AlikeInv, HoldInv
<1>2. ASSUME NEW kind \in {"any", "values", "neither"}, NEW ok \in BOOLEAN,
             Notify(kind, ok)
      PROVE  AlikeInv'
  <2>1. kind \in Kinds
    BY DEF Kinds
  <2>2. legacy' \in Legacy /\ StartKept' /\ (Comparable => Same)'
    BY <1>2, <2>1, NotifySame
  <2>3. Alike'
    BY <2>2 DEF Same, Alike, dm_due, legacy_due
  <2>4. QED
    BY <2>2, <2>3 DEF AlikeInv
<1>3. CASE DmExpires
  <2>1. /\ dm'.hold_false = dm.hold_false /\ dm'.false_at = dm.false_at
        /\ dm'.true_at = None /\ dm'.fires = dm.fires + 1 /\ dm'.ended = waits
    BY <1>1, <1>3, ExpiresFields
  <2>2. /\ cfg' = cfg /\ now' = now /\ legacy' = legacy /\ seen' = seen
        /\ dm_due /\ ~dm.ended
    BY <1>3 DEF DmExpires, dm_due
  <2>3. ~dm_due' /\ (legacy_due' <=> legacy_due) /\ (Comparable' <=> Comparable)
    BY <2>1, <2>2 DEF dm_due, legacy_due, Comparable
  <2>4. waits' <=> waits
    BY <2>2 DEF waits
  <2>5. Alike'
    <3>1. SUFFICES ASSUME Comparable'
                   PROVE  Alike'
      BY DEF Alike
    <3>2. /\ None = (IF legacy_due THEN None ELSE legacy.since)
          /\ dm.fires + 1 = (IF legacy_due THEN legacy.fires + 1 ELSE legacy.fires)
          /\ waits = (IF legacy_due THEN waits ELSE legacy.ended)
          /\ cfg.hold_false # None /\ cfg.expr => dm.false_at = legacy.false_at
      BY <1>1, <2>2, <2>3, <3>1 DEF Alike
    <3>3. QED
      BY <2>1, <2>2, <2>3, <2>4, <3>2 DEF Alike, waits
  <2>6. QED
    BY <1>1, <2>1, <2>2, <2>5 DEF AlikeInv, StartKept
<1>4. CASE LegacyExpires
  <2> DEFINE x == [legacy EXCEPT !.since = None]
  <2>1. x \in Legacy /\ x.since = None /\ x.fires = legacy.fires
          /\ x.false_at = legacy.false_at
    BY <1>1 DEF Legacy, Time
  <2>2. legacy' = fire(x) /\ legacy_due
    BY <1>4 DEF LegacyExpires
  <2> HIDE DEF x
  <2>3. /\ legacy' \in Legacy /\ legacy'.since = None
        /\ legacy'.false_at = legacy.false_at
        /\ legacy'.fires = legacy.fires + 1 /\ legacy'.ended = waits
    BY <2>1, <2>2, LegacyFire
  <2>4. /\ cfg' = cfg /\ now' = now /\ dm' = dm /\ seen' = seen
    BY <1>4 DEF LegacyExpires, history
  <2>5. ~legacy_due' /\ (dm_due' <=> dm_due) /\ (Comparable' <=> Comparable)
    BY <2>3, <2>4 DEF dm_due, legacy_due, Comparable
  <2>6. Alike'
    <3>1. SUFFICES ASSUME Comparable'
                   PROVE  Alike'
      BY DEF Alike
    <3>2. /\ (IF dm_due THEN None ELSE dm.true_at) = None
          /\ (IF dm_due THEN dm.fires + 1 ELSE dm.fires) = legacy.fires + 1
          /\ (IF dm_due THEN waits ELSE dm.ended) = waits
          /\ ~dm.ended /\ cfg.hold_false # None /\ cfg.expr
               => dm.false_at = legacy.false_at
      BY <1>1, <2>2, <2>5, <3>1 DEF Alike
    <3>3. QED
      BY <2>3, <2>4, <2>5, <3>2 DEF Alike, waits
  <2>7. QED
    BY <1>1, <2>3, <2>4, <2>6 DEF AlikeInv, StartKept
<1>5. CASE Tick
  <2>1. /\ dm'.hold_false = dm.hold_false /\ dm'.false_at = dm.false_at
        /\ dm'.true_at = dm.true_at /\ dm'.ended = dm.ended /\ dm'.fires = 0
    BY <1>1, <1>5, TickFields
  <2>2. /\ legacy' \in Legacy /\ legacy'.since = legacy.since
        /\ legacy'.false_at = legacy.false_at /\ legacy'.ended = legacy.ended
        /\ legacy'.fires = 0
    BY <1>1, <1>5 DEF Tick, Legacy
  <2>3. cfg' = cfg /\ seen' = seen /\ ~dm_due /\ ~legacy_due
    BY <1>5 DEF Tick, history
  <2>4. (Comparable => Same)'
    BY <1>1, <2>1, <2>2, <2>3 DEF Alike, Same, Comparable
  <2>5. Alike'
    BY <2>4 DEF Same, Alike, dm_due, legacy_due
  <2>6. QED
    BY <1>1, <2>1, <2>2, <2>3, <2>5 DEF AlikeInv, StartKept
<1>6. CASE UNCHANGED vars
  BY <1>1, <1>6 DEF vars, AlikeInv, StartKept, Alike, Comparable, dm_due,
                    legacy_due, waits
<1>7. QED
  BY <1>2, <1>3, <1>4, <1>5, <1>6 DEF Next

\* The decorator fires at the times at which the code it replaces does, and
\* equally often, whatever the keywords and however long the run (SameFires).
THEOREM Replaces == Spec => []SameFires
<1>1. Init => AlikeInv
  <2> SUFFICES ASSUME Init PROVE AlikeInv
    OBVIOUS
  <2>1. HoldInv
    BY HoldAssumption, InitHolds
  <2>2. legacy \in Legacy /\ StartKept /\ (Comparable => Same)
    BY HoldAssumption, StartSame
  <2>3. Alike
    BY <2>2 DEF Same, Alike, dm_due, legacy_due
  <2>4. QED
    BY <2>1, <2>2, <2>3 DEF AlikeInv
<1>2. AlikeInv /\ HoldInv' /\ [Next]_vars => AlikeInv'
  BY HoldAssumption, AlikeStep
<1>3. AlikeInv => SameFires
  BY DEF AlikeInv, Alike, SameFires, Settled
<1>4. QED
  BY <1>1, <1>2, <1>3, HoldInvariant, PTL DEF Spec
=============================================================================
