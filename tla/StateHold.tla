----------------------------- MODULE StateHold -----------------------------
(***************************************************************************)
(* When a state trigger fires: state_check_now, state_hold and             *)
(* state_hold_false, as StateTriggerDecorator decides it and as the legacy *)
(* trigger_watch and task.wait_until of trigger.py do, side by side on the *)
(* same notifications at the same times.                                   *)
(***************************************************************************)
EXTENDS Naturals

CONSTANTS
  None,     \* a keyword that is not given, a time that is not set
  Hold,     \* values of state_hold
  HoldFalse,\* values of state_hold_false
  MaxTime,  \* bound: the last instant
  MaxBurst  \* bound: notifications in an instant

ASSUME HoldAssumption ==
  /\ Hold \subseteq Nat \cup {None} /\ HoldFalse \subseteq Nat \cup {None}
  /\ None \notin Nat
  /\ MaxTime \in Nat /\ MaxBurst \in Nat

VARIABLES
  cfg,      \* the keywords, whether there is an expression besides plain
            \* names, and where it is used
  now,      \* the clock
  truth,    \* the value of the expression
  dm,       \* the decorator: since when true and false, what is left of
            \* state_hold_false, fires in this instant, whether it has ended
  legacy,   \* trigger_watch or wait_until: waiting since, false since, ...
  burst,    \* notifications in this instant
  seen,     \* history: kinds of notifications so far
  first,    \* history: the first trigger of the true time, for dm
  armed,    \* history: false for long enough since dm fired
  falseAt   \* history: since when the expression is false

vars == <<cfg, now, truth, dm, legacy, burst, seen, first, armed, falseAt>>
history == <<seen, first, armed, falseAt>>

waits == cfg.mode = "wait_until"

-----------------------------------------------------------------------------
(* StateTriggerDecorator *)

fire(m) == [m EXCEPT !.fires = @ + 1, !.ended = waits]

\* Mutated form of hold_false_passed: an expression that was never false counts.
hold_false_passed_lax(d, t) ==
  \/ d.hold_false = None \/ ~cfg.expr
  \/ d.false_at = None \/ t - d.false_at >= d.hold_false

hold_false_passed(d, t) ==
  \/ d.hold_false = None \/ ~cfg.expr
  \/ d.false_at # None /\ t - d.false_at >= d.hold_false

\* Mutated form of check_new_state: a false result does not end the hold.
check_new_state_sticky(d, ok, t) ==
  LET e == IF d.hold_false = None \/ ~cfg.expr THEN d
                                               ELSE [d EXCEPT !.false_at = None]
  IN CASE ~ok -> [d EXCEPT !.false_at =
                    IF d.hold_false # None /\ @ = None THEN t ELSE @]
       [] ok /\ ~hold_false_passed(d, t) -> e
       [] ok /\ hold_false_passed(d, t) ->
            IF cfg.hold = None \/ (d.true_at # None /\ t - d.true_at >= cfg.hold)
              THEN fire([e EXCEPT !.true_at = None])
              ELSE [e EXCEPT !.true_at = IF @ = None THEN t ELSE @]

\* Mutated form of check_new_state: each true result starts the hold again.
check_new_state_restart(d, ok, t) ==
  LET e == IF d.hold_false = None \/ ~cfg.expr THEN d
                                               ELSE [d EXCEPT !.false_at = None]
  IN CASE ~ok -> [d EXCEPT !.true_at = None, !.false_at =
                    IF d.hold_false # None /\ @ = None THEN t ELSE @]
       [] ok /\ ~hold_false_passed(d, t) -> e
       [] ok /\ hold_false_passed(d, t) ->
            IF cfg.hold = None THEN fire(e) ELSE [e EXCEPT !.true_at = t]

check_new_state(d, ok, t) ==
  LET e == IF d.hold_false = None \/ ~cfg.expr THEN d
                                               ELSE [d EXCEPT !.false_at = None]
  IN CASE ~ok -> [d EXCEPT !.true_at = None, !.false_at =
                    IF d.hold_false # None /\ @ = None THEN t ELSE @]
       [] ok /\ ~hold_false_passed(d, t) -> e
       [] ok /\ hold_false_passed(d, t) ->
            IF cfg.hold = None \/ (d.true_at # None /\ t - d.true_at >= cfg.hold)
              THEN fire([e EXCEPT !.true_at = None])
              ELSE [e EXCEPT !.true_at = IF @ = None THEN t ELSE @]

\* The head of _cycle, before it waits for the first notification.
cycle_start(t, ok) ==
  LET d == [true_at |-> None, false_at |-> None, fires |-> 0, ended |-> FALSE,
            hold_false |-> IF waits /\ ok /\ cfg.check_now
                             THEN None ELSE cfg.hold_false]
  IN CASE ~(cfg.check_now \/ cfg.hold_false # None) -> d
       [] cfg.check_now /\ cfg.expr -> check_new_state(d, ok, t)
       [] OTHER -> [d EXCEPT !.false_at =
                      IF ~ok /\ d.hold_false # None THEN t ELSE None]

\* One notification in _cycle: a plain name changed ("any"), a value the
\* expression names changed ("values"), or neither ("neither").
cycle_notified(d, kind, ok, t) ==
  IF d.ended THEN d
  ELSE check_new_state(d, kind = "any" \/ (kind = "values" /\ ok), t)

\* _check_state_hold, when the timer of the hold expires.
check_state_hold(d) == fire([d EXCEPT !.true_at = None])

dm_due == ~dm.ended /\ dm.true_at # None /\ now - dm.true_at >= cfg.hold

-----------------------------------------------------------------------------
(* trigger_watch and wait_until *)

\* state_hold of both: a true result starts the wait or lets it run, a false
\* one ends it.
held(w, ok, t) ==
  IF cfg.hold = None
    THEN IF ok THEN fire(w) ELSE w
    ELSE [w EXCEPT !.since = IF ~ok THEN None ELSE IF @ = None THEN t ELSE @]

\* The first check of trigger_watch, and that of wait_until.
legacy_start(t, ok) ==
  LET w == [since |-> None, false_at |-> None, fires |-> 0, ended |-> FALSE]
      f == [w EXCEPT !.false_at = IF ok THEN None ELSE t]
  IN CASE ~cfg.expr \/ ~(cfg.check_now \/ cfg.hold_false # None) -> w
       [] cfg.expr /\ cfg.hold_false # None /\ ~cfg.check_now -> f
       [] cfg.expr /\ cfg.check_now ->
            held(IF waits \/ cfg.hold_false = None THEN w ELSE f, ok, t)

\* A result of the expression under state_hold_false: only one that follows a
\* false one, for long enough, is looked at further.
legacy_edge(w, ok, t) ==
  CASE cfg.hold_false = None -> held(w, ok, t)
    [] cfg.hold_false # None /\ ~ok ->
         held([w EXCEPT !.false_at = IF @ = None THEN t ELSE @], FALSE, t)
    [] cfg.hold_false # None /\ ok ->
         IF w.false_at = None THEN w
         ELSE IF t - w.false_at < cfg.hold_false THEN [w EXCEPT !.false_at = None]
         ELSE held([w EXCEPT !.false_at = None], TRUE, t)

legacy_notified(w, kind, ok, t) ==
  CASE w.ended \/ kind = "neither" -> w
    [] ~w.ended /\ kind = "any" -> held(w, TRUE, t)
    [] ~w.ended /\ kind = "values" -> legacy_edge(w, ok, t)

legacy_due == ~legacy.ended /\ legacy.since # None /\ now - legacy.since >= cfg.hold

-----------------------------------------------------------------------------
Init ==
  /\ cfg \in [hold : Hold, hold_false : HoldFalse, check_now : BOOLEAN,
              expr : BOOLEAN, mode : {"decorator", "wait_until"}]
  /\ truth \in BOOLEAN
  /\ ~cfg.expr => truth
  /\ now = 1
  /\ dm = cycle_start(now, truth)
  /\ legacy = legacy_start(now, truth)
  /\ burst = 0
  /\ seen = {}
  /\ first = IF cfg.expr /\ cfg.check_now /\ truth /\ dm.fires = 0
               THEN now ELSE None
  /\ armed = FALSE
  /\ falseAt = IF truth THEN None ELSE now

\* The expression becomes true after it was false for long enough.
Rise == /\ truth' /\ ~truth
        /\ cfg.hold_false # None => now - falseAt >= cfg.hold_false

\* A state_changed event of a watched variable reaches both.
Notify(kind, ok) ==
  /\ ~dm_due /\ ~legacy_due /\ burst < MaxBurst
  /\ kind = "neither" => ok = truth
  /\ ~cfg.expr => kind # "values" /\ ok
  /\ truth' = ok
  /\ dm' = cycle_notified(dm, kind, ok, now)
  /\ legacy' = legacy_notified(legacy, kind, ok, now)
  /\ burst' = burst + 1
  /\ seen' = seen \cup {kind}
  /\ first' = IF dm'.fires > dm.fires \/ (kind = "values" /\ ~ok) THEN None
              ELSE IF first = None /\ kind # "neither" THEN now ELSE first
  /\ armed' = (ok /\ (armed \/ Rise) /\ dm'.fires = dm.fires)
  /\ falseAt' = IF ok THEN None ELSE IF falseAt = None THEN now ELSE falseAt
  /\ UNCHANGED <<cfg, now>>

DmExpires ==
  /\ dm_due
  /\ dm' = check_state_hold(dm)
  /\ first' = None /\ armed' = FALSE
  /\ UNCHANGED <<cfg, now, truth, legacy, burst, seen, falseAt>>

LegacyExpires ==
  /\ legacy_due
  /\ legacy' = fire([legacy EXCEPT !.since = None])
  /\ UNCHANGED <<cfg, now, truth, dm, burst, history>>

\* Timers that are due come before the next instant.
Tick ==
  /\ ~dm_due /\ ~legacy_due /\ now < MaxTime
  /\ now' = now + 1
  /\ burst' = 0
  /\ dm' = [dm EXCEPT !.fires = 0]
  /\ legacy' = [legacy EXCEPT !.fires = 0]
  /\ UNCHANGED <<cfg, truth, history>>

Next ==
  \/ \E kind \in {"any", "values", "neither"}, ok \in BOOLEAN : Notify(kind, ok)
  \/ DmExpires \/ LegacyExpires \/ Tick

Spec == Init /\ [][Next]_vars

-----------------------------------------------------------------------------
(* Properties *)

Settled == ~dm_due /\ ~legacy_due

\* The uses for which the two implementations promise the same: no state
\* change that leaves the watched values alone (the decorator takes it for a
\* false result), no plain name beside an expression under state_hold_false,
\* and no first check under state_hold_false that is true, or made by
\* wait_until.
Comparable ==
  /\ "neither" \notin seen
  /\ cfg.hold_false # None /\ cfg.expr =>
       "any" \notin seen /\ ~cfg.check_now

\* The decorator and the legacy code it replaces fire at the same times, and
\* equally often.
SameFires == (Settled /\ Comparable) => dm.fires = legacy.fires

\* A trigger fires no sooner than state_hold after the first result that was
\* true, with no false one since (reference.rst:433-435).
NotBeforeHold ==
  [][dm'.fires > dm.fires /\ cfg.hold # None /\ cfg.expr
       => first # None /\ now - first >= cfg.hold]_vars

\* Under state_hold_false a fire takes a false time of that length before it,
\* one for each (reference.rst:439-446), as long as only values the expression
\* names change.
EdgeTriggered ==
  [][dm'.fires > dm.fires /\ cfg.hold_false # None /\ cfg.expr
       /\ seen' \subseteq {"values"} /\ ~(waits /\ cfg.check_now)
       => armed \/ Rise]_vars

\* The hold is over state_hold after the first true result: results that are
\* true again do not restart it.
HoldNotRestarted ==
  (Settled /\ cfg.hold # None /\ cfg.hold_false = None /\ "neither" \notin seen
     /\ first # None /\ ~dm.ended)
    => now - first < cfg.hold

\* The same whatever is notified meanwhile (reference.rst:435: if the
\* expression changes, but is still True, the hold time is not restarted).
HoldKept ==
  (Settled /\ cfg.hold # None /\ cfg.hold_false = None /\ cfg.expr
     /\ first # None /\ ~dm.ended)
    => now - first < cfg.hold
=============================================================================
