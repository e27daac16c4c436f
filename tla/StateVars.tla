----------------------------- MODULE StateVars -----------------------------
(***************************************************************************)
(* State variables: HASS's state machine, the state_changed events still   *)
(* on their way, and class State, which copies each event into the queues  *)
(* of the triggers that watch the variable (state.py, and the listener in  *)
(* __init__.py).                                                           *)
(*                                                                         *)
(* A state is a record of the value s, one attribute a and the number n of *)
(* the change that produced it; n is history, to tell older from newer.    *)
(***************************************************************************)
EXTENDS Naturals, FiniteSets, SequencesExt

CONSTANTS
  Var,        \* entity ids
  Val,        \* values of a state
  Queue,      \* notify queues, one per state trigger or wait
  NamesOf,    \* the names each queue is registered with (state_trig_ident)
  Pyscript,   \* the variables of the domain pyscript
  MaxChange,  \* bound: changes of states
  Gone,       \* the state of a deleted variable
  NoAttr,     \* the attribute is not set
  NoKey,      \* notify_var_last has no such key
  Nothing,    \* the name is passed to the expression as None
  Unset       \* the name is left out and read when the expression runs

\* "v", "v.attr", "v.old", "v.old.attr" and a name without a dot.
Kind == {"value", "attr", "old", "oldattr", "plain"}
Attr == {NoAttr, "on"}
State == [s : Val \cup {Gone}, a : Attr, n : Nat]

ASSUME StateAssumption ==
  /\ \A q \in Queue : /\ NamesOf[q] \subseteq [var : Var, kind : Kind]
                      /\ IsFiniteSet(NamesOf[q])
  /\ Pyscript \subseteq Var
  /\ MaxChange \in Nat
  /\ Gone \notin Val
  /\ \A c \in {NoKey, Nothing, Unset} : c \notin State

VARIABLES
  hass,       \* hass.states
  bus,        \* state_changed events fired and not yet delivered
  known,      \* the keys of State.notify: a key is never removed
  notify,     \* State.notify: the queues registered per variable
  last,       \* State.notify_var_last
  queue,      \* the content of each notify queue
  persisted,  \* State.persisted_vars
  phase,      \* history: each queue is new, watching, then done
  log,        \* history: the variable of each change
  read        \* history: the change of each variable a watcher has got to

vars == <<hass, bus, known, notify, last, queue, persisted, phase, log, read>>

Init ==
  /\ hass = [v \in Var |-> [s |-> Gone, a |-> NoAttr, n |-> 0]]
  /\ bus = <<>>
  /\ known = {}
  /\ notify = [v \in Var |-> {}]
  /\ last = [v \in Var |-> NoKey]
  /\ queue = [q \in Queue |-> <<>>]
  /\ persisted = {}
  /\ phase = [q \in Queue |-> "new"]
  /\ log = <<>>
  /\ read = [q \in Queue |-> [v \in Var |-> 0]]

-----------------------------------------------------------------------------
(* HASS: a change of a state fires state_changed, an equal one does not *)

states_async_set(v, s, a) ==
  IF hass[v].s = s /\ hass[v].a = a
    THEN UNCHANGED <<hass, bus, log>>
    ELSE LET new == [s |-> s, a |-> a, n |-> Len(log) + 1]
         IN  /\ Len(log) < MaxChange
             /\ hass' = [hass EXCEPT ![v] = new]
             /\ bus' = Append(bus, [var |-> v, new |-> new, old |-> hass[v]])
             /\ log' = Append(log, v)

Exists(v) == hass[v].s # Gone

\* The events of v that are fired and not yet delivered.
UnderWay(v) == {i \in DOMAIN bus : bus[i].var = v}

\* Another integration sets or removes the state.
HassChange(v, s, a) ==
  /\ states_async_set(v, s, a)
  /\ UNCHANGED <<known, notify, last, queue, persisted, phase, read>>

-----------------------------------------------------------------------------
(* State.set and the operations built on it *)

\* Mutated form of monitored: a variable whose watchers are gone is forgotten.
monitored_now(v) == notify[v] # {}

\* A variable that has once been watched stays monitored.
monitored(v) == v \in known

set(v, s, a) ==
  /\ states_async_set(v, s, a)
  /\ last' = IF last[v] # NoKey \/ v \in known
               THEN [last EXCEPT ![v] = hass'[v]] ELSE last

\* x.y = value, or state.set: without attributes, those it has are kept.
Set(v, s, a) ==
  /\ set(v, s, IF a = NoAttr THEN hass[v].a ELSE a)
  /\ UNCHANGED <<known, notify, queue, persisted, phase, read>>

\* x.y = z.w: the attributes are those of the state copied.
SetCopy(v, w) ==
  /\ Exists(w)
  /\ set(v, hass[w].s, hass[w].a)
  /\ UNCHANGED <<known, notify, queue, persisted, phase, read>>

\* x.y.attr = value, and del x.y.attr with a = NoAttr.
SetAttr(v, a) ==
  /\ Exists(v)
  /\ a = NoAttr => hass[v].a # NoAttr
  /\ set(v, hass[v].s, a)
  /\ UNCHANGED <<known, notify, queue, persisted, phase, read>>

\* del x.y raises NameError for a variable that is not there, after it has
\* cleared the last value.
Delete(v) ==
  /\ states_async_set(v, Gone, NoAttr)
  /\ last' = IF last[v] # NoKey \/ v \in known
               THEN [last EXCEPT ![v] = hass'[v]] ELSE last
  /\ UNCHANGED <<known, notify, queue, persisted, phase, read>>

\* state.persist: a default value for a new variable, default attributes for
\* one that lacks them.
Persist(v, s, a) ==
  /\ v \in Pyscript
  /\ persisted' = persisted \cup {v}
  /\ \/ /\ ~Exists(v) /\ s # Gone
        /\ set(v, s, a)
     \/ /\ Exists(v) /\ a # NoAttr
        /\ set(v, hass[v].s, IF hass[v].a = NoAttr THEN a ELSE hass[v].a)
     \/ /\ IF Exists(v) THEN a = NoAttr ELSE s = Gone
        /\ UNCHANGED <<hass, bus, log, last>>
  /\ UNCHANGED <<known, notify, queue, phase, read>>

-----------------------------------------------------------------------------
(* Registration of the queues *)

\* Names of two or three parts; the others are skipped.
Watched(q) == {m \in NamesOf[q] : m.kind \in {"value", "attr", "old"}}

notify_add(q) ==
  /\ phase[q] = "new"
  /\ LET roots == {m.var : m \in Watched(q)}
     IN  /\ known' = known \cup roots
         /\ notify' = [v \in Var |-> IF v \in roots THEN notify[v] \cup {q}
                                                    ELSE notify[v]]
  /\ phase' = [phase EXCEPT ![q] = "watching"]
  /\ read' = [read EXCEPT ![q] = [v \in Var |->
                IF UnderWay(v) = {} THEN hass[v].n
                                    ELSE bus[Min(UnderWay(v))].old.n]]
  /\ UNCHANGED <<hass, bus, last, queue, persisted, log>>

\* Mutated form of dropped: it ends after the first variable.
dropped_first(q, order) == {order[1].var}

\* The variables notify_del takes q from when it iterates the names in this
\* order: it returns at the first name whose variable no longer has q, be it
\* because an earlier name of the same variable has removed it.
dropped(q, order) ==
  {order[i].var : i \in {i \in DOMAIN order :
     /\ \A j \in 1..i : q \in notify[order[j].var]
     /\ \A j, k \in 1..i : order[j].var = order[k].var => j = k}}

\* The order of a set of strings is arbitrary.
notify_del(q) ==
  /\ phase[q] = "watching"
  /\ \E order \in SetToSeqs(Watched(q)) :
       notify' = [v \in Var |-> IF v \in dropped(q, order)
                                  THEN notify[v] \ {q} ELSE notify[v]]
  /\ phase' = [phase EXCEPT ![q] = "done"]
  /\ UNCHANGED <<hass, bus, known, last, queue, persisted, log, read>>

-----------------------------------------------------------------------------
(* Delivery *)

\* notify_var_get: the state the name m is read from in a message about the
\* event e, given the last notified states.
notify_var_get(m, e, latest) ==
  IF m.kind \in {"old", "oldattr"}
    THEN IF m.var = e.var THEN e.old ELSE Nothing
  ELSE IF m.var = e.var /\ m.kind = "value" THEN e.new
  ELSE IF latest[m.var] # NoKey THEN latest[m.var]
  ELSE IF Exists(m.var) /\ (m.kind = "attr" => hass[m.var].a # NoAttr)
    THEN Unset ELSE Nothing

Message(q, e, latest) ==
  [var |-> e.var, new |-> e.new, old |-> e.old,
   seen |-> [m \in {x \in NamesOf[q] : x.kind # "plain"} |->
               notify_var_get(m, e, latest)]]

\* Mutated form of update: the messages are made before the last value is kept.
update_late(e) ==
  /\ last' = IF monitored(e.var) THEN [last EXCEPT ![e.var] = e.new] ELSE last
  /\ queue' = [q \in Queue |-> IF q \in notify[e.var]
                 THEN Append(queue[q], Message(q, e, last)) ELSE queue[q]]

\* Mutated form of update: the queue is a buffer of one.
update_latest(e) ==
  /\ last' = IF monitored(e.var) THEN [last EXCEPT ![e.var] = e.new] ELSE last
  /\ queue' = [q \in Queue |-> IF q \in notify[e.var]
                 THEN <<Message(q, e, last')>> ELSE queue[q]]

update(e) ==
  /\ last' = IF monitored(e.var) THEN [last EXCEPT ![e.var] = e.new] ELSE last
  /\ queue' = [q \in Queue |-> IF q \in notify[e.var]
                 THEN Append(queue[q], Message(q, e, last')) ELSE queue[q]]

\* The listener of state_changed.
state_changed ==
  /\ bus # <<>>
  /\ update(Head(bus))
  /\ bus' = Tail(bus)
  /\ UNCHANGED <<hass, known, notify, persisted, phase, log, read>>

\* The watcher takes a message.
Get(q) ==
  /\ phase[q] = "watching"
  /\ queue[q] # <<>>
  /\ queue' = [queue EXCEPT ![q] = Tail(@)]
  /\ read' = [read EXCEPT ![q][Head(queue[q]).var] = Head(queue[q]).new.n]
  /\ UNCHANGED <<hass, bus, known, notify, last, persisted, phase, log>>

Next ==
  \/ state_changed
  \/ \E q \in Queue : notify_add(q) \/ notify_del(q) \/ Get(q)
  \/ \E v \in Var :
       \/ \E s \in Val, a \in Attr : HassChange(v, s, a) \/ Set(v, s, a)
       \/ HassChange(v, Gone, NoAttr)
       \/ Delete(v)
       \/ \E w \in Var \ {v} : SetCopy(v, w)
       \/ \E a \in Attr : SetAttr(v, a)
       \/ \E s \in Val \cup {Gone}, a \in Attr : Persist(v, s, a)

Spec == Init /\ [][Next]_vars

-----------------------------------------------------------------------------
(* Properties *)

\* Whoever has v at the change `from` has it at the change n after the first i
\* of these events or messages.
After(path, i, v, from, n) ==
  \/ n = from /\ \A j \in 1..i : path[j].var # v
  \/ \E j \in 1..i : /\ path[j].var = v /\ path[j].new.n = n
                     /\ \A k \in j + 1..i : path[k].var # v

\* They lead v from one change to another, each starting where the one before
\* it ended.
Chain(path, v, from, to) ==
  /\ After(path, Len(path), v, from, to)
  /\ \A i \in DOMAIN path :
       path[i].var = v => After(path, i - 1, v, from, path[i].old.n)

\* A watcher misses no change and sees none twice or out of order: from the
\* last change it has taken, over its queue and then the events under way, each
\* change of a variable starts where the one before it ended, up to the state
\* HASS has now.
NoChangeMissed ==
  \A v \in Var : \A q \in notify[v] :
    phase[q] = "watching" =>
      \E n \in 0..Len(log) : /\ Chain(queue[q], v, read[q][v], n)
                             /\ Chain(bus, v, n, hass[v].n)

\* A message shows its own variable as the event left it, value, attribute and
\* old value alike, however far HASS has moved on meanwhile (the reason for
\* notify_var_last, state.py:94-99).
OwnChangeSeen ==
  \A q \in Queue : \A i \in DOMAIN queue[q] :
    LET e == queue[q][i] IN
      \A m \in DOMAIN e.seen :
        m.var = e.var => e.seen[m] = IF m.kind \in {"value", "attr"} THEN e.new
                                                                      ELSE e.old

\* A trigger expression never sees another variable older than it was when
\* the change that triggers it happened: a change of the other variable that
\* came first is in what is kept of it, also when nobody watched it then.
NeverOlder ==
  \A q \in Queue : \A i \in DOMAIN queue[q] :
    LET e == queue[q][i] IN
      \A m \in DOMAIN e.seen :
        (m.var # e.var /\ e.seen[m] \notin {Nothing, Unset}) =>
          \A k \in (e.seen[m].n + 1)..e.new.n : log[k] # m.var

\* When no event of a variable is under way, the value kept of it is the one
\* HASS has, also when nobody has watched it for a while.
LastIsFresh ==
  \A v \in Var : (last[v] # NoKey /\ UnderWay(v) = {}) => last[v] = hass[v]

\* A queue that is unregistered is in no table, when its names are of
\* different variables.
Unregistered ==
  \A q \in Queue :
    (phase[q] = "done" /\ \A m, k \in Watched(q) : m.var = k.var => m = k)
      => \A v \in Var : q \notin notify[v]

\* notify_del unregisters the queue, whatever its names (state.py:163).
AlwaysUnregistered ==
  \A q \in Queue : phase[q] = "done" => \A v \in Var : q \notin notify[v]
=============================================================================
