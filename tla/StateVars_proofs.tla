-------------------------- MODULE StateVars_proofs --------------------------
(* Proofs about StateVars, for any variables, triggers and number of changes. *)
EXTENDS StateVars, SequenceTheorems, FiniteSetTheorems, WellFoundedInduction,
        TLAPS

\* A nonempty set of naturals has a least element, which is its Min.
LEMMA LeastNatural ==
  ASSUME NEW T, T \subseteq Nat, T # {}
  PROVE  Min(T) \in T /\ \A y \in T : Min(T) <= y
<1> DEFINE R == OpToRel(<, Nat)
<1>1. IsWellFoundedOn(R, Nat)
  BY NatLessThanWellFounded
<1>2. PICK x \in T : \A y \in T : ~(<<y, x>> \in R)
  <2> HIDE DEF R
  <2> QED
    BY <1>1, WFMin
<1>3. \A y \in T : ~(y < x)
  BY <1>2 DEF OpToRel
<1>4. \A y \in T : x <= y
  BY <1>3
<1>5. QED
  BY <1>4 DEF Min

-----------------------------------------------------------------------------
(* Chains of changes *)

\* What comes behind the first i events does not matter to them.
LEMMA AfterStill ==
  ASSUME NEW E, NEW path \in Seq(E), NEW e \in E, NEW i \in 0..Len(path),
         NEW v, NEW from, NEW n
  PROVE  After(Append(path, e), i, v, from, n) <=> After(path, i, v, from, n)
<1>1. \A j \in 1..i : Append(path, e)[j] = path[j]
  OBVIOUS
<1>2. \A j \in 1..i : \A k \in j + 1..i : k \in 1..i
  OBVIOUS
<1>3. QED
  BY <1>1, <1>2 DEF After

\* A chain goes on with an event of another variable, or one that starts where
\* the chain ends.
LEMMA ChainAppend ==
  ASSUME NEW E, NEW path \in Seq(E), NEW e \in E, NEW v, NEW from, NEW to,
         Chain(path, v, from, to), e.var = v => e.old.n = to
  PROVE  Chain(Append(path, e), v, from, IF e.var = v THEN e.new.n ELSE to)
<1> DEFINE p == Append(path, e)
           end == IF e.var = v THEN e.new.n ELSE to
           l == Len(path)
<1>1. /\ l \in Nat /\ Len(p) = l + 1 /\ DOMAIN p = 1..l + 1 /\ DOMAIN path = 1..l
      /\ p[l + 1] = e /\ \A j \in 1..l : p[j] = path[j]
  OBVIOUS
<1>2. \A i \in 0..l : \A n : After(p, i, v, from, n) <=> After(path, i, v, from, n)
  BY AfterStill
<1> HIDE DEF p
<1>3. After(p, l, v, from, to)
  BY <1>1, <1>2 DEF Chain
<1>4. After(p, l + 1, v, from, end)
  <2>1. CASE e.var = v
    <3>1. /\ l + 1 \in 1..l + 1 /\ p[l + 1].var = v /\ p[l + 1].new.n = end
          /\ \A k \in (l + 1) + 1..l + 1 : p[k].var # v
      BY <1>1, <2>1
    <3>2. QED
      BY <3>1 DEF After
  <2>2. CASE e.var # v
    <3>1. \A k \in 1..l + 1 : k \in 1..l \/ p[k].var # v
      BY <1>1, <2>2
    <3>2. CASE to = from /\ \A j \in 1..l : p[j].var # v
      BY <2>2, <3>1, <3>2 DEF After
    <3>3. ASSUME NEW j \in 1..l, p[j].var = v, p[j].new.n = to,
                 \A k \in j + 1..l : p[k].var # v
          PROVE  After(p, l + 1, v, from, end)
      <4>1. \A k \in j + 1..l + 1 : p[k].var # v
        BY <1>1, <2>2, <3>3
      <4>2. j \in 1..l + 1
        BY <1>1
      <4>3. QED
        BY <2>2, <3>3, <4>1, <4>2 DEF After
    <3>4. QED
      BY <1>3, <3>2, <3>3 DEF After
  <2>3. QED
    BY <2>1, <2>2
<1>5. ASSUME NEW i \in 1..l + 1, p[i].var = v
      PROVE  After(p, i - 1, v, from, p[i].old.n)
  <2>1. CASE i = l + 1
    BY <1>1, <1>3, <1>5, <2>1
  <2>2. CASE i \in 1..l
    <3>1. i - 1 \in 0..l
      BY <1>1, <2>2
    <3>2. After(path, i - 1, v, from, path[i].old.n)
      BY <1>1, <1>5, <2>2 DEF Chain
    <3>3. QED
      BY <1>1, <1>2, <2>2, <3>1, <3>2
  <2>3. QED
    BY <1>1, <2>1, <2>2
<1>6. QED
  BY <1>1, <1>4, <1>5 DEF Chain, p

\* Without its first event a chain starts where that one ended.
LEMMA ChainTail ==
  ASSUME NEW E, NEW path \in Seq(E), path # <<>>, NEW v, NEW from, NEW to,
         Chain(path, v, from, to)
  PROVE  /\ Head(path).var = v => Head(path).old.n = from
         /\ Chain(Tail(path), v,
                  IF Head(path).var = v THEN Head(path).new.n ELSE from, to)
<1> DEFINE t == Tail(path)
           h == Head(path)
           l == Len(t)
           start == IF h.var = v THEN h.new.n ELSE from
<1>1. /\ l \in Nat /\ Len(path) = l + 1 /\ DOMAIN path = 1..l + 1 /\ DOMAIN t = 1..l
      /\ h = path[1] /\ \A j \in 1..l : t[j] = path[j + 1]
  OBVIOUS
<1> HIDE DEF t, h
<1>2. h.var = v => h.old.n = from
  <2>1. h.var = v => After(path, 0, v, from, h.old.n)
    BY <1>1 DEF Chain
  <2>2. QED
    BY <2>1 DEF After
<1>3. ASSUME NEW i \in 0..l, NEW n, After(path, i + 1, v, from, n)
      PROVE  After(t, i, v, start, n)
  <2>1. CASE n = from /\ \A j \in 1..i + 1 : path[j].var # v
    <3>1. start = from
      BY <1>1, <2>1
    <3>2. \A j \in 1..i : t[j].var # v
      BY <1>1, <2>1
    <3>3. QED
      BY <2>1, <3>1, <3>2 DEF After
  <2>2. ASSUME NEW j \in 1..i + 1, path[j].var = v, path[j].new.n = n,
               \A k \in j + 1..i + 1 : path[k].var # v
        PROVE  After(t, i, v, start, n)
    <3>1. CASE j = 1
      <4>1. \A k \in 1..i : t[k].var # v
        <5>1. TAKE k \in 1..i
        <5>2. k + 1 \in j + 1..i + 1 /\ t[k] = path[k + 1]
          BY <1>1, <3>1
        <5>3. QED
          BY <2>2, <5>2
      <4>2. n = start
        BY <1>1, <2>2, <3>1
      <4>3. QED
        BY <4>1, <4>2 DEF After
    <3>2. CASE j # 1
      <4>1. j - 1 \in 1..i /\ t[j - 1] = path[j]
        BY <1>1, <3>2
      <4>2. \A k \in (j - 1) + 1..i : t[k].var # v
        <5>1. TAKE k \in (j - 1) + 1..i
        <5>2. k + 1 \in j + 1..i + 1 /\ t[k] = path[k + 1]
          BY <1>1, <3>2
        <5>3. QED
          BY <2>2, <5>2
      <4>3. QED
        BY <2>2, <4>1, <4>2 DEF After
    <3>3. QED
      BY <3>1, <3>2
  <2>3. QED
    BY <1>3, <2>1, <2>2 DEF After
<1>4. After(t, l, v, start, to)
  BY <1>1, <1>3 DEF Chain
<1>5. ASSUME NEW i \in 1..l, t[i].var = v
      PROVE  After(t, i - 1, v, start, t[i].old.n)
  <2>1. i + 1 \in DOMAIN path /\ t[i] = path[i + 1] /\ (i + 1) - 1 = (i - 1) + 1
          /\ i - 1 \in 0..l
    BY <1>1
  <2>2. After(path, (i - 1) + 1, v, from, path[i + 1].old.n)
    BY <1>5, <2>1 DEF Chain
  <2>3. QED
    BY <1>3, <2>1, <2>2
<1>6. QED
  BY <1>1, <1>2, <1>4, <1>5 DEF Chain, t, h

\* The chain of nothing.
LEMMA ChainEmpty ==
  ASSUME NEW v, NEW from, NEW to
  PROVE  Chain(<<>>, v, from, to) <=> from = to
<1>1. Len(<<>>) = 0 /\ DOMAIN <<>> = {} /\ 1..0 = {}
  OBVIOUS
<1>2. QED
  BY <1>1 DEF Chain, After

\* A chain starts at the old state of the first event of the variable.
LEMMA ChainStart ==
  ASSUME NEW E, NEW path \in Seq(E), NEW v, NEW from, NEW to,
         Chain(path, v, from, to)
  PROVE  LET mine == {i \in DOMAIN path : path[i].var = v}
         IN from = IF mine = {} THEN to ELSE path[Min(mine)].old.n
<1> DEFINE mine == {i \in DOMAIN path : path[i].var = v}
<1>1. DOMAIN path = 1..Len(path) /\ Len(path) \in Nat
  OBVIOUS
<1>2. CASE mine = {}
  BY <1>1, <1>2 DEF Chain, After
<1>3. CASE mine # {}
  <2> DEFINE m == Min(mine)
  <2>1. mine \subseteq Nat
    BY <1>1
  <2>2. m \in mine /\ \A y \in mine : m <= y
    <3> HIDE DEF mine
    <3> QED
      BY <1>3, <2>1, LeastNatural
  <2> HIDE DEF m
  <2>3. m \in 1..Len(path) /\ path[m].var = v
    BY <1>1, <2>2
  <2>4. \A j \in 1..m - 1 : path[j].var # v
    BY <1>1, <2>2, <2>3
  <2>5. After(path, m - 1, v, from, path[m].old.n)
    BY <1>1, <2>3 DEF Chain
  <2>6. from = path[m].old.n
    BY <2>4, <2>5 DEF After
  <2>7. QED
    BY <1>3, <2>6 DEF m
<1>4. QED
  BY <1>2, <1>3

-----------------------------------------------------------------------------
(* The inductive invariant *)

Event == [var : Var, new : State, old : State]

\* What a queue holds.
Msg(q) == [var : Var, new : State, old : State,
           seen : [{m \in NamesOf[q] : m.kind # "plain"} ->
                     State \cup {Nothing, Unset}]]

\* Every part of the state has its type.
TypeInv ==
  /\ hass \in [Var -> State]
  /\ bus \in Seq(Event)
  /\ known \subseteq Var
  /\ notify \in [Var -> SUBSET Queue]
  /\ last \in [Var -> State \cup {NoKey}]
  /\ DOMAIN queue = Queue /\ \A q \in Queue : queue[q] \in Seq(Msg(q))
  /\ phase \in [Queue -> {"new", "watching", "done"}]
  /\ log \in Seq(Var)
  /\ read \in [Queue -> [Var -> Nat]]

\* The changes whose event is delivered: all but those under way.
delivered == Len(log) - Len(bus)

\* The events under way are the last changes of the log, in its order.
BusIsLog ==
  /\ Len(bus) <= Len(log)
  /\ \A i \in DOMAIN bus : /\ bus[i].new.n = delivered + i
                           /\ log[delivered + i] = bus[i].var

\* HASS has the last change of each variable, and an event under way that no
\* other of its variable follows brings the state HASS has.
HassIsLatest ==
  \A v \in Var :
    /\ hass[v].n <= Len(log)
    /\ \A k \in hass[v].n + 1..Len(log) : log[k] # v
    /\ \A i \in DOMAIN bus :
         bus[i].var = v /\ (\A k \in i + 1..Len(bus) : bus[k].var # v)
           => bus[i].new = hass[v]

\* The events of a variable under way lead from some change to the state HASS
\* has now.
BusChain ==
  \A v \in Var : \E n \in 0..Len(log) : Chain(bus, v, n, hass[v].n)

\* What is kept of a variable is at least as new as its last delivered change,
\* and is kept only of a variable that is monitored.
LastInv ==
  \A v \in Var : last[v] # NoKey =>
    /\ v \in known
    /\ \A k \in last[v].n + 1..delivered : log[k] # v

\* A queue is in the tables of the variables it watches, from its registration
\* to its end, and what has a queue is monitored.
Registered ==
  /\ \A q \in Queue :
       CASE phase[q] = "new" -> queue[q] = <<>> /\ \A v \in Var : q \notin notify[v]
         [] phase[q] = "watching" ->
              \A v \in Var : q \in notify[v] <=> \E m \in Watched(q) : m.var = v
         [] OTHER -> TRUE
  /\ \A v \in Var : notify[v] # {} => v \in known

\* What a queue holds is about a change that has been delivered.
QueueIsOld ==
  \A q \in Queue : \A i \in DOMAIN queue[q] : queue[q][i].new.n <= delivered

VarsInv == /\ TypeInv /\ BusIsLog /\ HassIsLatest /\ BusChain
           /\ LastInv /\ Registered /\ QueueIsOld

-----------------------------------------------------------------------------
(* The steps *)

\* What any way to write v does to the state machine, and to the value kept.
Change(v, new) ==
  /\ hass' = [hass EXCEPT ![v] = new]
  /\ bus' = Append(bus, [var |-> v, new |-> new, old |-> hass[v]])
  /\ log' = Append(log, v)

Write(v) ==
  /\ \/ \E new \in State : new.n = Len(log) + 1 /\ Change(v, new)
     \/ UNCHANGED <<hass, bus, log>>
  /\ \/ UNCHANGED last
     \/ /\ last[v] # NoKey \/ v \in known
        /\ last' = [last EXCEPT ![v] = hass'[v]]
  /\ UNCHANGED <<known, notify, queue, phase, read>>

\* states_async_set writes v.
LEMMA SetIsChange ==
  ASSUME TypeInv, NEW v \in Var, NEW s \in Val \cup {Gone}, NEW a \in Attr,
         states_async_set(v, s, a)
  PROVE  \/ \E new \in State : new.n = Len(log) + 1 /\ Change(v, new)
         \/ UNCHANGED <<hass, bus, log>>
<1> DEFINE new == [s |-> s, a |-> a, n |-> Len(log) + 1]
<1>1. CASE hass[v].s = s /\ hass[v].a = a
  BY <1>1 DEF states_async_set
<1>2. CASE ~(hass[v].s = s /\ hass[v].a = a)
  <2>1. Len(log) \in Nat
    BY DEF TypeInv
  <2>2. new \in State /\ new.n = Len(log) + 1
    BY <2>1 DEF State
  <2>3. Change(v, new)
    BY <1>2 DEF states_async_set, Change
  <2>4. QED
    BY <2>2, <2>3
<1>3. QED
  BY <1>1, <1>2

\* State.set writes v.
LEMMA SetIsWrite ==
  ASSUME TypeInv, NEW v \in Var, NEW s \in Val \cup {Gone}, NEW a \in Attr,
         set(v, s, a), UNCHANGED <<known, notify, queue, phase, read>>
  PROVE  Write(v)
<1>1. states_async_set(v, s, a)
  BY DEF set
<1>2. \/ UNCHANGED last
      \/ /\ last[v] # NoKey \/ v \in known
         /\ last' = [last EXCEPT ![v] = hass'[v]]
  BY DEF set
<1>3. QED
  BY <1>1, <1>2, SetIsChange DEF Write

\* Every step writes a variable, delivers an event, registers or unregisters a
\* queue, or takes a message.
LEMMA StepCases ==
  ASSUME TypeInv, Next
  PROVE  \/ \E v \in Var : Write(v)
         \/ state_changed
         \/ \E q \in Queue : notify_add(q) \/ notify_del(q) \/ Get(q)
<1>1. ASSUME NEW v \in Var, NEW s \in Val \cup {Gone}, NEW a \in Attr,
             HassChange(v, s, a)
      PROVE  Write(v)
  <2>1. states_async_set(v, s, a)
    BY <1>1 DEF HassChange
  <2>2. QED
    BY <1>1, <2>1, SetIsChange DEF HassChange, Write
<1>2. ASSUME NEW v \in Var PROVE hass[v].s \in Val \cup {Gone} /\ hass[v].a \in Attr
  BY DEF TypeInv, State
<1>3. ASSUME NEW v \in Var, NEW s \in Val, NEW a \in Attr, Set(v, s, a)
      PROVE  Write(v)
  <2> DEFINE b == IF a = NoAttr THEN hass[v].a ELSE a
  <2>1. s \in Val \cup {Gone} /\ b \in Attr
    BY <1>2
  <2>2. set(v, s, b) /\ UNCHANGED <<known, notify, queue, phase, read>>
    BY <1>3 DEF Set
  <2> HIDE DEF b
  <2>3. QED
    BY <2>1, <2>2, SetIsWrite
<1>4. ASSUME NEW v \in Var, Delete(v)
      PROVE  Write(v)
  <2>1. states_async_set(v, Gone, NoAttr) /\ NoAttr \in Attr
    BY <1>4 DEF Delete, Attr
  <2>2. \/ UNCHANGED last
        \/ /\ last[v] # NoKey \/ v \in known
           /\ last' = [last EXCEPT ![v] = hass'[v]]
    BY <1>4 DEF Delete
  <2>3. \/ \E new \in State : new.n = Len(log) + 1 /\ Change(v, new)
        \/ UNCHANGED <<hass, bus, log>>
    BY <2>1, SetIsChange
  <2>4. QED
    BY <1>4, <2>2, <2>3 DEF Delete, Write
<1>5. ASSUME NEW v \in Var, NEW w \in Var, SetCopy(v, w)
      PROVE  Write(v)
  <2>1. /\ set(v, hass[w].s, hass[w].a)
        /\ UNCHANGED <<known, notify, queue, phase, read>>
    BY <1>5 DEF SetCopy
  <2>2. QED
    BY <1>2, <2>1, SetIsWrite
<1>6. ASSUME NEW v \in Var, NEW a \in Attr, SetAttr(v, a)
      PROVE  Write(v)
  <2>1. set(v, hass[v].s, a) /\ UNCHANGED <<known, notify, queue, phase, read>>
    BY <1>6 DEF SetAttr
  <2>2. QED
    BY <1>2, <2>1, SetIsWrite
<1>7. ASSUME NEW v \in Var, NEW s \in Val \cup {Gone}, NEW a \in Attr,
             Persist(v, s, a)
      PROVE  Write(v)
  <2>1. UNCHANGED <<known, notify, queue, phase, read>>
    BY <1>7 DEF Persist
  <2>2. CASE set(v, s, a)
    BY <2>1, <2>2, SetIsWrite
  <2>3. CASE set(v, hass[v].s, IF hass[v].a = NoAttr THEN a ELSE hass[v].a)
    <3> DEFINE b == IF hass[v].a = NoAttr THEN a ELSE hass[v].a
    <3>1. b \in Attr /\ hass[v].s \in Val \cup {Gone}
      BY <1>2
    <3>2. set(v, hass[v].s, b)
      BY <2>3
    <3> HIDE DEF b
    <3>3. QED
      BY <2>1, <3>1, <3>2, SetIsWrite
  <2>4. CASE UNCHANGED <<hass, bus, log, last>>
    BY <2>1, <2>4 DEF Write
  <2>5. QED
    BY <1>7, <2>2, <2>3, <2>4 DEF Persist
<1>8. Gone \in Val \cup {Gone} /\ NoAttr \in Attr /\ Val \subseteq Val \cup {Gone}
  BY DEF Attr
<1>9. QED
  BY <1>1, <1>3, <1>4, <1>5, <1>6, <1>7, <1>8 DEF Next

-----------------------------------------------------------------------------
(* What each step preserves *)

\* The parts of the invariant hold at the start.
LEMMA InitVars == ASSUME StateAssumption, Init PROVE VarsInv
<1>1. TypeInv
  BY DEF Init, TypeInv, State, Attr
<1>2. /\ Len(log) = 0 /\ Len(bus) = 0 /\ DOMAIN bus = {} /\ delivered = 0
      /\ \A v \in Var : hass[v].n = 0
  BY DEF Init, delivered
<1>3. BusIsLog /\ HassIsLatest /\ LastInv
  BY <1>2 DEF Init, BusIsLog, HassIsLatest, LastInv
<1>4. BusChain
  <2>1. \A v \in Var : Chain(bus, v, 0, hass[v].n)
    BY <1>2, ChainEmpty DEF Init
  <2>2. QED
    BY <1>2, <2>1 DEF BusChain
<1>5. Registered
  BY DEF Init, Registered
<1>6. QueueIsOld
  BY DEF Init, QueueIsOld
<1>7. QED
  BY <1>1, <1>3, <1>4, <1>5, <1>6 DEF VarsInv

\* A write keeps them.
LEMMA WriteStep ==
  ASSUME StateAssumption, VarsInv, NEW v \in Var, Write(v)
  PROVE  VarsInv'
<1> USE DEF VarsInv
<1>1. UNCHANGED <<known, notify, queue, phase, read>>
  BY DEF Write
<1>2. CASE UNCHANGED <<hass, bus, log>>
  <2>1. delivered' = delivered
    BY <1>2 DEF delivered
  <2>2. last' \in [Var -> State \cup {NoKey}]
    BY <1>2 DEF Write, TypeInv
  <2>3. TypeInv'
    BY <1>1, <1>2, <2>2 DEF TypeInv
  <2>4. BusIsLog' /\ HassIsLatest' /\ BusChain'
    BY <1>2, <2>1 DEF BusIsLog, HassIsLatest, BusChain
  <2>5. LastInv'
    <3>1. CASE UNCHANGED last
      BY <1>1, <1>2, <2>1, <3>1 DEF LastInv
    <3>2. CASE /\ last[v] # NoKey \/ v \in known
               /\ last' = [last EXCEPT ![v] = hass'[v]]
      <4>1. v \in known
        BY <3>2 DEF LastInv
      <4>2. \A k \in last'[v].n + 1..delivered : log[k] # v
        <5>1. last'[v] = hass[v] /\ hass[v].n \in Nat
          BY <1>2, <3>2 DEF TypeInv, State
        <5>2. delivered <= Len(log) /\ delivered \in Int /\ Len(log) \in Nat
          BY DEF delivered, TypeInv
        <5>3. QED
          BY <5>1, <5>2 DEF HassIsLatest
      <4>3. \A w \in Var : w # v => last'[w] = last[w]
        BY <3>2 DEF TypeInv
      <4>4. QED
        BY <1>1, <1>2, <2>1, <4>1, <4>2, <4>3 DEF LastInv
    <3>3. QED
      BY <3>1, <3>2 DEF Write
  <2>6. Registered' /\ QueueIsOld'
    BY <1>1, <2>1 DEF Registered, QueueIsOld, Watched
  <2>7. QED
    BY <2>3, <2>4, <2>5, <2>6
<1>3. ASSUME NEW new \in State, new.n = Len(log) + 1, Change(v, new)
      PROVE  VarsInv'
  <2> DEFINE e == [var |-> v, new |-> new, old |-> hass[v]]
             l == Len(bus)
             c == Len(log)
  <2>1. /\ e \in Event /\ l \in Nat /\ c \in Nat /\ l <= c
        /\ e.var = v /\ e.new = new /\ e.old = hass[v]
    BY DEF TypeInv, Event, BusIsLog
  <2>2. /\ Len(bus') = l + 1 /\ DOMAIN bus' = 1..l + 1 /\ DOMAIN bus = 1..l
        /\ bus'[l + 1] = e /\ \A i \in 1..l : bus'[i] = bus[i]
    BY <1>3, <2>1 DEF Change, TypeInv
  <2>3. /\ Len(log') = c + 1 /\ log'[c + 1] = v /\ \A i \in 1..c : log'[i] = log[i]
    BY <1>3, <2>1 DEF Change, TypeInv
  <2>4. hass'[v] = new /\ \A w \in Var : w # v => hass'[w] = hass[w]
    BY <1>3 DEF Change, TypeInv
  <2>5. /\ delivered' = delivered /\ delivered = c - l
    BY <2>1, <2>2, <2>3 DEF delivered
  <2>6. last' \in [Var -> State \cup {NoKey}]
    BY <2>4 DEF Write, TypeInv
  <2>7. TypeInv'
    <3>1. hass' \in [Var -> State] /\ log' \in Seq(Var)
      BY <1>3 DEF Change, TypeInv
    <3>2. bus' \in Seq(Event)
      <4> HIDE DEF e
      <4>1. bus' = Append(bus, e)
        BY <1>3 DEF Change, e
      <4>2. QED
        BY <2>1, <4>1 DEF TypeInv
    <3>3. QED
      BY <1>1, <2>6, <3>1, <3>2 DEF TypeInv
  <2>8. bus' = Append(bus, e)
    BY <1>3 DEF Change
  <2> HIDE DEF e, l, c
  <2>9. BusIsLog'
    <3>1. Len(bus') <= Len(log')
      BY <2>1, <2>2, <2>3
    <3>2. ASSUME NEW i \in 1..l + 1
          PROVE  bus'[i].new.n = delivered + i /\ log'[delivered + i] = bus'[i].var
      <4>1. CASE i = l + 1
        <5>1. delivered + i = c + 1
          BY <2>1, <2>5, <4>1
        <5>2. QED
          BY <1>3, <2>1, <2>2, <2>3, <4>1, <5>1 DEF c
      <4>2. CASE i \in 1..l
        <5>1. delivered + i \in 1..c
          BY <2>1, <2>5, <4>2
        <5>2. bus[i].new.n = delivered + i /\ log[delivered + i] = bus[i].var
          BY <2>2, <4>2 DEF BusIsLog
        <5>3. QED
          BY <2>2, <2>3, <4>2, <5>1, <5>2
      <4>3. QED
        BY <2>1, <4>1, <4>2
    <3>3. QED
      BY <2>2, <2>5, <3>1, <3>2 DEF BusIsLog
  <2>10. HassIsLatest'
    <3> SUFFICES ASSUME NEW w \in Var
                 PROVE  /\ hass'[w].n <= c + 1
                        /\ \A k \in hass'[w].n + 1..c + 1 : log'[k] # w
                        /\ \A i \in 1..l + 1 :
                             bus'[i].var = w /\ (\A k \in i + 1..l + 1 : bus'[k].var # w)
                               => bus'[i].new = hass'[w]
      BY <2>2, <2>3 DEF HassIsLatest
    <3>1. CASE w = v
      <4>1. hass'[w].n = c + 1
        BY <1>3, <2>4, <3>1 DEF c
      <4>2. ASSUME NEW i \in 1..l + 1, bus'[i].var = w,
                   \A k \in i + 1..l + 1 : bus'[k].var # w
            PROVE  bus'[i].new = hass'[w]
        <5>1. i = l + 1
          <6>1. bus'[l + 1].var = w
            BY <2>1, <2>2, <3>1
          <6>2. QED
            BY <2>1, <4>2, <6>1
        <5>2. QED
          BY <2>1, <2>2, <2>4, <3>1, <5>1
      <4>3. QED
        BY <2>1, <4>1, <4>2
    <3>2. CASE w # v
      <4>1. hass'[w] = hass[w] /\ hass[w].n \in Nat /\ hass[w].n <= c
            /\ \A k \in hass[w].n + 1..c : log[k] # w
        BY <2>4, <3>2 DEF TypeInv, State, HassIsLatest, c
      <4>2. \A k \in hass[w].n + 1..c + 1 : log'[k] # w
        <5>1. TAKE k \in hass[w].n + 1..c + 1
        <5>2. CASE k = c + 1
          BY <2>3, <3>2, <5>2
        <5>3. CASE k # c + 1
          <6>1. k \in hass[w].n + 1..c /\ k \in 1..c
            BY <2>1, <4>1, <5>3
          <6>2. QED
            BY <2>3, <4>1, <6>1
        <5>4. QED
          BY <5>2, <5>3
      <4>3. ASSUME NEW i \in 1..l + 1, bus'[i].var = w,
                   \A k \in i + 1..l + 1 : bus'[k].var # w
            PROVE  bus'[i].new = hass'[w]
        <5>1. i \in 1..l
          BY <2>1, <2>2, <3>2, <4>3
        <5>2. \A k \in i + 1..l : bus[k].var # w
          BY <2>1, <2>2, <4>3, <5>1
        <5>3. QED
          BY <2>2, <4>1, <4>3, <5>1, <5>2 DEF HassIsLatest, l
      <4>4. QED
        BY <2>1, <4>1, <4>2, <4>3
    <3>3. QED
      BY <3>1, <3>2
  <2>11. BusChain'
    <3> SUFFICES ASSUME NEW w \in Var
                 PROVE  \E n \in 0..c + 1 : Chain(bus', w, n, hass'[w].n)
      BY <2>3 DEF BusChain
    <3>1. PICK n \in 0..c : Chain(bus, w, n, hass[w].n)
      BY DEF BusChain, c
    <3>2. e.var = w => e.old.n = hass[w].n
      BY <2>1
    <3>3. Chain(Append(bus, e), w, n, IF e.var = w THEN e.new.n ELSE hass[w].n)
      BY <2>1, <3>1, <3>2, ChainAppend DEF TypeInv
    <3>4. (IF e.var = w THEN e.new.n ELSE hass[w].n) = hass'[w].n
      BY <2>1, <2>4
    <3>5. n \in 0..c + 1
      BY <2>1
    <3>6. QED
      BY <2>8, <3>3, <3>4, <3>5
  <2>12. LastInv'
    <3> SUFFICES ASSUME NEW w \in Var, last'[w] # NoKey
                 PROVE  /\ w \in known
                        /\ \A k \in last'[w].n + 1..delivered : log'[k] # w
      BY <1>1, <2>5 DEF LastInv
    <3>1. CASE last'[w] = last[w]
      <4>1. w \in known /\ last[w].n \in Nat
        BY <3>1 DEF LastInv, TypeInv, State
      <4>2. \A k \in last[w].n + 1..delivered : k \in 1..c
        BY <2>1, <2>5, <4>1
      <4>3. QED
        BY <2>3, <3>1, <4>1, <4>2 DEF LastInv
    <3>2. CASE last'[w] # last[w]
      <4>1. /\ w = v /\ last'[w] = new
            /\ last[v] # NoKey \/ v \in known
        BY <2>4, <3>2 DEF Write, TypeInv
      <4>2. last'[w].n = c + 1
        BY <1>3, <4>1 DEF c
      <4>3. QED
        BY <2>1, <2>5, <4>1, <4>2 DEF LastInv
    <3>3. QED
      BY <3>1, <3>2
  <2>13. Registered' /\ QueueIsOld'
    BY <1>1, <2>5 DEF Registered, QueueIsOld, Watched
  <2>14. QED
    BY <2>7, <2>9, <2>10, <2>11, <2>12, <2>13
<1>4. QED
  BY <1>2, <1>3 DEF Write

\* What a delivery does to the bus and to what is kept and queued.
LEMMA Delivery ==
  ASSUME StateAssumption, VarsInv, state_changed
  PROVE  LET e == Head(bus) IN
         /\ e \in Event /\ e = bus[1] /\ 1 \in DOMAIN bus
         /\ Len(bus') = Len(bus) - 1 /\ DOMAIN bus' = 1..Len(bus) - 1
         /\ \A i \in 1..Len(bus) - 1 : bus'[i] = bus[i + 1] /\ i + 1 \in DOMAIN bus
         /\ delivered' = delivered + 1 /\ delivered \in Nat
         /\ delivered + 1 <= Len(log) /\ Len(log) \in Nat
         /\ e.new.n = delivered + 1 /\ log[delivered + 1] = e.var
         /\ \A w \in Var : last'[w] = IF w = e.var /\ w \in known THEN e.new
                                                               ELSE last[w]
         /\ \A q \in Queue : queue'[q] = IF q \in notify[e.var]
              THEN Append(queue[q], Message(q, e, last')) ELSE queue[q]
         /\ \A q \in Queue : q \in notify[e.var] =>
              Message(q, e, last') \in Msg(q) /\ queue[q] \in Seq(Msg(q))
<1> USE DEF VarsInv
<1> DEFINE e == Head(bus)
<1>1. /\ bus # <<>> /\ bus' = Tail(bus) /\ update(e)
      /\ UNCHANGED <<hass, known, notify, phase, log, read>>
  BY DEF state_changed
<1>2. /\ e \in Event /\ e = bus[1] /\ Len(bus) \in Nat \ {0}
      /\ DOMAIN bus = 1..Len(bus)
  BY <1>1 DEF TypeInv
<1>3. /\ bus' \in Seq(Event) /\ Len(bus') = Len(bus) - 1
      /\ DOMAIN bus' = 1..Len(bus) - 1
      /\ \A i \in 1..Len(bus) - 1 : bus'[i] = bus[i + 1]
  BY <1>1 DEF TypeInv
<1>4. /\ delivered' = delivered + 1 /\ delivered \in Nat
      /\ delivered + 1 <= Len(log) /\ Len(log) \in Nat
      /\ 1 \in DOMAIN bus /\ \A i \in 1..Len(bus) - 1 : i + 1 \in DOMAIN bus
  BY <1>1, <1>2, <1>3 DEF TypeInv, delivered, BusIsLog
<1>5. e.new.n = delivered + 1 /\ log[delivered + 1] = e.var
  BY <1>2, <1>4 DEF BusIsLog
<1> HIDE DEF e
<1>6. \A w \in Var : last'[w] = IF w = e.var /\ w \in known THEN e.new ELSE last[w]
  BY <1>1, <1>2 DEF update, monitored, TypeInv
<1>7. \A q \in Queue : queue'[q] = IF q \in notify[e.var]
        THEN Append(queue[q], Message(q, e, last')) ELSE queue[q]
  BY <1>1 DEF update
<1>8. ASSUME NEW q \in Queue
      PROVE  Message(q, e, last') \in Msg(q) /\ queue[q] \in Seq(Msg(q))
  <2>1. e.var \in Var /\ e.new \in State /\ e.old \in State
    BY <1>2 DEF Event
  <2>2. ASSUME NEW m \in NamesOf[q]
        PROVE  notify_var_get(m, e, last') \in State \cup {Nothing, Unset}
    <3>1. m.var \in Var
      BY <2>2 DEF StateAssumption
    <3>2. last'[m.var] \in State \cup {NoKey}
      BY <1>6, <2>1, <3>1 DEF TypeInv
    <3>3. QED
      BY <2>1, <3>2 DEF notify_var_get
  <2>3. QED
    BY <2>1, <2>2 DEF Message, Msg, TypeInv
<1>9. QED
  BY <1>2, <1>3, <1>4, <1>5, <1>6, <1>7, <1>8 DEF e

\* A delivery keeps them.
LEMMA DeliverStep ==
  ASSUME StateAssumption, VarsInv, state_changed
  PROVE  VarsInv'
<1> USE DEF VarsInv
<1> DEFINE e == Head(bus)
           l == Len(bus)
           M(q) == Message(q, e, last')
<1>1. UNCHANGED <<hass, known, notify, phase, log, read>>
  BY DEF state_changed
<1>2. /\ e \in Event /\ e = bus[1] /\ 1 \in DOMAIN bus
      /\ e.var \in Var /\ e.new \in State /\ e.old \in State
  BY Delivery DEF Event
<1>3. /\ l \in Nat \ {0} /\ Len(bus') = l - 1 /\ DOMAIN bus' = 1..l - 1
      /\ \A i \in 1..l - 1 : bus'[i] = bus[i + 1] /\ i + 1 \in DOMAIN bus
      /\ DOMAIN bus = 1..l
  BY Delivery DEF TypeInv
<1>4. /\ delivered' = delivered + 1 /\ delivered \in Nat
      /\ delivered + 1 <= Len(log) /\ Len(log) \in Nat
      /\ e.new.n = delivered + 1 /\ log[delivered + 1] = e.var
  BY Delivery
<1>5. \A w \in Var : last'[w] = IF w = e.var /\ w \in known THEN e.new ELSE last[w]
  BY Delivery
<1>6. \A q \in Queue :
        /\ queue'[q] = IF q \in notify[e.var] THEN Append(queue[q], M(q)) ELSE queue[q]
        /\ q \in notify[e.var] => M(q) \in Msg(q)
        /\ queue[q] \in Seq(Msg(q)) /\ M(q).new = e.new
  BY Delivery DEF TypeInv, Message
<1>7. bus' = Tail(bus) /\ bus # <<>> /\ update(e)
  BY DEF state_changed
<1> HIDE DEF e, l, M
<1>8. TypeInv'
  <2>1. bus' \in Seq(Event)
    BY <1>7 DEF TypeInv
  <2>2. last' \in [Var -> State \cup {NoKey}]
    <3>1. last' = [last EXCEPT ![e.var] = e.new] \/ last' = last
      BY <1>7 DEF update
    <3>2. QED
      BY <1>2, <3>1 DEF TypeInv
  <2>3. DOMAIN queue' = Queue /\ \A q \in Queue : queue'[q] \in Seq(Msg(q))
    <3>1. DOMAIN queue' = Queue
      BY <1>7 DEF update
    <3>2. ASSUME NEW q \in Queue PROVE queue'[q] \in Seq(Msg(q))
      <4>1. CASE q \in notify[e.var]
        <5>1. queue'[q] = Append(queue[q], M(q))
          BY <1>6, <4>1
        <5>2. M(q) \in Msg(q) /\ queue[q] \in Seq(Msg(q))
          BY <1>6, <4>1
        <5>3. QED
          BY <5>1, <5>2
      <4>2. CASE q \notin notify[e.var]
        BY <1>6, <4>2
      <4>3. QED
        BY <4>1, <4>2
    <3>3. QED
      BY <3>1, <3>2
  <2>4. QED
    BY <1>1, <2>1, <2>2, <2>3 DEF TypeInv, Msg
<1>9. BusIsLog'
  <2>1. Len(bus') <= Len(log')
    BY <1>1, <1>3 DEF BusIsLog, l
  <2>2. ASSUME NEW i \in DOMAIN bus'
        PROVE  /\ bus'[i].new.n = (delivered + 1) + i
               /\ log[(delivered + 1) + i] = bus'[i].var
    <3>1. bus'[i] = bus[i + 1] /\ i + 1 \in DOMAIN bus
      BY <1>3, <2>2
    <3>2. delivered + (i + 1) = (delivered + 1) + i
      BY <1>3, <1>4, <2>2
    <3>3. /\ bus[i + 1].new.n = delivered + (i + 1)
          /\ log[delivered + (i + 1)] = bus[i + 1].var
      BY <3>1 DEF BusIsLog
    <3>4. QED
      BY <3>1, <3>2, <3>3
  <2>3. QED
    BY <1>1, <1>4, <2>1, <2>2 DEF BusIsLog
<1>10. HassIsLatest'
  <2>1. ASSUME NEW v \in Var, NEW i \in DOMAIN bus', bus'[i].var = v,
               \A k \in i + 1..Len(bus') : bus'[k].var # v
        PROVE  bus'[i].new = hass[v]
    <3>1. bus'[i] = bus[i + 1] /\ i + 1 \in DOMAIN bus /\ i \in Nat
      BY <1>3, <2>1
    <3>2. \A k \in (i + 1) + 1..l : bus[k].var # v
      <4>1. TAKE k \in (i + 1) + 1..l
      <4>2. /\ k - 1 \in i + 1..l - 1 /\ k - 1 \in 1..l - 1 /\ (k - 1) + 1 = k
        BY <1>3, <3>1
      <4>3. bus'[k - 1] = bus[(k - 1) + 1]
        BY <1>3, <4>2
      <4>4. bus'[k - 1].var # v
        BY <1>3, <2>1, <4>2
      <4>5. QED
        BY <4>2, <4>3, <4>4
    <3>3. QED
      BY <2>1, <3>1, <3>2 DEF HassIsLatest, l
  <2>2. QED
    BY <1>1, <2>1 DEF HassIsLatest
<1>11. BusChain'
  <2> SUFFICES ASSUME NEW v \in Var
               PROVE  \E n \in 0..Len(log) : Chain(bus', v, n, hass[v].n)
    BY <1>1 DEF BusChain
  <2>1. PICK n \in 0..Len(log) : Chain(bus, v, n, hass[v].n)
    BY DEF BusChain
  <2> DEFINE start == IF e.var = v THEN e.new.n ELSE n
  <2>2. Chain(bus', v, start, hass[v].n)
    BY <1>7, <2>1, ChainTail DEF TypeInv, e
  <2>3. start \in 0..Len(log)
    BY <1>4, <2>1
  <2>4. QED
    BY <2>2, <2>3
<1>12. LastInv'
  <2> SUFFICES ASSUME NEW v \in Var, last'[v] # NoKey
               PROVE  /\ v \in known
                      /\ \A k \in last'[v].n + 1..delivered + 1 : log[k] # v
    BY <1>1, <1>4 DEF LastInv
  <2>1. CASE v = e.var /\ v \in known
    BY <1>4, <1>5, <2>1
  <2>2. CASE ~(v = e.var /\ v \in known)
    <3>1. last'[v] = last[v]
      BY <1>5, <2>2
    <3>2. v \in known /\ last[v].n \in Nat
      BY <3>1 DEF LastInv, TypeInv, State
    <3>3. v # e.var
      BY <2>2, <3>2
    <3>4. \A k \in last[v].n + 1..delivered + 1 :
            k \in last[v].n + 1..delivered \/ k = delivered + 1
      BY <1>4, <3>2
    <3>5. QED
      BY <1>4, <3>1, <3>2, <3>3, <3>4 DEF LastInv
  <2>3. QED
    BY <2>1, <2>2
<1>13. Registered'
  <2>1. ASSUME NEW q \in Queue, phase[q] = "new"
        PROVE  queue'[q] = queue[q]
    BY <1>2, <1>6, <2>1 DEF Registered
  <2>2. QED
    BY <1>1, <2>1 DEF Registered, Watched
<1>14. QueueIsOld'
  <2> SUFFICES ASSUME NEW q \in Queue, NEW i \in DOMAIN queue'[q]
               PROVE  queue'[q][i].new.n <= delivered + 1
    BY <1>4 DEF QueueIsOld
  <2>1. ASSUME NEW j \in DOMAIN queue[q]
        PROVE  queue[q][j].new.n <= delivered + 1
    <3>1. queue[q] \in Seq(Msg(q))
      BY DEF TypeInv
    <3>2. queue[q][j] \in Msg(q)
      BY <3>1
    <3>3. queue[q][j].new.n \in Nat
      BY <3>2 DEF Msg, State
    <3>4. QED
      BY <1>4, <3>3 DEF QueueIsOld
  <2>2. CASE q \in notify[e.var]
    <3>1. queue'[q] = Append(queue[q], M(q)) /\ M(q) \in Msg(q)
          /\ queue[q] \in Seq(Msg(q)) /\ M(q).new = e.new
      BY <1>6, <2>2
    <3>2. \/ i \in DOMAIN queue[q] /\ queue'[q][i] = queue[q][i]
          \/ queue'[q][i] = M(q)
      BY <3>1
    <3>3. QED
      BY <1>4, <2>1, <3>1, <3>2
  <2>3. CASE q \notin notify[e.var]
    BY <1>6, <2>1, <2>3
  <2>4. QED
    BY <2>2, <2>3
<1>15. QED
  BY <1>8, <1>9, <1>10, <1>11, <1>12, <1>13, <1>14

\* A registration keeps them.
LEMMA RegisterStep ==
  ASSUME StateAssumption, VarsInv, NEW q \in Queue, notify_add(q)
  PROVE  VarsInv'
<1> USE DEF VarsInv
<1> DEFINE roots == {m.var : m \in Watched(q)}
<1>1. /\ UNCHANGED <<hass, bus, last, queue, persisted, log>>
      /\ phase[q] = "new" /\ phase' = [phase EXCEPT ![q] = "watching"]
      /\ known' = known \cup roots
      /\ notify' = [v \in Var |-> IF v \in roots THEN notify[v] \cup {q} ELSE notify[v]]
  BY DEF notify_add
<1>2. delivered' = delivered
  BY <1>1 DEF delivered
<1>3. roots \subseteq Var
  BY DEF StateAssumption, Watched
<1>4. TypeInv'
  <2>1. read' \in [Queue -> [Var -> Nat]]
    <3>1. ASSUME NEW v \in Var
          PROVE  (IF UnderWay(v) = {} THEN hass[v].n ELSE bus[Min(UnderWay(v))].old.n) \in Nat
      <4>1. hass[v].n \in Nat
        BY DEF TypeInv, State
      <4>2. CASE UnderWay(v) # {}
        <5>1. UnderWay(v) \subseteq Nat /\ UnderWay(v) \subseteq DOMAIN bus
          BY DEF UnderWay, TypeInv
        <5>2. Min(UnderWay(v)) \in DOMAIN bus
          BY <4>2, <5>1, LeastNatural
        <5>3. bus[Min(UnderWay(v))] \in Event
          BY <5>2 DEF TypeInv
        <5>4. QED
          BY <4>2, <5>3 DEF Event, State
      <4>3. QED
        BY <4>1, <4>2
    <3> DEFINE new == [v \in Var |-> IF UnderWay(v) = {} THEN hass[v].n
                                     ELSE bus[Min(UnderWay(v))].old.n]
    <3>2. new \in [Var -> Nat]
      BY <3>1
    <3>3. read' = [read EXCEPT ![q] = new]
      BY DEF notify_add
    <3> HIDE DEF new
    <3>4. QED
      BY <3>2, <3>3 DEF TypeInv
  <2>2. notify' \in [Var -> SUBSET Queue] /\ known' \subseteq Var
    BY <1>1, <1>3 DEF TypeInv
  <2>3. phase' \in [Queue -> {"new", "watching", "done"}]
    BY <1>1 DEF TypeInv
  <2>4. QED
    BY <1>1, <2>1, <2>2, <2>3 DEF TypeInv, Msg
<1>5. BusIsLog' /\ HassIsLatest' /\ BusChain' /\ QueueIsOld'
  BY <1>1, <1>2 DEF BusIsLog, HassIsLatest, BusChain, QueueIsOld
<1>6. LastInv'
  BY <1>1, <1>2 DEF LastInv
<1>7. Registered'
  <2>1. \A v \in Var : notify'[v] # {} => v \in known'
    BY <1>1 DEF Registered
  <2>2. /\ phase'[q] = "watching"
        /\ \A v \in Var : q \in notify'[v] <=> \E m \in Watched(q) : m.var = v
    BY <1>1 DEF Registered, TypeInv
  <2>3. ASSUME NEW p \in Queue, p # q
        PROVE  /\ phase'[p] = phase[p] /\ queue'[p] = queue[p]
               /\ \A v \in Var : p \in notify'[v] <=> p \in notify[v]
    BY <1>1, <2>3 DEF TypeInv
  <2>4. QED
    BY <2>1, <2>2, <2>3 DEF Registered, Watched
<1>8. QED
  BY <1>4, <1>5, <1>6, <1>7

\* The end of a registration keeps them.
LEMMA UnregisterStep ==
  ASSUME StateAssumption, VarsInv, NEW q \in Queue, notify_del(q)
  PROVE  VarsInv'
<1> USE DEF VarsInv
<1>1. /\ UNCHANGED <<hass, bus, known, last, queue, persisted, log, read>>
      /\ phase[q] = "watching" /\ phase' = [phase EXCEPT ![q] = "done"]
  BY DEF notify_del
<1>2. PICK order : notify' = [v \in Var |-> IF v \in dropped(q, order)
                                THEN notify[v] \ {q} ELSE notify[v]]
  BY DEF notify_del
<1>3. /\ \A v \in Var : notify'[v] \subseteq notify[v]
      /\ \A p \in Queue, v \in Var : p # q => (p \in notify'[v] <=> p \in notify[v])
  BY <1>2
<1>4. delivered' = delivered
  BY <1>1 DEF delivered
<1>5. TypeInv'
  <2>1. notify' \in [Var -> SUBSET Queue]
    BY <1>2 DEF TypeInv
  <2>2. phase' \in [Queue -> {"new", "watching", "done"}]
    BY <1>1 DEF TypeInv
  <2>3. QED
    BY <1>1, <2>1, <2>2 DEF TypeInv, Msg
<1>6. BusIsLog' /\ HassIsLatest' /\ BusChain' /\ QueueIsOld' /\ LastInv'
  BY <1>1, <1>4 DEF BusIsLog, HassIsLatest, BusChain, QueueIsOld, LastInv
<1>7. Registered'
  <2>1. \A v \in Var : notify'[v] # {} => v \in known'
    BY <1>1, <1>3 DEF Registered
  <2>2. phase'[q] = "done" /\ \A p \in Queue : p # q => phase'[p] = phase[p]
    BY <1>1 DEF TypeInv
  <2>3. QED
    BY <1>1, <1>3, <2>1, <2>2 DEF Registered, Watched
<1>8. QED
  BY <1>5, <1>6, <1>7

\* What taking a message does to the queue.
LEMMA Taking ==
  ASSUME VarsInv, NEW q \in Queue, Get(q)
  PROVE  LET h == Head(queue[q]) IN
         /\ queue[q] \in Seq(Msg(q)) /\ queue[q] # <<>> /\ h \in Msg(q)
         /\ h.var \in Var /\ h.new.n \in Nat
         /\ queue'[q] = Tail(queue[q])
         /\ \A i \in DOMAIN queue'[q] : /\ i + 1 \in DOMAIN queue[q]
                                       /\ queue'[q][i] = queue[q][i + 1]
         /\ \A p \in Queue : p # q => queue'[p] = queue[p] /\ read'[p] = read[p]
         /\ \A v \in Var : read'[q][v] = IF h.var = v THEN h.new.n ELSE read[q][v]
<1> USE DEF VarsInv
<1>1. queue[q] \in Seq(Msg(q)) /\ queue[q] # <<>> /\ DOMAIN queue = Queue
  BY DEF TypeInv, Get
<1> DEFINE h == Head(queue[q])
<1>2. h \in Msg(q)
  BY <1>1
<1>3. h.var \in Var /\ h.new.n \in Nat
  BY <1>2 DEF Msg, State
<1> HIDE DEF h
<1>4. queue' = [queue EXCEPT ![q] = Tail(@)] /\ read' = [read EXCEPT ![q][h.var] = h.new.n]
  BY DEF Get, h
<1>5. queue'[q] = Tail(queue[q]) /\ \A p \in Queue : p # q => queue'[p] = queue[p]
  BY <1>1, <1>4
<1>6. ASSUME NEW i \in DOMAIN queue'[q]
      PROVE  i + 1 \in DOMAIN queue[q] /\ queue'[q][i] = queue[q][i + 1]
  BY <1>1, <1>5
<1>7. /\ \A p \in Queue : p # q => read'[p] = read[p]
      /\ \A v \in Var : read'[q][v] = IF h.var = v THEN h.new.n ELSE read[q][v]
  BY <1>3, <1>4 DEF TypeInv
<1>8. QED
  BY <1>1, <1>2, <1>3, <1>5, <1>6, <1>7 DEF h

\* Taking a message keeps them.
LEMMA GetStep ==
  ASSUME VarsInv, NEW q \in Queue, Get(q)
  PROVE  VarsInv'
<1> USE DEF VarsInv
<1>1. UNCHANGED <<hass, bus, known, notify, last, persisted, phase, log>>
  BY DEF Get
<1>2. delivered' = delivered
  BY <1>1 DEF delivered
<1>3. TypeInv'
  <2>1. DOMAIN queue' = Queue /\ \A p \in Queue : queue'[p] \in Seq(Msg(p))
    <3>1. queue'[q] \in Seq(Msg(q))
      <4>1. /\ queue'[q] = Tail(queue[q]) /\ queue[q] \in Seq(Msg(q))
            /\ queue[q] # <<>>
        BY Taking
      <4>2. Tail(queue[q]) \in Seq(Msg(q))
        BY <4>1
      <4>3. QED
        BY <4>1, <4>2
    <3>2. \A p \in Queue : p # q => queue'[p] \in Seq(Msg(p))
      BY Taking DEF TypeInv
    <3>3. DOMAIN queue' = Queue
      BY DEF Get, TypeInv
    <3>4. QED
      BY <3>1, <3>2, <3>3
  <2>2. read' \in [Queue -> [Var -> Nat]]
    <3> DEFINE h == Head(queue[q])
           new == [read[q] EXCEPT ![h.var] = h.new.n]
    <3>1. h.new.n \in Nat /\ read' = [read EXCEPT ![q] = new]
      BY Taking DEF Get
    <3>2. read \in [Queue -> [Var -> Nat]] /\ read[q] \in [Var -> Nat]
      BY DEF TypeInv
    <3> HIDE DEF h
    <3>3. new \in [Var -> Nat]
      BY <3>1, <3>2
    <3> HIDE DEF new
    <3>4. QED
      BY <3>1, <3>2, <3>3
  <2>3. QED
    BY <1>1, <2>1, <2>2 DEF TypeInv, Msg
<1>4. BusIsLog' /\ HassIsLatest' /\ BusChain' /\ LastInv'
  BY <1>1, <1>2 DEF BusIsLog, HassIsLatest, BusChain, LastInv
<1>5. Registered'
  <2>1. phase[q] = "watching"
    BY DEF Get
  <2>2. \A p \in Queue : p # q => queue'[p] = queue[p]
    BY Taking
  <2>3. QED
    BY <1>1, <2>1, <2>2 DEF Registered, Watched
<1>6. QueueIsOld'
  <2> SUFFICES ASSUME NEW p \in Queue, NEW i \in DOMAIN queue'[p]
               PROVE  queue'[p][i].new.n <= delivered
    BY <1>2 DEF QueueIsOld
  <2>1. CASE p = q
    <3>1. i + 1 \in DOMAIN queue[q] /\ queue'[q][i] = queue[q][i + 1]
      BY <2>1, Taking
    <3>2. QED
      BY <2>1, <3>1 DEF QueueIsOld
  <2>2. CASE p # q
    <3>1. queue'[p] = queue[p]
      BY <2>2, Taking
    <3>2. QED
      BY <3>1 DEF QueueIsOld
  <2>3. QED
    BY <2>1, <2>2
<1>7. QED
  BY <1>3, <1>4, <1>5, <1>6

\* Every step keeps them.
LEMMA VarsStep == ASSUME StateAssumption, VarsInv, [Next]_vars PROVE VarsInv'
<1>1. CASE Next
  <2>1. TypeInv
    BY DEF VarsInv
  <2>2. QED
    BY <1>1, <2>1, StepCases, WriteStep, DeliverStep, RegisterStep, UnregisterStep,
       GetStep
<1>2. CASE UNCHANGED vars
  <2>1. /\ UNCHANGED <<hass, bus, known, notify, last, queue, phase, log, read>>
        /\ delivered' = delivered
    BY <1>2 DEF vars, delivered
  <2>2. TypeInv'
    BY <2>1 DEF VarsInv, TypeInv, Msg
  <2>3. BusIsLog' /\ HassIsLatest' /\ BusChain'
    BY <2>1 DEF VarsInv, BusIsLog, HassIsLatest, BusChain
  <2>4. LastInv' /\ Registered' /\ QueueIsOld'
    BY <2>1 DEF VarsInv, LastInv, Registered, QueueIsOld, Watched
  <2>5. QED
    BY <2>2, <2>3, <2>4 DEF VarsInv
<1>3. QED
  BY <1>1, <1>2

\* The invariant holds of every reachable state.
THEOREM VarsInvariant == Spec => []VarsInv
<1>1. Init => VarsInv
  BY StateAssumption, InitVars
<1>2. VarsInv /\ [Next]_vars => VarsInv'
  BY StateAssumption, VarsStep
<1>3. QED
  BY <1>1, <1>2, PTL DEF Spec

-----------------------------------------------------------------------------
(* The properties *)

\* A step that writes leaves the watchers what they have missed nothing of.
LEMMA MissedWrite ==
  ASSUME VarsInv, NoChangeMissed, NEW w \in Var, Write(w)
  PROVE  NoChangeMissed'
<1>1. UNCHANGED <<known, notify, queue, phase, read>>
  BY DEF Write
<1>2. CASE UNCHANGED <<hass, bus, log>>
  BY <1>1, <1>2 DEF NoChangeMissed
<1>3. ASSUME NEW new \in State, new.n = Len(log) + 1, Change(w, new)
      PROVE  NoChangeMissed'
  <2> DEFINE e == [var |-> w, new |-> new, old |-> hass[w]]
  <2>1. /\ e \in Event /\ e.var = w /\ e.new = new /\ e.old = hass[w]
        /\ bus \in Seq(Event) /\ bus' = Append(bus, e)
        /\ Len(log) \in Nat /\ Len(log') = Len(log) + 1
    BY <1>3 DEF Change, Event, VarsInv, TypeInv
  <2>2. \A v \in Var : hass'[v] = IF v = w THEN new ELSE hass[v]
    BY <1>3 DEF Change, VarsInv, TypeInv
  <2> HIDE DEF e
  <2> SUFFICES ASSUME NEW v \in Var, NEW q \in notify[v], phase[q] = "watching"
               PROVE  \E n \in 0..Len(log) + 1 :
                        /\ Chain(queue[q], v, read[q][v], n)
                        /\ Chain(bus', v, n, hass'[v].n)
    BY <1>1, <2>1 DEF NoChangeMissed
  <2>3. PICK n \in 0..Len(log) : /\ Chain(queue[q], v, read[q][v], n)
                                 /\ Chain(bus, v, n, hass[v].n)
    BY DEF NoChangeMissed
  <2>4. e.var = v => e.old.n = hass[v].n
    BY <2>1
  <2>5. Chain(Append(bus, e), v, n, IF e.var = v THEN e.new.n ELSE hass[v].n)
    BY <2>1, <2>3, <2>4, ChainAppend
  <2>6. (IF e.var = v THEN e.new.n ELSE hass[v].n) = hass'[v].n
    BY <2>1, <2>2
  <2>7. n \in 0..Len(log) + 1
    BY <2>1
  <2>8. QED
    BY <2>1, <2>3, <2>5, <2>6, <2>7
<1>4. QED
  BY <1>2, <1>3 DEF Write

\* So does a delivery: the event goes from the bus to the end of the queue.
LEMMA MissedDelivery ==
  ASSUME StateAssumption, VarsInv, NoChangeMissed, state_changed
  PROVE  NoChangeMissed'
<1> DEFINE e == Head(bus)
<1>1. UNCHANGED <<hass, known, notify, phase, log, read>>
  BY DEF state_changed
<1>2. /\ e.var \in Var /\ e.new.n \in 0..Len(log)
      /\ bus \in Seq(Event) /\ bus # <<>> /\ bus' = Tail(bus)
  BY Delivery DEF VarsInv, TypeInv, Event, state_changed
<1> SUFFICES ASSUME NEW v \in Var, NEW q \in notify[v], phase[q] = "watching"
             PROVE  \E n \in 0..Len(log) : /\ Chain(queue'[q], v, read[q][v], n)
                                           /\ Chain(bus', v, n, hass[v].n)
  BY <1>1 DEF NoChangeMissed
<1>3. PICK n \in 0..Len(log) : /\ Chain(queue[q], v, read[q][v], n)
                               /\ Chain(bus, v, n, hass[v].n)
  BY DEF NoChangeMissed
<1> DEFINE end == IF e.var = v THEN e.new.n ELSE n
           m == Message(q, e, last')
<1>4. /\ e.var = v => e.old.n = n
      /\ Chain(bus', v, end, hass[v].n)
  BY <1>2, <1>3, ChainTail
<1>5. q \in Queue
  BY DEF VarsInv, TypeInv
<1>6. Chain(queue'[q], v, read[q][v], end)
  <2>1. CASE q \in notify[e.var]
    <3>1. /\ queue'[q] = Append(queue[q], m) /\ m \in Msg(q)
          /\ queue[q] \in Seq(Msg(q))
      BY <1>5, <2>1, Delivery
    <3>2. m.var = e.var /\ m.new = e.new /\ m.old = e.old
      BY DEF Message
    <3> HIDE DEF m
    <3>3. m.var = v => m.old.n = n
      BY <1>4, <3>2
    <3>4. Chain(Append(queue[q], m), v, read[q][v], IF m.var = v THEN m.new.n ELSE n)
      BY <1>3, <3>1, <3>3, ChainAppend
    <3>5. QED
      BY <3>1, <3>2, <3>4
  <2>2. CASE q \notin notify[e.var]
    <3>1. e.var # v /\ queue'[q] = queue[q]
      BY <1>5, <2>2, Delivery
    <3>2. QED
      BY <1>3, <3>1
  <2>3. QED
    BY <2>1, <2>2
<1>7. QED
  BY <1>2, <1>4, <1>6

\* A new watcher starts where the events under way start.
LEMMA MissedRegistration ==
  ASSUME StateAssumption, VarsInv, NoChangeMissed, NEW p \in Queue, notify_add(p)
  PROVE  NoChangeMissed'
<1> DEFINE start(v) == IF UnderWay(v) = {} THEN hass[v].n
                       ELSE bus[Min(UnderWay(v))].old.n
           roots == {m.var : m \in Watched(p)}
<1>1. /\ UNCHANGED <<hass, bus, last, queue, persisted, log>>
      /\ phase[p] = "new" /\ phase' = [phase EXCEPT ![p] = "watching"]
      /\ notify' = [v \in Var |-> IF v \in roots THEN notify[v] \cup {p} ELSE notify[v]]
      /\ read' = [read EXCEPT ![p] = [v \in Var |-> start(v)]]
  BY DEF notify_add
<1> HIDE DEF start
<1>2. \A v \in Var : read'[p][v] = start(v)
  BY <1>1 DEF VarsInv, TypeInv
<1>3. \A q \in Queue : q # p => /\ read'[q] = read[q] /\ phase'[q] = phase[q]
                                /\ \A v \in Var : q \in notify'[v] => q \in notify[v]
  BY <1>1 DEF VarsInv, TypeInv
<1> SUFFICES ASSUME NEW v \in Var, NEW q \in notify'[v], phase'[q] = "watching"
             PROVE  \E n \in 0..Len(log) : /\ Chain(queue[q], v, read'[q][v], n)
                                           /\ Chain(bus, v, n, hass[v].n)
  BY <1>1 DEF NoChangeMissed
<1>4. q \in Queue
  BY <1>1 DEF VarsInv, TypeInv
<1>5. CASE q # p
  BY <1>3, <1>4, <1>5 DEF NoChangeMissed
<1>6. CASE q = p
  <2>1. queue[q] = <<>>
    BY <1>1, <1>4, <1>6 DEF VarsInv, Registered
  <2>2. PICK n \in 0..Len(log) : Chain(bus, v, n, hass[v].n)
    BY DEF VarsInv, BusChain
  <2>3. n = start(v)
    BY <2>2, ChainStart DEF VarsInv, TypeInv, UnderWay, start
  <2>4. Chain(queue[q], v, read'[q][v], n)
    BY <1>2, <1>6, <2>1, <2>3, ChainEmpty
  <2>5. QED
    BY <2>2, <2>4
<1>7. QED
  BY <1>5, <1>6

\* Whoever takes a message goes on from the change it brought.
LEMMA MissedGet ==
  ASSUME VarsInv, NoChangeMissed, NEW p \in Queue, Get(p)
  PROVE  NoChangeMissed'
<1>1. UNCHANGED <<hass, bus, known, notify, last, persisted, phase, log>>
  BY DEF Get
<1> SUFFICES ASSUME NEW v \in Var, NEW q \in notify[v], phase[q] = "watching"
             PROVE  \E n \in 0..Len(log) : /\ Chain(queue'[q], v, read'[q][v], n)
                                           /\ Chain(bus, v, n, hass[v].n)
  BY <1>1 DEF NoChangeMissed
<1>2. PICK n \in 0..Len(log) : /\ Chain(queue[q], v, read[q][v], n)
                               /\ Chain(bus, v, n, hass[v].n)
  BY DEF NoChangeMissed
<1>3. q \in Queue
  BY DEF VarsInv, TypeInv
<1>4. CASE q # p
  BY <1>2, <1>3, <1>4, Taking
<1>5. CASE q = p
  <2> DEFINE h == Head(queue[q])
  <2>1. /\ queue[q] \in Seq(Msg(q)) /\ queue[q] # <<>>
        /\ queue'[q] = Tail(queue[q])
        /\ read'[q][v] = IF h.var = v THEN h.new.n ELSE read[q][v]
    BY <1>5, Taking
  <2>2. Chain(Tail(queue[q]), v, IF h.var = v THEN h.new.n ELSE read[q][v], n)
    BY <1>2, <2>1, ChainTail
  <2>3. QED
    BY <1>2, <2>1, <2>2
<1>6. QED
  BY <1>4, <1>5

\* A watcher misses no change of a state and sees none twice or out of order
\* (NoChangeMissed): notify_add, update and the queues of state.py, however the
\* registrations fall between the changes and their delivery.
THEOREM NothingMissed == Spec => []NoChangeMissed
<1>1. Init => NoChangeMissed
  BY DEF Init, NoChangeMissed
<1>2. ASSUME VarsInv, NoChangeMissed, [Next]_vars
      PROVE  NoChangeMissed'
  <2>1. ASSUME NEW p \in Queue, notify_del(p)
        PROVE  NoChangeMissed'
    <3>1. /\ UNCHANGED <<hass, bus, queue, log, read>>
          /\ phase' = [phase EXCEPT ![p] = "done"]
      BY <2>1 DEF notify_del
    <3>2. \A v \in Var : notify'[v] \subseteq notify[v]
      BY <2>1 DEF notify_del
    <3>3. \A q \in Queue : phase'[q] = "watching" => phase[q] = "watching"
      BY <3>1 DEF VarsInv, TypeInv
    <3>4. \A v \in Var : notify[v] \subseteq Queue
      BY <1>2 DEF VarsInv, TypeInv
    <3>5. QED
      BY <1>2, <3>1, <3>2, <3>3, <3>4 DEF NoChangeMissed
  <2>2. CASE UNCHANGED vars
    BY <1>2, <2>2 DEF vars, NoChangeMissed
  <2>3. TypeInv
    BY <1>2 DEF VarsInv
  <2>4. QED
    BY <1>2, <2>1, <2>2, <2>3, StateAssumption, StepCases, MissedWrite,
       MissedDelivery, MissedRegistration, MissedGet
<1>3. QED
  BY <1>1, <1>2, VarsInvariant, PTL DEF Spec

\* What is in a queue was in it before, or is about the event delivered.
LEMMA Queued ==
  ASSUME StateAssumption, VarsInv, [Next]_vars,
         NEW q \in Queue, NEW i \in DOMAIN queue'[q]
  PROVE  \/ \E j \in DOMAIN queue[q] : queue'[q][i] = queue[q][j]
         \/ /\ state_changed /\ q \in notify[Head(bus).var]
            /\ queue'[q][i] = Message(q, Head(bus), last')
<1>1. CASE UNCHANGED queue
  BY <1>1
<1>2. CASE state_changed
  <2> DEFINE m == Message(q, Head(bus), last')
  <2>1. CASE q \in notify[Head(bus).var]
    <3>1. /\ queue'[q] = Append(queue[q], m) /\ m \in Msg(q)
          /\ queue[q] \in Seq(Msg(q))
      BY <1>2, <2>1, Delivery
    <3> HIDE DEF m
    <3>2. (i \in DOMAIN queue[q] /\ queue'[q][i] = queue[q][i]) \/ queue'[q][i] = m
      BY <3>1
    <3>3. QED
      BY <1>2, <2>1, <3>2 DEF m
  <2>2. CASE q \notin notify[Head(bus).var]
    <3>1. queue'[q] = queue[q]
      BY <1>2, <2>2, Delivery
    <3>2. QED
      BY <3>1
  <2>3. QED
    BY <2>1, <2>2
<1>3. ASSUME NEW p \in Queue, Get(p)
      PROVE  \E j \in DOMAIN queue[q] : queue'[q][i] = queue[q][j]
  <2>1. CASE p = q
    BY <1>3, <2>1, Taking
  <2>2. CASE p # q
    <3>1. queue'[q] = queue[q]
      BY <1>3, <2>2, Taking
    <3>2. QED
      BY <3>1
  <2>3. QED
    BY <2>1, <2>2
<1>4. CASE Next
  <2>1. TypeInv
    BY DEF VarsInv
  <2>2. \A w \in Var : Write(w) => UNCHANGED queue
    BY DEF Write
  <2>3. \A p \in Queue : notify_add(p) \/ notify_del(p) => UNCHANGED queue
    BY DEF notify_add, notify_del
  <2>4. QED
    BY <1>1, <1>2, <1>3, <1>4, <2>1, <2>2, <2>3, StepCases
<1>5. CASE UNCHANGED vars
  BY <1>1, <1>5 DEF vars
<1>6. QED
  BY <1>4, <1>5

\* A message shows its own variable as the event left it (OwnChangeSeen):
\* update keeps the last value before it fills the queues (state.py:178-187),
\* so notify_var_get never falls back on what HASS has by then.
THEOREM OwnChange == Spec => []OwnChangeSeen
<1>1. Init => OwnChangeSeen
  BY DEF Init, OwnChangeSeen
<1>2. ASSUME VarsInv, OwnChangeSeen, [Next]_vars
      PROVE  OwnChangeSeen'
  <2> SUFFICES ASSUME NEW q \in Queue, NEW i \in DOMAIN queue'[q],
                      NEW m \in DOMAIN queue'[q][i].seen,
                      m.var = queue'[q][i].var
               PROVE  queue'[q][i].seen[m] =
                        IF m.kind \in {"value", "attr"} THEN queue'[q][i].new
                                                        ELSE queue'[q][i].old
    BY DEF OwnChangeSeen
  <2>1. CASE \E j \in DOMAIN queue[q] : queue'[q][i] = queue[q][j]
    BY <1>2, <2>1 DEF OwnChangeSeen
  <2>2. CASE /\ state_changed /\ q \in notify[Head(bus).var]
             /\ queue'[q][i] = Message(q, Head(bus), last')
    <3> DEFINE e == Head(bus)
    <3>1. e \in Event /\ e.var \in Var /\ e.new \in State
      BY <1>2, <2>2, StateAssumption, Delivery DEF Event
    <3>2. last'[e.var] = e.new /\ e.new # NoKey
      <4>1. e.var \in known
        BY <1>2, <2>2, <3>1 DEF VarsInv, Registered
      <4>2. last'[e.var] = e.new
        BY <1>2, <2>2, <3>1, <4>1, StateAssumption, Delivery
      <4>3. QED
        BY <3>1, <4>2, StateAssumption DEF StateAssumption
    <3> HIDE DEF e
    <3>3. /\ m \in NamesOf[q] /\ m.kind # "plain" /\ m.var = e.var
          /\ queue'[q][i].seen[m] = notify_var_get(m, e, last')
          /\ queue'[q][i].new = e.new /\ queue'[q][i].old = e.old
      BY <2>2 DEF Message, e
    <3>4. m.kind \in {"value", "attr", "old", "oldattr"}
      BY <3>3, StateAssumption DEF StateAssumption, Kind
    <3>5. QED
      BY <3>2, <3>3, <3>4 DEF notify_var_get
  <2>3. QED
    BY <1>2, <2>1, <2>2, Queued, StateAssumption
<1>3. QED
  BY <1>1, <1>2, VarsInvariant, PTL DEF Spec

\* The log only grows.
LEMMA LogGrows ==
  ASSUME VarsInv, [Next]_vars
  PROVE  \A k \in 1..Len(log) : log'[k] = log[k]
<1>1. CASE UNCHANGED log
  BY <1>1
<1>2. ASSUME NEW w \in Var, log' = Append(log, w)
      PROVE  \A k \in 1..Len(log) : log'[k] = log[k]
  BY <1>2 DEF VarsInv, TypeInv
<1>3. CASE Next
  <2>1. \A w \in Var : Write(w) => (UNCHANGED log \/ log' = Append(log, w))
    BY DEF Write, Change
  <2>2. \/ state_changed
        \/ \E q \in Queue : notify_add(q) \/ notify_del(q) \/ Get(q)
        => UNCHANGED log
    BY DEF state_changed, notify_add, notify_del, Get
  <2>3. TypeInv
    BY DEF VarsInv
  <2>4. QED
    BY <1>1, <1>2, <1>3, <2>1, <2>2, <2>3, StepCases
<1>4. CASE UNCHANGED vars
  BY <1>4 DEF vars
<1>5. QED
  BY <1>3, <1>4

\* An expression never sees another variable older than it was when the change
\* that triggers it happened (NeverOlder): what is kept of a monitored variable
\* is written by every change that reaches it, watched or not.
THEOREM NothingOlder == Spec => []NeverOlder
<1>1. Init => NeverOlder
  BY DEF Init, NeverOlder
<1>2. ASSUME VarsInv, NeverOlder, [Next]_vars
      PROVE  NeverOlder'
  <2> SUFFICES ASSUME NEW q \in Queue, NEW i \in DOMAIN queue'[q],
                      NEW m \in DOMAIN queue'[q][i].seen,
                      m.var # queue'[q][i].var,
                      queue'[q][i].seen[m] \notin {Nothing, Unset},
                      NEW k \in (queue'[q][i].seen[m].n + 1)..queue'[q][i].new.n
               PROVE  log'[k] # m.var
    BY DEF NeverOlder
  <2>1. Len(log) \in Nat /\ delivered \in Nat /\ delivered <= Len(log)
    BY <1>2 DEF VarsInv, TypeInv, BusIsLog, delivered
  <2>2. CASE \E j \in DOMAIN queue[q] : queue'[q][i] = queue[q][j]
    <3>1. PICK j \in DOMAIN queue[q] : queue'[q][i] = queue[q][j]
      BY <2>2
    <3>2. queue[q] \in Seq(Msg(q))
      BY <1>2 DEF VarsInv, TypeInv
    <3>3. queue[q][j] \in Msg(q)
      BY <3>2
    <3>4. queue[q][j].seen[m] \in State /\ queue[q][j].new \in State
      BY <3>1, <3>3 DEF Msg
    <3>5. queue[q][j].seen[m].n \in Nat /\ queue[q][j].new.n \in Nat
      BY <3>4 DEF State
    <3>6. queue[q][j].new.n <= delivered
      BY <1>2 DEF VarsInv, QueueIsOld
    <3>7. k \in 1..Len(log)
      BY <2>1, <3>1, <3>5, <3>6
    <3>8. log[k] # m.var
      BY <1>2, <3>1 DEF NeverOlder
    <3>9. QED
      BY <1>2, <3>7, <3>8, LogGrows
  <2>3. CASE /\ state_changed /\ q \in notify[Head(bus).var]
             /\ queue'[q][i] = Message(q, Head(bus), last')
    <3> DEFINE e == Head(bus)
    <3>1. /\ e \in Event /\ e.var \in Var /\ e.new.n = delivered + 1
          /\ log[delivered + 1] = e.var /\ delivered + 1 <= Len(log)
          /\ \A w \in Var : w # e.var => last'[w] = last[w]
      BY <1>2, <2>3, StateAssumption, Delivery DEF Event
    <3> HIDE DEF e
    <3>2. /\ m \in NamesOf[q] /\ m.var # e.var
          /\ queue'[q][i].seen[m] = notify_var_get(m, e, last')
          /\ queue'[q][i].new = e.new
      BY <2>3 DEF Message, e
    <3>3. m.var \in Var
      BY <3>2, StateAssumption DEF StateAssumption
    <3>4. queue'[q][i].seen[m] = last[m.var] /\ last[m.var] # NoKey
      BY <3>1, <3>2, <3>3 DEF notify_var_get
    <3>5. last[m.var].n \in Nat
      BY <1>2, <3>3, <3>4 DEF VarsInv, TypeInv, State
    <3>6. k \in last[m.var].n + 1..delivered + 1 /\ k \in 1..Len(log)
      BY <2>1, <3>1, <3>2, <3>4, <3>5
    <3>7. log[k] # m.var
      <4>1. CASE k = delivered + 1
        BY <3>1, <3>2, <4>1
      <4>2. CASE k # delivered + 1
        <5>1. k \in last[m.var].n + 1..delivered
          BY <2>1, <3>5, <3>6, <4>2
        <5>2. QED
          BY <1>2, <3>3, <3>4, <5>1 DEF VarsInv, LastInv
      <4>3. QED
        BY <4>1, <4>2
    <3>8. QED
      BY <1>2, <3>6, <3>7, LogGrows
  <2>4. QED
    BY <1>2, <2>2, <2>3, Queued, StateAssumption
<1>3. QED
  BY <1>1, <1>2, VarsInvariant, PTL DEF Spec

\* When no event of a variable is under way, the value kept of it is the one
\* HASS has (LastIsFresh): what State.set and State.delete keep early is what
\* the last event of the variable brings.
THEOREM FreshWhenQuiet == Spec => []LastIsFresh
<1>1. Init => LastIsFresh
  BY DEF Init, LastIsFresh
<1>2. ASSUME VarsInv, LastIsFresh, [Next]_vars
      PROVE  LastIsFresh'
  <2>1. bus \in Seq(Event) /\ DOMAIN bus = 1..Len(bus) /\ Len(bus) \in Nat
    BY <1>2 DEF VarsInv, TypeInv
  <2>2. CASE UNCHANGED <<hass, bus, last>>
    BY <1>2, <2>2 DEF LastIsFresh, UnderWay
  <2>3. ASSUME NEW w \in Var, Write(w)
        PROVE  LastIsFresh'
    <3>1. CASE UNCHANGED <<hass, bus>>
      <4>1. \A v \in Var : last'[v] # NoKey => \/ last'[v] = last[v]
                                               \/ last'[v] = hass[v]
        BY <1>2, <2>3, <3>1 DEF Write, VarsInv, TypeInv
      <4>2. QED
        BY <1>2, <3>1, <4>1 DEF LastIsFresh, UnderWay
    <3>2. ASSUME NEW new \in State, Change(w, new)
          PROVE  LastIsFresh'
      <4> DEFINE e == [var |-> w, new |-> new, old |-> hass[w]]
      <4>1. e \in Event /\ e.var = w /\ bus' = Append(bus, e)
        BY <1>2, <3>2 DEF Change, Event, VarsInv, TypeInv
      <4> HIDE DEF e
      <4>2. /\ DOMAIN bus' = 1..Len(bus) + 1 /\ bus'[Len(bus) + 1].var = w
            /\ \A i \in 1..Len(bus) : bus'[i] = bus[i] /\ i \in DOMAIN bus'
        BY <2>1, <4>1
      <4>3. UnderWay(w)' # {}
        BY <2>1, <4>2 DEF UnderWay
      <4>4. ASSUME NEW v \in Var, last'[v] # NoKey, UnderWay(v)' = {}
            PROVE  last'[v] = hass'[v]
        <5>1. v # w
          BY <4>3, <4>4
        <5>2. UnderWay(v) = {}
          BY <2>1, <4>2, <4>4 DEF UnderWay
        <5>3. hass'[v] = hass[v]
          BY <1>2, <3>2, <5>1 DEF Change, VarsInv, TypeInv
        <5>4. last'[v] = last[v]
          BY <1>2, <2>3, <5>1 DEF Write, VarsInv, TypeInv
        <5>5. QED
          BY <1>2, <4>4, <5>2, <5>3, <5>4 DEF LastIsFresh
      <4>5. QED
        BY <4>4 DEF LastIsFresh
    <3>3. QED
      BY <2>3, <3>1, <3>2 DEF Write
  <2>4. CASE state_changed
    <3> DEFINE e == Head(bus)
    <3>1. /\ e = bus[1] /\ 1 \in DOMAIN bus /\ e.var \in Var
          /\ DOMAIN bus' = 1..Len(bus) - 1 /\ Len(bus') = Len(bus) - 1
          /\ \A i \in 1..Len(bus) - 1 : bus'[i] = bus[i + 1]
          /\ \A v \in Var : last'[v] = IF v = e.var /\ v \in known THEN e.new
                                                               ELSE last[v]
          /\ UNCHANGED <<hass, known>>
      BY <1>2, <2>4, Delivery, StateAssumption DEF Event, state_changed
    <3> HIDE DEF e
    <3> SUFFICES ASSUME NEW v \in Var, last'[v] # NoKey, UnderWay(v)' = {}
                 PROVE  last'[v] = hass[v]
      BY <3>1 DEF LastIsFresh
    <3>2. \A k \in 2..Len(bus) : bus[k].var # v
      <4>1. TAKE k \in 2..Len(bus)
      <4>2. k - 1 \in DOMAIN bus' /\ bus'[k - 1] = bus[(k - 1) + 1] /\ (k - 1) + 1 = k
        BY <2>1, <3>1
      <4>3. bus'[k - 1].var # v
        BY <4>2 DEF UnderWay
      <4>4. QED
        BY <4>2, <4>3
    <3>3. CASE e.var = v
      <4>1. v \in known
        BY <1>2, <3>1 DEF VarsInv, LastInv
      <4>2. last'[v] = e.new
        BY <3>1, <3>3, <4>1
      <4>3. e.new = hass[v]
        BY <1>2, <2>1, <3>1, <3>2, <3>3 DEF VarsInv, HassIsLatest
      <4>4. QED
        BY <4>2, <4>3
    <3>4. CASE e.var # v
      <4>1. last'[v] = last[v]
        BY <3>1, <3>4
      <4>2. UnderWay(v) = {}
        BY <2>1, <3>1, <3>2, <3>4 DEF UnderWay
      <4>3. QED
        BY <1>2, <4>1, <4>2 DEF LastIsFresh
    <3>5. QED
      BY <3>3, <3>4
  <2>5. \A q \in Queue : notify_add(q) \/ notify_del(q) \/ Get(q)
          => UNCHANGED <<hass, bus, last>>
    BY DEF notify_add, notify_del, Get
  <2>6. UNCHANGED vars => UNCHANGED <<hass, bus, last>>
    BY DEF vars
  <2>7. TypeInv
    BY <1>2 DEF VarsInv
  <2>8. QED
    BY <1>2, <2>2, <2>3, <2>4, <2>5, <2>6, <2>7, StepCases
<1>3. QED
  BY <1>1, <1>2, VarsInvariant, PTL DEF Spec

\* A sequence of a finite set has every element of it.
LEMMA SeqsComplete ==
  ASSUME NEW S, IsFiniteSet(S), NEW order \in SetToSeqs(S)
  PROVE  /\ \A i \in DOMAIN order : order[i] \in S
         /\ \A i, j \in DOMAIN order : order[i] = order[j] => i = j
         /\ \A s \in S : \E i \in DOMAIN order : order[i] = s
         /\ DOMAIN order \subseteq Nat
         /\ \A i \in DOMAIN order : \A j \in 1..i : j \in DOMAIN order
<1> DEFINE n == Cardinality(S)
           D == 1..n
<1>1. n \in Nat
  BY FS_CardinalityType
<1>2. order \in [D -> S] /\ \A i, j \in D : i # j => order[i] # order[j]
  BY DEF SetToSeqs
<1>3. IsFiniteSet(D) /\ Cardinality(D) = n
  <2> HIDE DEF n
  <2>1. IsFiniteSet(1..n) /\ Cardinality(1..n) = IF 1 > n THEN 0 ELSE n - 1 + 1
    BY <1>1, FS_Interval
  <2>2. QED
    BY <1>1, <2>1
<1>4. D \subseteq Nat /\ \A i \in D : \A j \in 1..i : j \in D
  BY <1>1
<1> HIDE DEF n, D
<1>5. order \in Injection(D, S)
  BY <1>2 DEF Injection, IsInjective
<1>6. order \in Surjection(D, S)
  BY <1>3, <1>5, FS_Injection DEF n
<1>7. \A s \in S : \E i \in D : order[i] = s
  BY <1>6 DEF Surjection
<1>8. QED
  BY <1>2, <1>4, <1>7

\* A queue whose names are of different variables is in no table once it is
\* unregistered (Unregistered): notify_del (state.py:162-172) leaves its loop
\* early only at a variable it has been taken from already.
THEOREM UnregisteredWell == Spec => []Unregistered
<1>1. Init => Unregistered
  BY DEF Init, Unregistered
<1>2. ASSUME VarsInv, Unregistered, [Next]_vars
      PROVE  Unregistered'
  <2>1. CASE UNCHANGED <<notify, phase>>
    BY <1>2, <2>1 DEF Unregistered, Watched
  <2>2. ASSUME NEW p \in Queue, notify_add(p)
        PROVE  Unregistered'
    <3>1. \A q \in Queue : phase'[q] = "done" =>
            /\ phase[q] = "done" /\ q # p
            /\ \A v \in Var : q \in notify'[v] => q \in notify[v]
      BY <1>2, <2>2 DEF notify_add, VarsInv, TypeInv
    <3>2. QED
      BY <1>2, <3>1 DEF Unregistered, Watched
  <2>3. ASSUME NEW p \in Queue, notify_del(p)
        PROVE  Unregistered'
    <3>1. PICK order \in SetToSeqs(Watched(p)) :
            notify' = [v \in Var |-> IF v \in dropped(p, order)
                                       THEN notify[v] \ {p} ELSE notify[v]]
      BY <2>3 DEF notify_del
    <3>2. ASSUME NEW q \in Queue, q # p, phase'[q] = "done"
          PROVE  /\ phase[q] = "done"
                 /\ \A v \in Var : q \in notify'[v] => q \in notify[v]
      BY <1>2, <2>3, <3>1, <3>2 DEF notify_del, VarsInv, TypeInv
    <3>3. ASSUME \A m, k \in Watched(p) : m.var = k.var => m = k,
                 NEW v \in Var
          PROVE  p \notin notify'[v]
      <4>1. \A w \in Var : p \in notify[w] <=> \E m \in Watched(p) : m.var = w
        BY <1>2, <2>3 DEF VarsInv, Registered, notify_del
      <4>2. IsFiniteSet(Watched(p)) /\ \A m \in Watched(p) : m.var \in Var
        <5>1. IsFiniteSet(NamesOf[p]) /\ Watched(p) \subseteq NamesOf[p]
              /\ \A m \in NamesOf[p] : m.var \in Var
          BY StateAssumption DEF StateAssumption, Watched
        <5>2. QED
          BY <5>1, FS_Subset
      <4>3. /\ \A i \in DOMAIN order : order[i] \in Watched(p)
            /\ \A i, j \in DOMAIN order : order[i] = order[j] => i = j
            /\ \A m \in Watched(p) : \E i \in DOMAIN order : order[i] = m
            /\ \A i \in DOMAIN order : \A j \in 1..i : j \in DOMAIN order
        BY <4>2, SeqsComplete
      <4>4. ASSUME NEW i \in DOMAIN order PROVE order[i].var \in dropped(p, order)
        <5>1. \A j \in 1..i : /\ j \in DOMAIN order /\ order[j] \in Watched(p)
                              /\ order[j].var \in Var /\ p \in notify[order[j].var]
          BY <4>1, <4>2, <4>3
        <5>2. \A j, k \in 1..i : order[j].var = order[k].var => j = k
          BY <3>3, <4>3, <5>1
        <5>3. QED
          BY <5>1, <5>2 DEF dropped
      <4>5. CASE p \in notify[v]
        <5>1. v \in dropped(p, order)
          BY <4>1, <4>3, <4>4, <4>5
        <5>2. QED
          BY <3>1, <5>1
      <4>6. CASE p \notin notify[v]
        BY <3>1, <4>6
      <4>7. QED
        BY <4>5, <4>6
    <3>4. QED
      BY <1>2, <3>2, <3>3 DEF Unregistered, Watched
  <2>4. \A w \in Var : Write(w) => UNCHANGED <<notify, phase>>
    BY DEF Write
  <2>5. \A q \in Queue : Get(q) => UNCHANGED <<notify, phase>>
    BY DEF Get
  <2>6. (state_changed \/ UNCHANGED vars) => UNCHANGED <<notify, phase>>
    BY DEF state_changed, vars
  <2>7. TypeInv
    BY <1>2 DEF VarsInv
  <2>8. QED
    BY <1>2, <2>1, <2>2, <2>3, <2>4, <2>5, <2>6, <2>7, StepCases
<1>3. QED
  BY <1>1, <1>2, VarsInvariant, PTL DEF Spec
=============================================================================
