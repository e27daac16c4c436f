------------------------ MODULE TriggerWaits_proofs ------------------------
(* Proofs about TriggerWaits, for any triggers, waits and number of messages. *)
EXTENDS TriggerWaits, SequenceTheorems, TLAPS

(* The inductive invariant *)

Tables == [notify : [Kind -> (SUBSET User) \cup {None}], remove : SUBSET Kind,
           listeners : SUBSET ((User \cup {Registries}) \X Kind), error : BOOLEAN]

Places == {"idle", "created", "adding", "subscribing", "waiting", "ended"}
Answers == {None, "true", "timeout", "raised", "cancelled", "stopped"}

\* Every part of the state has its type, but for the queues.
TypeInv ==
  /\ legacy \in BOOLEAN
  /\ tables \in Tables
  /\ pc \in [User -> Places]
  /\ pos \in [User -> Nat]
  /\ stopping \subseteq TrigInfo
  /\ result \in [User -> Answers]
  /\ broken \subseteq Kind /\ astray \subseteq User

\* How far each has got with its registrations.
Where ==
  \A u \in User :
    /\ pos[u] \in 1..Len(Asks[u]) + 1
    /\ pc[u] \in {"idle", "created"} => pos[u] = 1
    /\ pc[u] = "subscribing" => pos[u] <= Len(Asks[u]) /\ kindOf(u) = "mqtt"
    /\ pc[u] = "waiting" /\ result[u] = None => pos[u] > Len(Asks[u])
    /\ pc[u] = "ended" /\ result[u] = None => pos[u] <= Len(Asks[u])
    /\ legacy /\ pc[u] # "ended" => result[u] = None
    /\ pc[u] = "created" => u \in TrigInfo
    /\ u \in TrigInfo /\ ~legacy => pc[u] = "idle" /\ u \notin stopping

\* The registries serve the legacy code only, and nobody is registered for what
\* it does not ask for.
Modes ==
  /\ \A l \in tables.listeners : l[1] = Registries <=> legacy
  /\ ~legacy => \A k \in Kind : tables.notify[k] = None
  /\ \A u \in User, k \in Kind : Registered(u, k) => k \in Asked(u)

\* One subscription of MQTT is under way at a time; it has entered the topic.
OneSubscriber ==
  \A u \in User : legacy /\ pc[u] = "subscribing" =>
    /\ tables.notify["mqtt"] # None /\ "mqtt" \notin tables.remove
    /\ \A v \in User : pc[v] = "subscribing" => v = u

\* A topic that is not there has no remover.
Recorded == \A k \in tables.remove : tables.notify[k] # None

\* HASS calls a registry about each of its topics, once it has subscribed.
Called ==
  legacy => \A k \in Kind \ broken : tables.notify[k] # None =>
    \/ <<Registries, k>> \in tables.listeners
    \/ k = "mqtt" /\ \E v \in User : pc[v] = "subscribing"

\* HASS has one listener of a webhook.
OneWebhook ==
  \A l, m \in tables.listeners : l[2] = "webhook" /\ m[2] = "webhook" => l = m

\* Whoever is still wanted is registered for what it has come past.
Wanted(u) ==
  /\ pc[u] \in {"adding", "subscribing", "waiting"} /\ result[u] = None
  /\ u \notin stopping \cup astray

SoFar ==
  \A u \in User : Wanted(u) =>
    \A i \in DOMAIN Asks[u] : i < pos[u] => Registered(u, Asks[u][i])

\* Whoever has its answer or is stopped registers nothing any more, and is
\* registered nowhere.
Over(u) == u \in stopping \/ result[u] \in {"true", "timeout"}

Finished ==
  \A u \in User \ astray :
    /\ u \in stopping => pc[u] \in {"waiting", "ended"}
    /\ result[u] \in {"true", "timeout"} => pc[u] = "ended" \/ pos[u] > Len(Asks[u])
    /\ result[u] = "stopped" => u \in stopping

Gone == \A u \in User \ astray : Over(u) => \A k \in Kind : ~Registered(u, k)

WaitsInv == /\ TypeInv /\ Where /\ Modes /\ OneSubscriber /\ Recorded
            /\ NoOrphanListener /\ Called /\ OneWebhook /\ SoFar /\ Finished /\ Gone

-----------------------------------------------------------------------------
(* The registries *)

\* None is the set of nobody.
LEMMA NoneIsNoSet == ASSUME NEW s, s \subseteq User PROVE None # s
BY WaitsAssumption DEF WaitsAssumption

\* The last one out of a topic that has its remover, and of one that has not.
Last(t, k, u) == t.notify[k] # None /\ t.notify[k] = {u} /\ k \in t.remove
Stuck(t, k, u) == t.notify[k] # None /\ t.notify[k] = {u} /\ k \notin t.remove

\* What notify_del does to each part of the tables.
LEMMA DelOne ==
  ASSUME NEW t \in Tables, NEW k \in Kind, NEW u \in User
  PROVE  LET r == notify_del([t EXCEPT !.error = FALSE], k, u) IN
         /\ r.notify[k] = IF Last(t, k, u) THEN None
                          ELSE IF t.notify[k] # None THEN t.notify[k] \ {u}
                          ELSE t.notify[k]
         /\ r.remove = IF Last(t, k, u) THEN t.remove \ {k} ELSE t.remove
         /\ r.listeners = IF Last(t, k, u) THEN t.listeners \ {<<Registries, k>>}
                                           ELSE t.listeners
         /\ r.error = Stuck(t, k, u)
<1> DEFINE s == [t EXCEPT !.error = FALSE]
<1>1. /\ s.notify = t.notify /\ s.remove = t.remove /\ s.listeners = t.listeners
      /\ s.error = FALSE /\ s \in Tables
      /\ t.notify \in [Kind -> (SUBSET User) \cup {None}]
  BY DEF Tables
<1> HIDE DEF s
<1> DEFINE r == notify_del(s, k, u)
<1>2. CASE t.notify[k] = None
  <2>1. r = s
    BY <1>1, <1>2 DEF notify_del
  <2>2. QED
    BY <1>1, <1>2, <2>1 DEF Last, Stuck, s
<1>3. CASE t.notify[k] # None /\ u \notin t.notify[k]
  <2>1. r = s
    BY <1>1, <1>3 DEF notify_del
  <2>2. t.notify[k] # {u} /\ t.notify[k] \ {u} = t.notify[k]
    BY <1>1, <1>3
  <2>3. QED
    BY <1>1, <1>3, <2>1, <2>2 DEF Last, Stuck, s
<1>4. CASE t.notify[k] # None /\ u \in t.notify[k] /\ t.notify[k] \ {u} # {}
  <2>1. r = [s EXCEPT !.notify[k] = t.notify[k] \ {u}]
    BY <1>1, <1>4 DEF notify_del
  <2>2. t.notify[k] # {u}
    BY <1>4
  <2>3. /\ r.notify[k] = t.notify[k] \ {u} /\ r.remove = t.remove
        /\ r.listeners = t.listeners /\ r.error = FALSE
    BY <1>1, <2>1 DEF Tables
  <2>4. QED
    BY <1>4, <2>2, <2>3 DEF Last, Stuck, s
<1>5. CASE t.notify[k] # None /\ u \in t.notify[k] /\ t.notify[k] \ {u} = {}
  <2>1. t.notify[k] = {u}
    BY <1>1, <1>5
  <2>2. CASE k \notin t.remove
    <3>1. r = [s EXCEPT !.notify[k] = {}, !.error = TRUE]
      BY <1>1, <1>5, <2>2 DEF notify_del
    <3>2. /\ r.notify[k] = {} /\ r.remove = t.remove
          /\ r.listeners = t.listeners /\ r.error = TRUE
      BY <1>1, <3>1 DEF Tables
    <3>3. QED
      BY <1>5, <2>1, <2>2, <3>2 DEF Last, Stuck, s
  <2>3. CASE k \in t.remove
    <3>1. r = [s EXCEPT !.notify[k] = None, !.remove = @ \ {k},
                        !.listeners = @ \ {<<Registries, k>>}]
      BY <1>1, <1>5, <2>3 DEF notify_del
    <3>2. /\ r.notify[k] = None /\ r.remove = t.remove \ {k}
          /\ r.listeners = t.listeners \ {<<Registries, k>>} /\ r.error = FALSE
      BY <1>1, <3>1 DEF Tables
    <3>3. QED
      BY <1>5, <2>1, <2>3, <3>2 DEF Last, Stuck, s
  <2>4. QED
    BY <2>2, <2>3
<1>6. QED
  BY <1>1, <1>2, <1>3, <1>4, <1>5 DEF s

\* What the notify_del calls of a user do to the tables.
LEMMA DelAll ==
  ASSUME NEW t \in Tables, NEW u \in User, NEW kinds \in SUBSET Kind
  PROVE  LET r == notify_del_all(t, u, kinds)
             last(k) == k \in kinds /\ Last(t, k, u) IN
         /\ r \in Tables
         /\ \A k \in Kind : r.notify[k] =
              IF last(k) THEN None
              ELSE IF k \in kinds /\ t.notify[k] # None THEN t.notify[k] \ {u}
              ELSE t.notify[k]
         /\ \A k \in Kind : k \in r.remove <=> k \in t.remove /\ ~last(k)
         /\ \A l : l \in r.listeners <=>
              l \in t.listeners /\ ~(l = <<Registries, l[2]>> /\ last(l[2]))
         /\ r.error <=> \E k \in Asked(u) : Stuck(t, k, u)
<1> DEFINE d(k) == notify_del([t EXCEPT !.error = FALSE], k, u)
           after(k) == IF k \in kinds THEN d(k) ELSE t
           last(k) == k \in kinds /\ Last(t, k, u)
           r == notify_del_all(t, u, kinds)
<1>1. \A k \in Kind :
        /\ after(k).notify[k] = IF last(k) THEN None
              ELSE IF k \in kinds /\ t.notify[k] # None THEN t.notify[k] \ {u}
              ELSE t.notify[k]
        /\ after(k).remove = IF last(k) THEN t.remove \ {k} ELSE t.remove
        /\ after(k).listeners = IF last(k) THEN t.listeners \ {<<Registries, k>>}
                                           ELSE t.listeners
  BY DelOne
<1>2. Asked(u) \subseteq Kind
  BY WaitsAssumption DEF WaitsAssumption, Asked
<1>3. \A k \in Kind : raises(t, k, u) = Stuck(t, k, u)
  BY DelOne DEF raises
<1>4. /\ t.notify \in [Kind -> (SUBSET User) \cup {None}] /\ t.remove \subseteq Kind
      /\ \A l \in t.listeners : l[2] \in Kind /\ l = <<l[1], l[2]>>
      /\ t.listeners \subseteq (User \cup {Registries}) \X Kind
  BY DEF Tables
<1>5. /\ r.notify = [k \in Kind |-> after(k).notify[k]]
      /\ r.remove = {k \in t.remove : k \in after(k).remove}
      /\ r.listeners = {l \in t.listeners : l \in after(l[2]).listeners}
      /\ r.error = \E k \in Asked(u) : raises(t, k, u)
      /\ r = [notify |-> r.notify, remove |-> r.remove, listeners |-> r.listeners,
              error |-> r.error]
  BY DEF notify_del_all
<1> HIDE DEF after, last, r
<1>6. \A k \in Kind : r.notify[k] = IF last(k) THEN None
              ELSE IF k \in kinds /\ t.notify[k] # None THEN t.notify[k] \ {u}
              ELSE t.notify[k]
  BY <1>1, <1>5
<1>7. \A k \in Kind : k \in r.remove <=> k \in t.remove /\ ~last(k)
  BY <1>1, <1>5
<1>8. \A l : l \in r.listeners <=>
        l \in t.listeners /\ ~(l = <<Registries, l[2]>> /\ last(l[2]))
  <2>1. ASSUME NEW l \in t.listeners
        PROVE  l \in after(l[2]).listeners <=> ~(l = <<Registries, l[2]>> /\ last(l[2]))
    BY <1>1, <1>4
  <2>2. QED
    BY <1>5, <2>1
<1>9. r.error <=> \E k \in Asked(u) : Stuck(t, k, u)
  BY <1>2, <1>3, <1>5
<1>10. r \in Tables
  <2>1. r.notify \in [Kind -> (SUBSET User) \cup {None}]
    <3>1. \A k \in Kind : r.notify[k] \in (SUBSET User) \cup {None}
      BY <1>4, <1>6
    <3>2. QED
      BY <1>5, <3>1
  <2>2. r.remove \in SUBSET Kind /\ r.listeners \in SUBSET ((User \cup {Registries}) \X Kind)
        /\ r.error \in BOOLEAN
    BY <1>4, <1>5
  <2>3. QED
    BY <1>5, <2>1, <2>2 DEF Tables
<1>11. QED
  BY <1>6, <1>7, <1>8, <1>9, <1>10 DEF last, r

\* u has a queue in the registry.
Has(t, k, u) == t.notify[k] # None /\ u \in t.notify[k]

\* Its listeners are of topics somebody has a queue for.
NoOrphan(t) ==
  \A k \in Kind : <<Registries, k>> \in t.listeners =>
    k \in t.remove /\ t.notify[k] \notin {None, {}}

\* What unregister does: u is out of the registries unless a KeyError is raised,
\* the others stay in them, and what has a queue keeps its listener.
LEMMA Leave ==
  ASSUME NEW t \in Tables, NoOrphan(t), NEW u \in User,
         NEW r, r = unregister(t, u)
  PROVE  /\ r \in Tables /\ NoOrphan(r)
         /\ r.listeners \subseteq t.listeners /\ r.remove \subseteq t.remove
         /\ \A k \in Kind : r.notify[k] # None =>
              /\ t.notify[k] # None
              /\ <<Registries, k>> \in t.listeners => <<Registries, k>> \in r.listeners
         /\ \A k \in Kind : t.notify[k] # None /\ k \notin t.remove => r.notify[k] # None
         /\ \A k \in Kind, v \in User :
              /\ Has(r, k, v) => Has(t, k, v)
              /\ v # u /\ Has(t, k, v) => Has(r, k, v)
         /\ ~r.error => \A k \in Asked(u) : ~Has(r, k, u)
         /\ \A k \in r.remove : t.notify[k] # None => r.notify[k] # None
<1> DEFINE kinds == reached(t, u)
           last(k) == k \in kinds /\ Last(t, k, u)
<1>1. Asked(u) \subseteq Kind /\ kinds \subseteq Asked(u)
  BY WaitsAssumption DEF WaitsAssumption, Asked, reached
<1>2. /\ t.notify \in [Kind -> (SUBSET User) \cup {None}]
      /\ \A k \in Kind : t.notify[k] # None => t.notify[k] \subseteq User
  BY DEF Tables
<1>3. \A s \in SUBSET User : None # s
  BY NoneIsNoSet
<1>4. r = notify_del_all(t, u, kinds) /\ kinds \in SUBSET Kind
  BY <1>1 DEF unregister
<1> HIDE DEF kinds
<1>5. r \in Tables
  BY <1>4, DelAll
<1>6. \A k \in Kind : r.notify[k] =
              IF last(k) THEN None
              ELSE IF k \in kinds /\ t.notify[k] # None THEN t.notify[k] \ {u}
              ELSE t.notify[k]
  <2>1. \A k \in Kind : notify_del_all(t, u, kinds).notify[k] =
              IF k \in kinds /\ Last(t, k, u) THEN None
              ELSE IF k \in kinds /\ t.notify[k] # None THEN t.notify[k] \ {u}
              ELSE t.notify[k]
    <3> HIDE DEF last
    <3> QED BY <1>4, DelAll, Zenon
  <2>2. QED
    BY <1>4, <2>1
<1>7. \A k \in Kind : k \in r.remove <=> k \in t.remove /\ ~last(k)
  BY <1>4, DelAll
<1>8. \A l : l \in r.listeners <=>
              l \in t.listeners /\ ~(l = <<Registries, l[2]>> /\ last(l[2]))
  BY <1>4, DelAll
<1>9. r.error <=> \E k \in Asked(u) : Stuck(t, k, u)
  BY <1>4, DelAll
<1>10. \A k \in Kind : <<Registries, k>> \in r.listeners <=>
                          <<Registries, k>> \in t.listeners /\ ~last(k)
  BY <1>8
<1>11. \A k \in Kind : last(k) => t.notify[k] # None /\ t.notify[k] = {u} /\ k \in t.remove
  BY DEF Last
<1>12. r.listeners \subseteq t.listeners /\ r.remove \subseteq t.remove
  <2>1. r.remove \subseteq Kind
    BY <1>5 DEF Tables
  <2>2. QED
    BY <1>7, <1>8, <2>1
<1>13. \A k \in Kind, v \in User :
         /\ Has(r, k, v) => Has(t, k, v)
         /\ v # u /\ Has(t, k, v) => Has(r, k, v)
  <2>1. TAKE k \in Kind, v \in User
  <2>2. CASE last(k)
    <3>1. r.notify[k] = None /\ t.notify[k] = {u}
      BY <1>6, <1>11, <2>2
    <3>2. QED
      BY <3>1 DEF Has
  <2>3. CASE ~last(k) /\ k \in kinds /\ t.notify[k] # None
    <3>1. r.notify[k] = t.notify[k] \ {u}
      BY <1>6, <2>3
    <3>2. r.notify[k] # None
      BY <1>2, <1>3, <2>3, <3>1
    <3>3. QED
      BY <2>3, <3>1, <3>2 DEF Has
  <2>4. CASE ~last(k) /\ ~(k \in kinds /\ t.notify[k] # None)
    <3>1. r.notify[k] = t.notify[k]
      BY <1>6, <2>4
    <3>2. QED
      BY <3>1 DEF Has
  <2>5. QED
    BY <2>2, <2>3, <2>4
<1>14. ASSUME NEW k \in Kind
       PROVE  /\ r.notify[k] # None => /\ t.notify[k] # None
                                       /\ <<Registries, k>> \in t.listeners
                                            => <<Registries, k>> \in r.listeners
              /\ t.notify[k] # None /\ k \notin t.remove => r.notify[k] # None
  <2>1. CASE last(k)
    BY <1>6, <1>11, <2>1
  <2>2. CASE ~last(k)
    <3>1. (r.notify[k] = t.notify[k] \ {u} /\ t.notify[k] # None) \/ r.notify[k] = t.notify[k]
      BY <1>6, <2>2
    <3>2. t.notify[k] # None => r.notify[k] # None
      BY <1>2, <1>3, <3>1
    <3>3. QED
      BY <1>10, <2>2, <3>1, <3>2
  <2>3. QED
    BY <2>1, <2>2
<1>15. NoOrphan(r)
  <2> SUFFICES ASSUME NEW k \in Kind, <<Registries, k>> \in r.listeners
               PROVE  k \in r.remove /\ r.notify[k] # None /\ r.notify[k] # {}
    BY DEF NoOrphan
  <2>1. <<Registries, k>> \in t.listeners /\ ~last(k)
    BY <1>10
  <2>2. k \in t.remove /\ t.notify[k] # None /\ t.notify[k] # {}
    BY <2>1 DEF NoOrphan
  <2>3. k \in r.remove /\ r.notify[k] # None
    BY <1>7, <1>6, <1>2, <1>3, <2>1, <2>2
  <2>4. CASE k \in kinds
    <3>1. t.notify[k] # {u}
      BY <2>1, <2>2, <2>4 DEF Last
    <3>2. r.notify[k] = t.notify[k] \ {u}
      BY <1>6, <2>1, <2>2, <2>4
    <3>3. QED
      BY <2>2, <2>3, <3>1, <3>2
  <2>5. CASE k \notin kinds
    BY <1>6, <2>1, <2>2, <2>3, <2>5
  <2>6. QED
    BY <2>4, <2>5
<1>16. ~r.error => \A k \in Asked(u) : ~Has(r, k, u)
  <2> SUFFICES ASSUME ~r.error, NEW k \in Asked(u)
               PROVE  ~Has(r, k, u)
    OBVIOUS
  <2>1. \A j \in Kind : raises(t, j, u) = Stuck(t, j, u)
    BY DelOne DEF raises
  <2>2. kinds = Asked(u)
    <3>1. \A j \in Asked(u) : ~raises(t, j, u)
      BY <1>1, <1>9, <2>1
    <3>2. ASSUME NEW i \in DOMAIN Asks[u]
          PROVE  Asks[u][i] \in kinds
      <4>1. Asks[u] \in Seq(Kind)
        BY WaitsAssumption DEF WaitsAssumption
      <4>2. \A j \in 1..i - 1 : j \in DOMAIN Asks[u]
        BY <4>1
      <4>3. \A j \in 1..i - 1 : ~raises(t, Asks[u][j], u)
        BY <3>1, <4>2 DEF Asked
      <4>4. QED
        BY <4>3 DEF kinds, reached
    <3>3. QED
      BY <1>1, <3>2 DEF Asked
  <2>3. k \in Kind /\ k \in kinds
    BY <1>1, <2>2
  <2>4. CASE t.notify[k] = None
    BY <1>6, <2>3, <2>4 DEF Has
  <2>5. CASE t.notify[k] # None
    BY <1>6, <2>3, <2>5 DEF Has
  <2>6. QED
    BY <2>4, <2>5
<1>17. ASSUME NEW k \in r.remove, t.notify[k] # None
       PROVE  r.notify[k] # None
  <2>1. k \in Kind /\ k \in t.remove /\ ~last(k)
    BY <1>5, <1>7, <1>17 DEF Tables
  <2>2. r.notify[k] = t.notify[k] \ {u} \/ r.notify[k] = t.notify[k]
    BY <1>6, <2>1
  <2>3. QED
    BY <1>2, <1>3, <1>17, <2>1, <2>2
<1>18. QED
  <2>1. \A k \in Kind : r.notify[k] # None =>
          /\ t.notify[k] # None
          /\ <<Registries, k>> \in t.listeners => <<Registries, k>> \in r.listeners
    BY <1>14
  <2>2. \A k \in Kind : t.notify[k] # None /\ k \notin t.remove => r.notify[k] # None
    BY <1>14
  <2> HIDE DEF last
  <2>3. QED
    BY <1>5, <1>12, <1>13, <1>15, <1>16, <1>17, <2>1, <2>2

-----------------------------------------------------------------------------
(* The steps *)

\* A step that leaves the tables alone keeps what is said of them, when nobody
\* becomes wanted further, over, or a subscriber by it.
LEMMA SameTables ==
  ASSUME WaitsInv, TypeInv', Where', Finished',
         UNCHANGED <<legacy, tables>>,
         broken \subseteq broken', astray \subseteq astray',
         \A v \in User : legacy /\ pc'[v] = "subscribing" => pc[v] = "subscribing",
         legacy => \A v \in User : pc[v] = "subscribing" =>
                     pc'[v] = "subscribing" \/ "mqtt" \in broken',
         \A v \in User : Wanted(v)' => pos'[v] = 1 \/ (Wanted(v) /\ pos'[v] = pos[v]),
         \A v \in User : Over(v)' => Over(v)
  PROVE  WaitsInv'
<1>1. \A v \in User, k \in Kind : Registered(v, k)' <=> Registered(v, k)
  BY DEF Registered
<1>2. Modes' /\ NoOrphanListener' /\ OneWebhook' /\ Recorded'
  BY DEF WaitsInv, Modes, NoOrphanListener, OneWebhook, Recorded, Asked, Registered
<1>3. OneSubscriber'
  BY DEF WaitsInv, OneSubscriber
<1>4. Called'
  BY DEF WaitsInv, Called
<1>5. SoFar'
  <2> SUFFICES ASSUME NEW v \in User, Wanted(v)',
                      NEW i \in DOMAIN Asks[v], i < pos'[v]
               PROVE  Registered(v, Asks[v][i])'
    BY DEF SoFar
  <2>1. i \in Nat \ {0}
    BY WaitsAssumption DEF WaitsAssumption
  <2>2. Wanted(v) /\ pos'[v] = pos[v]
    BY <2>1
  <2>3. Registered(v, Asks[v][i])
    BY <2>2 DEF WaitsInv, SoFar
  <2>4. QED
    BY <2>3 DEF Registered
<1>6. Gone'
  <2> SUFFICES ASSUME NEW v \in User \ astray', Over(v)', NEW k \in Kind
               PROVE  ~Registered(v, k)'
    BY DEF Gone
  <2>1. v \in User \ astray /\ Over(v)
    OBVIOUS
  <2>2. ~Registered(v, k)
    BY <2>1 DEF WaitsInv, Gone
  <2>3. QED
    BY <2>2 DEF Registered
<1>7. QED
  BY <1>2, <1>3, <1>4, <1>5, <1>6 DEF WaitsInv

\* The types of what each user has, one by one.
LEMMA Typed ==
  ASSUME WaitsInv, NEW u \in User
  PROVE  /\ pc[u] \in Places
         /\ pos[u] \in Nat /\ Len(Asks[u]) \in Nat /\ Asks[u] \in Seq(Kind)
         /\ pos[u] <= Len(Asks[u]) =>
              /\ kindOf(u) \in Kind /\ kindOf(u) \in Asked(u)
              /\ pos[u] \in DOMAIN Asks[u]
         /\ \A i \in DOMAIN Asks[u] : i < pos[u] + 1 => i < pos[u] \/ i = pos[u]
<1>1. Asks[u] \in Seq(Kind) /\ pos[u] \in Nat /\ pos[u] \in 1..Len(Asks[u]) + 1
  BY WaitsAssumption DEF WaitsAssumption, WaitsInv, TypeInv, Where
<1> USE DEF Places
<1>2. pos[u] <= Len(Asks[u]) => pos[u] \in DOMAIN Asks[u]
  BY <1>1
<1>3. QED
  BY <1>1, <1>2 DEF WaitsInv, TypeInv, kindOf, Asked

\* The way into a wait.
LEMMA EnterStep ==
  ASSUME WaitsInv, NEW u \in User, Call(u) \/ RunTask(u) \/ Ready(u)
  PROVE  WaitsInv'
<1> DEFINE to == pc'[u]
<1>1. /\ UNCHANGED <<legacy, tables, pos, stopping, result, broken, astray>>
      /\ to \in {"created", "adding", "waiting"}
      /\ \A v \in User : v # u => pc'[v] = pc[v]
      /\ pc' \in [User -> Places]
  BY DEF Call, RunTask, Ready, Goto, history, WaitsInv, TypeInv, Places
<1>2. /\ pc[u] \in {"idle", "created", "adding"}
      /\ to = "created" => pc[u] = "idle" /\ u \in TrigInfo
      /\ to = "waiting" => pc[u] = "adding" /\ pos[u] > Len(Asks[u])
      /\ to = "adding" => pc[u] \in {"idle", "created"}
      /\ u \in TrigInfo /\ pc[u] = "idle" => legacy
  BY DEF Call, RunTask, Ready, Goto, WaitsInv, TypeInv
<1>3. TypeInv'
  BY <1>1 DEF WaitsInv, TypeInv
<1>4. Where'
  <2>1. \A v \in User : v # u => kindOf(v)' = kindOf(v)
    BY <1>1 DEF kindOf
  <2>2. QED
    BY <1>1, <1>2, <2>1 DEF WaitsInv, Where
<1>5. Finished'
  BY <1>1, <1>2 DEF WaitsInv, Finished
<1>6. ASSUME NEW v \in User, Wanted(v)'
      PROVE  pos'[v] = 1 \/ (Wanted(v) /\ pos'[v] = pos[v])
  BY <1>1, <1>2, <1>6 DEF Wanted, WaitsInv, Where
<1>7. \A v \in User : Over(v)' => Over(v)
  BY <1>1 DEF Over
<1>8. QED
  BY <1>1, <1>2, <1>3, <1>4, <1>5, <1>6, <1>7, SameTables

\* The ends that take nothing back.
LEMMA EndStep ==
  ASSUME WaitsInv, NEW u \in User, Return(u) \/ Cancel(u) \/ Reap(u)
  PROVE  WaitsInv'
<1>1. /\ UNCHANGED <<legacy, tables, pos, stopping, astray>>
      /\ pc' = [pc EXCEPT ![u] = "ended"] /\ pc[u] # "idle"
  BY DEF Return, Cancel, Reap, Goto, history
<1>2. /\ pc'[u] = "ended" /\ \A v \in User : v # u => pc'[v] = pc[v]
      /\ pc' \in [User -> Places]
  BY <1>1 DEF WaitsInv, TypeInv, Places
<1>3. /\ broken \subseteq broken' /\ broken' \subseteq Kind
      /\ legacy /\ pc[u] = "subscribing" => "mqtt" \in broken'
  BY DEF Return, Cancel, Reap, Goto, history, WaitsInv, TypeInv, Kind
<1>4. \/ result' = result /\ (result[u] # None \/ pc[u] = "subscribing") /\ ~legacy
      \/ result' = [result EXCEPT ![u] = "cancelled"] /\ u \in Waiter
      \/ result' = [result EXCEPT ![u] = "stopped"] /\ u \in stopping
  <2>1. CASE Return(u)
    BY <2>1 DEF Return
  <2>2. CASE Cancel(u)
    BY <2>2 DEF Cancel, Answer
  <2>3. CASE Reap(u)
    BY <2>3 DEF Reap, Answer
  <2>4. QED
    BY <2>1, <2>2, <2>3
<1>5. /\ result' \in [User -> Answers]
      /\ \A v \in User : v # u => result'[v] = result[v]
      /\ \/ result'[u] = result[u] /\ (result[u] # None \/ pc[u] = "subscribing") /\ ~legacy
         \/ result'[u] = "cancelled" \/ (result'[u] = "stopped" /\ u \in stopping)
  <2>1. result \in [User -> Answers]
    BY DEF WaitsInv, TypeInv
  <2>2. "cancelled" \in Answers /\ "stopped" \in Answers
    BY DEF Answers
  <2>3. /\ result' \in [User -> Answers]
        /\ \A v \in User : v # u => result'[v] = result[v]
    BY <1>4, <2>1, <2>2
  <2>4. \/ result'[u] = result[u] /\ (result[u] # None \/ pc[u] = "subscribing") /\ ~legacy
        \/ result'[u] = "cancelled" \/ (result'[u] = "stopped" /\ u \in stopping)
    BY <1>4, <2>1
  <2>5. QED
    BY <2>3, <2>4
<1>6. TypeInv'
  <2>1. UNCHANGED <<legacy, tables, pos, stopping, astray>>
    BY <1>1
  <2>2. QED
    BY <1>2, <1>3, <1>5, <2>1 DEF WaitsInv, TypeInv
<1>7. None # "cancelled" /\ None # "stopped"
  BY WaitsAssumption DEF WaitsAssumption
<1>8. u \in TrigInfo => legacy
  BY <1>1 DEF WaitsInv, Where
<1>9. Where'
  <2>1. \A v \in User : kindOf(v)' = kindOf(v)
    BY <1>1 DEF kindOf
  <2>2. QED
    BY <1>1, <1>2, <1>5, <1>7, <1>8, <2>1 DEF WaitsInv, Where
<1>10. Finished'
  BY <1>1, <1>2, <1>5 DEF WaitsInv, Finished
<1>11. \A v \in User : Wanted(v)' => Wanted(v) /\ pos'[v] = pos[v]
  BY <1>1, <1>2, <1>5 DEF Wanted
<1>12. \A v \in User : Over(v)' => Over(v)
  BY <1>1, <1>5 DEF Over
<1>13. /\ \A v \in User : legacy /\ pc'[v] = "subscribing" => pc[v] = "subscribing"
       /\ legacy => \A v \in User : pc[v] = "subscribing" =>
                     pc'[v] = "subscribing" \/ "mqtt" \in broken'
  BY <1>2, <1>3
<1>14. UNCHANGED <<legacy, tables>> /\ broken \subseteq broken' /\ astray \subseteq astray'
  BY <1>1, <1>3
<1>15. QED
  BY <1>6, <1>9, <1>10, <1>11, <1>12, <1>13, <1>14, SameTables

\* A message, and what the legacy code takes without ending the wait.
LEMMA MessageStep ==
  ASSUME WaitsInv, UNCHANGED <<legacy, tables, pc, pos, stopping, result, history>>
  PROVE  WaitsInv'
<1>1. TypeInv' /\ Finished'
  BY DEF WaitsInv, TypeInv, Finished, history
<1>2. Where'
  <2>1. \A v \in User : kindOf(v)' = kindOf(v)
    BY DEF kindOf
  <2>2. QED
    BY <2>1 DEF WaitsInv, Where
<1>3. \A v \in User : Wanted(v)' <=> Wanted(v)
  BY DEF Wanted, history
<1>4. \A v \in User : Over(v)' <=> Over(v)
  BY DEF Over
<1>5. QED
  BY <1>1, <1>2, <1>3, <1>4, SameTables DEF history

\* MQTT is subscribed to.
LEMMA SubscribeStep ==
  ASSUME WaitsInv, NEW u \in User, Subscribe(u)
  PROVE  WaitsInv'
<1>1. /\ UNCHANGED <<legacy, pos, stopping, result, broken, astray>>
      /\ pc[u] = "adding" /\ pos[u] <= Len(Asks[u]) /\ kindOf(u) = "mqtt"
      /\ pc'[u] = "subscribing" /\ \A v \in User : v # u => pc'[v] = pc[v]
      /\ pc' \in [User -> Places]
  BY DEF Subscribe, Goto, history, WaitsInv, TypeInv, Places
<1>2. Finished'
  BY <1>1 DEF WaitsInv, Finished
<1>3. Where'
  <2>1. \A v \in User : kindOf(v)' = kindOf(v)
    BY <1>1 DEF kindOf
  <2>2. QED
    BY <1>1, <2>1 DEF WaitsInv, Where
<1>4. \A v \in User : Wanted(v)' <=> Wanted(v)
  BY <1>1 DEF Wanted
<1>5. \A v \in User : Over(v)' <=> Over(v)
  BY <1>1 DEF Over
<1>6. CASE ~legacy
  <2>1. tables' = tables
    BY <1>6 DEF Subscribe
  <2>2. TypeInv'
    BY <1>1, <2>1 DEF WaitsInv, TypeInv
  <2>3. QED
    BY <1>1, <1>2, <1>3, <1>4, <1>5, <1>6, <2>1, <2>2, SameTables
<1>7. CASE legacy
  <2>1. /\ tables' = [tables EXCEPT !.notify["mqtt"] = {}]
        /\ tables.notify["mqtt"] = None /\ "mqtt" \in Kind
    BY <1>7 DEF Subscribe, Kind
  <2>2. /\ tables' \in Tables /\ tables'.remove = tables.remove
        /\ tables'.listeners = tables.listeners /\ tables'.notify["mqtt"] = {}
        /\ \A k \in Kind : k # "mqtt" => tables'.notify[k] = tables.notify[k]
    BY <2>1 DEF WaitsInv, TypeInv, Tables
  <2>3. {} # None
    BY NoneIsNoSet
  <2>4. TypeInv'
    BY <1>1, <2>2 DEF WaitsInv, TypeInv
  <2>5. \A v \in User, k \in Kind : Registered(v, k)' <=> Registered(v, k)
    <3>1. TAKE v \in User, k \in Kind
    <3>2. CASE k = "mqtt"
      BY <2>1, <2>2, <3>2 DEF Registered
    <3>3. CASE k # "mqtt"
      BY <2>2, <3>3 DEF Registered
    <3>4. QED
      BY <3>2, <3>3
  <2>6. Modes'
    BY <1>1, <1>7, <2>2, <2>5 DEF WaitsInv, Modes, Asked
  <2>7. <<Registries, "mqtt">> \notin tables.listeners
    BY <2>1 DEF WaitsInv, NoOrphanListener, Kind
  <2>8. NoOrphanListener'
    BY <2>2, <2>7 DEF WaitsInv, NoOrphanListener
  <2>9. \A v \in User : pc[v] # "subscribing"
    BY <1>7, <2>1 DEF WaitsInv, OneSubscriber
  <2>10. "mqtt" \notin tables.remove
    BY <2>1 DEF WaitsInv, Recorded
  <2>11. OneSubscriber'
    BY <1>1, <2>2, <2>3, <2>9, <2>10 DEF OneSubscriber
  <2>12. Called'
    BY <1>1, <2>2 DEF WaitsInv, Called
  <2>13. OneWebhook'
    BY <2>2 DEF WaitsInv, OneWebhook
  <2>14. SoFar' /\ Gone'
    BY <1>1, <1>4, <1>5, <2>5, Typed DEF WaitsInv, SoFar, Gone
  <2>15. Recorded'
    BY <2>2, <2>3 DEF WaitsInv, Recorded, TypeInv, Tables
  <2>16. QED
    BY <1>2, <1>3, <2>4, <2>6, <2>8, <2>11, <2>12, <2>13, <2>14, <2>15 DEF WaitsInv
<1>8. QED
  BY <1>6, <1>7 DEF WaitsInv, TypeInv

\* A new listener is about what u registers, and the only one of a webhook.
New(u) ==
  \A l \in tables'.listeners : l \notin tables.listeners =>
    /\ l = <<IF legacy THEN Registries ELSE u, kindOf(u)>>
    /\ kindOf(u) = "webhook" => \A m \in tables.listeners : m[2] # "webhook"

\* A registration that has come about, whichever way.
LEMMA Grow ==
  ASSUME WaitsInv, NEW u \in User,
         pc[u] \in {"adding", "subscribing"}, pos[u] <= Len(Asks[u]),
         UNCHANGED <<legacy, stopping, result, broken, astray>>,
         pc' \in [User -> Places], \A v \in User : v # u => pc'[v] = pc[v],
         \/ pc'[u] = "adding"
         \/ pc'[u] = "waiting" /\ ~legacy /\ result[u] # None,
         pos' = [pos EXCEPT ![u] = @ + 1],
         tables' \in Tables, NoOrphanListener', Recorded', OneSubscriber', Called',
         \A v \in User, j \in Kind :
           Registered(v, j)' <=> Registered(v, j) \/ (v = u /\ j = kindOf(u)),
         New(u),
         ~legacy => tables'.notify = tables.notify
  PROVE  WaitsInv'
<1>0. PICK k : /\ k = kindOf(u)
               /\ \A v \in User, j \in Kind :
                    Registered(v, j)' <=> Registered(v, j) \/ (v = u /\ j = k)
               /\ \A l \in tables'.listeners : l \notin tables.listeners =>
                    /\ l = <<IF legacy THEN Registries ELSE u, k>>
                    /\ k = "webhook" => \A m \in tables.listeners : m[2] # "webhook"
  BY DEF New
<1>1. /\ pos[u] \in 1..Len(Asks[u]) /\ k \in Kind /\ k \in Asked(u)
      /\ Len(Asks[u]) \in Nat /\ pos[u] \in DOMAIN Asks[u] /\ k = Asks[u][pos[u]]
  BY <1>0, Typed DEF WaitsInv, Where, kindOf
<1>2. pos'[u] = pos[u] + 1 /\ \A v \in User : v # u => pos'[v] = pos[v]
  BY DEF WaitsInv, TypeInv
<1>3. TypeInv'
  BY <1>1 DEF WaitsInv, TypeInv
<1>4. Where'
  <2> SUFFICES ASSUME NEW v \in User
               PROVE  /\ pos'[v] \in 1..Len(Asks[v]) + 1
                      /\ pc'[v] \in {"idle", "created"} => pos'[v] = 1
                      /\ pc'[v] = "subscribing" =>
                           pos'[v] <= Len(Asks[v]) /\ Asks[v][pos'[v]] = "mqtt"
                      /\ pc'[v] = "waiting" /\ result'[v] = None => pos'[v] > Len(Asks[v])
                      /\ pc'[v] = "ended" /\ result'[v] = None => pos'[v] <= Len(Asks[v])
                      /\ legacy' /\ pc'[v] # "ended" => result'[v] = None
                      /\ pc'[v] = "created" => v \in TrigInfo
                      /\ v \in TrigInfo /\ ~legacy' => pc'[v] = "idle" /\ v \notin stopping'
    BY DEF Where, kindOf
  <2>1. CASE v = u
    <3>1. legacy => result[u] = None
      BY DEF WaitsInv, Where
    <3>2. u \in TrigInfo => legacy
      BY DEF WaitsInv, Where
    <3>3. QED
      BY <1>1, <1>2, <2>1, <3>1, <3>2
  <2>2. CASE v # u
    BY <1>2, <2>2 DEF WaitsInv, Where, kindOf
  <2>3. QED
    BY <2>1, <2>2
<1>5. u \notin astray => ~Over(u)
  BY <1>1 DEF WaitsInv, Finished, Over
<1>6. Modes'
  <2>1. \A l \in tables'.listeners : l[1] = Registries <=> legacy'
    <3> SUFFICES ASSUME NEW l \in tables'.listeners
                 PROVE  l[1] = Registries <=> legacy
      OBVIOUS
    <3>1. CASE l \in tables.listeners
      BY <3>1 DEF WaitsInv, Modes
    <3>2. CASE l \notin tables.listeners
      <4>1. l[1] = IF legacy THEN Registries ELSE u
        BY <1>0, <3>2
      <4>2. u # Registries
        BY WaitsAssumption DEF WaitsAssumption
      <4>3. QED
        BY <4>1, <4>2
    <3>3. QED
      BY <3>1, <3>2
  <2>2. ~legacy' => \A j \in Kind : tables'.notify[j] = None
    BY DEF WaitsInv, Modes
  <2>3. \A v \in User, j \in Kind : Registered(v, j)' => j \in Asked(v)
    BY <1>0, <1>1 DEF WaitsInv, Modes
  <2>4. QED
    BY <2>1, <2>2, <2>3 DEF Modes, Asked
<1>7. OneWebhook'
  <2> SUFFICES ASSUME NEW l \in tables'.listeners, NEW m \in tables'.listeners,
                      l[2] = "webhook", m[2] = "webhook"
               PROVE  l = m
    BY DEF OneWebhook
  <2>1. CASE l \in tables.listeners /\ m \in tables.listeners
    BY <2>1 DEF WaitsInv, OneWebhook
  <2>2. CASE l \notin tables.listeners
    <3>1. k = "webhook" /\ l = <<IF legacy THEN Registries ELSE u, k>>
      BY <1>0, <2>2
    <3>2. m \notin tables.listeners
      BY <1>0, <2>2, <3>1
    <3>3. QED
      BY <1>0, <3>1, <3>2
  <2>3. CASE m \notin tables.listeners
    <3>1. k = "webhook" /\ m = <<IF legacy THEN Registries ELSE u, k>>
      BY <1>0, <2>3
    <3>2. l \notin tables.listeners
      BY <1>0, <2>3, <3>1
    <3>3. QED
      BY <1>0, <3>1, <3>2
  <2>4. QED
    BY <2>1, <2>2, <2>3
<1>8. SoFar'
  <2> SUFFICES ASSUME NEW v \in User, Wanted(v)', NEW i \in DOMAIN Asks[v], i < pos'[v]
               PROVE  Registered(v, Asks[v][i])'
    BY DEF SoFar
  <2>1. Wanted(v)
    BY DEF Wanted
  <2>2. Asks[v][i] \in Kind
    BY WaitsAssumption DEF WaitsAssumption
  <2>3. CASE i < pos[v]
    BY <2>1, <2>2, <2>3 DEF WaitsInv, SoFar
  <2>4. CASE ~(i < pos[v])
    <3>1. v = u /\ i = pos[u]
      BY <1>2, <2>4, Typed
    <3>2. QED
      BY <1>0, <1>1, <2>2, <3>1
  <2>5. QED
    BY <2>3, <2>4
<1>9. Finished'
  <2> SUFFICES ASSUME NEW v \in User \ astray
               PROVE  /\ v \in stopping' => pc'[v] \in {"waiting", "ended"}
                      /\ result'[v] \in {"true", "timeout"}
                           => pc'[v] = "ended" \/ pos'[v] > Len(Asks[v])
                      /\ result'[v] = "stopped" => v \in stopping'
    BY DEF Finished
  <2>1. CASE v = u
    BY <1>5, <2>1 DEF WaitsInv, Finished, Over
  <2>2. CASE v # u
    BY <1>2, <2>2 DEF WaitsInv, Finished
  <2>3. QED
    BY <2>1, <2>2
<1>10. Gone'
  <2> SUFFICES ASSUME NEW v \in User \ astray, Over(v)', NEW j \in Kind
               PROVE  ~Registered(v, j)'
    BY DEF Gone
  <2>1. Over(v) /\ v # u
    BY <1>5 DEF Over
  <2>2. ~Registered(v, j)
    BY <2>1 DEF WaitsInv, Gone
  <2>3. QED
    BY <2>1, <2>2
<1>11. QED
  BY <1>3, <1>4, <1>6, <1>7, <1>8, <1>9, <1>10 DEF WaitsInv

\* A decorator's own listener.
LEMMA GrowDm ==
  ASSUME WaitsInv, NEW u \in User, NEW k \in Kind, ~legacy, UNCHANGED legacy,
         tables' = [tables EXCEPT !.listeners = @ \cup {<<u, k>>}]
  PROVE  /\ tables' \in Tables /\ NoOrphanListener' /\ Recorded'
         /\ OneSubscriber' /\ Called'
         /\ \A v \in User, j \in Kind :
              Registered(v, j)' <=> Registered(v, j) \/ (v = u /\ j = k)
         /\ tables'.listeners = tables.listeners \cup {<<u, k>>}
         /\ tables'.notify = tables.notify
<1>1. tables \in Tables
  BY DEF WaitsInv, TypeInv
<1>2. /\ tables'.listeners = tables.listeners \cup {<<u, k>>}
      /\ tables'.notify = tables.notify /\ tables'.remove = tables.remove
  BY <1>1 DEF Tables
<1>3. tables' \in Tables
  BY <1>1 DEF Tables
<1>4. u # Registries
  BY WaitsAssumption DEF WaitsAssumption
<1>5. NoOrphanListener' /\ Recorded'
  BY <1>2, <1>4 DEF WaitsInv, NoOrphanListener, Recorded
<1>6. OneSubscriber' /\ Called'
  BY DEF OneSubscriber, Called
<1>7. \A v \in User, j \in Kind :
        Registered(v, j)' <=> Registered(v, j) \/ (v = u /\ j = k)
  BY <1>2 DEF Registered
<1>8. QED
  BY <1>2, <1>3, <1>5, <1>6, <1>7

\* A topic with its listener.
Listening(t, k, s) ==
  [t EXCEPT !.notify[k] = s, !.remove = @ \cup {k},
            !.listeners = @ \cup {<<Registries, k>>}]

\* A registry's listener and its first queues.
LEMMA GrowFields ==
  ASSUME NEW t \in Tables, NEW k \in Kind, NEW s \in SUBSET User, NEW r,
         r = Listening(t, k, s)
  PROVE  /\ r.listeners = t.listeners \cup {<<Registries, k>>}
         /\ r.remove = t.remove \cup {k}
         /\ r.notify[k] = s /\ \A j \in Kind : j # k => r.notify[j] = t.notify[j]
         /\ r \in Tables
<1> DEFINE n == [t.notify EXCEPT ![k] = s]
           m == t.remove \cup {k}
           l == t.listeners \cup {<<Registries, k>>}
<1>1. /\ t.notify \in [Kind -> (SUBSET User) \cup {None}] /\ t.remove \in SUBSET Kind
      /\ t.listeners \in SUBSET ((User \cup {Registries}) \X Kind) /\ t.error \in BOOLEAN
  BY DEF Tables
<1>2. /\ n \in [Kind -> (SUBSET User) \cup {None}] /\ n[k] = s
      /\ \A j \in Kind : j # k => n[j] = t.notify[j]
  BY <1>1
<1>3. m \in SUBSET Kind /\ l \in SUBSET ((User \cup {Registries}) \X Kind)
  BY <1>1
<1>4. r = [[[t EXCEPT !.notify = n] EXCEPT !.remove = m] EXCEPT !.listeners = l]
  BY DEF Tables, Listening
<1> HIDE DEF n, m, l
<1> DEFINE t1 == [t EXCEPT !.notify = n]
           t2 == [t1 EXCEPT !.remove = m]
<1>5. t1 \in Tables /\ t1.notify = n
  BY <1>2 DEF Tables
<1> HIDE DEF t1
<1>6. t2 \in Tables /\ t2.notify = n /\ t2.remove = m
  BY <1>3, <1>5 DEF Tables
<1>7. r = [t2 EXCEPT !.listeners = l]
  BY <1>4 DEF t1
<1> HIDE DEF t2
<1>8. r \in Tables /\ r.notify = n /\ r.remove = m /\ r.listeners = l
  BY <1>3, <1>6, <1>7 DEF Tables
<1>9. QED
  BY <1>2, <1>8 DEF m, l

\* The next registration.
LEMMA AddStep ==
  ASSUME WaitsInv, NEW u \in User, Add(u)
  PROVE  WaitsInv'
<1> DEFINE k == kindOf(u)
<1>1. /\ pc[u] = "adding" /\ pos[u] <= Len(Asks[u])
      /\ UNCHANGED <<legacy, pc, stopping, result, broken, astray>>
      /\ pos' = [pos EXCEPT ![u] = @ + 1]
      /\ pc \in [User -> Places] /\ tables \in Tables
  BY DEF Add, Advance, history, WaitsInv, TypeInv
<1>2. k \in Kind
  BY <1>1, Typed
<1>3. CASE ~legacy
  <2>1. /\ tables' = [tables EXCEPT !.listeners = @ \cup {<<u, k>>}] /\ ~Taken(k)
    BY <1>3 DEF Add
  <2> HIDE DEF k
  <2>2. /\ tables' \in Tables /\ NoOrphanListener' /\ Recorded'
        /\ OneSubscriber' /\ Called'
        /\ \A v \in User, j \in Kind :
             Registered(v, j)' <=> Registered(v, j) \/ (v = u /\ j = k)
        /\ tables'.listeners = tables.listeners \cup {<<u, k>>}
        /\ tables'.notify = tables.notify
    BY <1>1, <1>2, <1>3, <2>1, GrowDm
  <2>3. \A l \in tables'.listeners : l \notin tables.listeners =>
           /\ l = <<IF legacy THEN Registries ELSE u, k>>
           /\ k = "webhook" => \A m \in tables.listeners : m[2] # "webhook"
    BY <1>3, <2>1, <2>2 DEF Taken
  <2>4. New(u)
    BY <2>3 DEF New, k
  <2>5. \A v \in User, j \in Kind :
             Registered(v, j)' <=> Registered(v, j) \/ (v = u /\ j = kindOf(u))
    BY <2>2 DEF k
  <2>6. QED
    BY <1>1, <2>2, <2>4, <2>5, Grow
<1>4. CASE legacy
  <2>1. /\ tables' = notify_add(tables, k, u)
        /\ tables.notify[k] = None => k # "mqtt" /\ ~Taken(k)
    BY <1>4 DEF Add
  <2> HIDE DEF k
  <2>2. /\ \A s \in SUBSET User : None # s
        /\ \A j \in Kind : tables.notify[j] # None => tables.notify[j] \in SUBSET User
        /\ tables.notify \in [Kind -> (SUBSET User) \cup {None}]
    BY <1>1, NoneIsNoSet DEF Tables
  <2>3. CASE tables.notify[k] # None
    <3>1. tables' = [tables EXCEPT !.notify[k] = @ \cup {u}]
      BY <2>1, <2>3 DEF notify_add
    <3>2. /\ tables'.listeners = tables.listeners /\ tables'.remove = tables.remove
          /\ tables'.notify[k] = tables.notify[k] \cup {u}
          /\ \A j \in Kind : j # k => tables'.notify[j] = tables.notify[j]
          /\ tables' \in Tables
      <4> DEFINE s == tables.notify[k] \cup {u}
      <4>1. s \in (SUBSET User) \cup {None}
        BY <1>2, <2>2, <2>3
      <4>2. tables' = [tables EXCEPT !.notify[k] = s]
        BY <3>1
      <4> HIDE DEF s
      <4>3. /\ tables'.listeners = tables.listeners /\ tables'.remove = tables.remove
            /\ tables'.notify[k] = s
            /\ \A j \in Kind : j # k => tables'.notify[j] = tables.notify[j]
            /\ tables' \in Tables
        BY <1>1, <1>2, <4>1, <4>2 DEF Tables
      <4>4. QED
        BY <4>3 DEF s
    <3>3. tables'.notify[k] # None /\ tables'.notify[k] # {}
      BY <1>2, <2>2, <2>3, <3>2
    <3>4. \A v \in User, j \in Kind :
             Registered(v, j)' <=> Registered(v, j) \/ (v = u /\ j = k)
      <4>1. TAKE v \in User, j \in Kind
      <4>2. CASE j = k
        BY <2>3, <3>2, <3>3, <4>2 DEF Registered
      <4>3. CASE j # k
        BY <3>2, <4>3 DEF Registered
      <4>4. QED
        BY <4>2, <4>3
    <3>5. NoOrphanListener' /\ Recorded'
      BY <3>2, <3>3 DEF WaitsInv, NoOrphanListener, Recorded, Tables
    <3>6. OneSubscriber'
      <4>1. tables.notify["mqtt"] # None => tables'.notify["mqtt"] # None
        BY <3>2, <3>3 DEF Kind
      <4>2. QED
        BY <1>1, <3>2, <4>1 DEF WaitsInv, OneSubscriber
    <3>7. Called'
      BY <1>1, <2>3, <3>2 DEF WaitsInv, Called
    <3>8. \A l \in tables'.listeners : l \notin tables.listeners =>
           /\ l = <<IF legacy THEN Registries ELSE u, k>>
           /\ k = "webhook" => \A m \in tables.listeners : m[2] # "webhook"
      BY <3>2
    <3>9. tables' \in Tables /\ New(u)
      BY <3>2, <3>8 DEF New, k
    <3>10. \A v \in User, j \in Kind :
             Registered(v, j)' <=> Registered(v, j) \/ (v = u /\ j = kindOf(u))
      BY <3>4 DEF k
    <3>11. QED
      BY <1>1, <1>4, <3>5, <3>6, <3>7, <3>9, <3>10, Grow
  <2>4. CASE tables.notify[k] = None
    <3>1. tables' = [tables EXCEPT !.notify[k] = {u}, !.remove = @ \cup {k},
                                   !.listeners = @ \cup {<<Registries, k>>}]
          /\ k # "mqtt" /\ ~Taken(k)
      BY <2>1, <2>4 DEF notify_add
    <3>2. /\ tables'.listeners = tables.listeners \cup {<<Registries, k>>}
          /\ tables'.remove = tables.remove \cup {k}
          /\ tables'.notify[k] = {u}
          /\ \A j \in Kind : j # k => tables'.notify[j] = tables.notify[j]
          /\ tables' \in Tables
      <4>1. {u} \in SUBSET User
        OBVIOUS
      <4>2. tables' = Listening(tables, k, {u})
        BY <3>1 DEF Listening
      <4>3. QED
        BY <1>1, <1>2, <4>1, <4>2, GrowFields
    <3>3. tables'.notify[k] # None /\ tables'.notify[k] # {}
      BY <2>2, <3>2
    <3>4. \A v \in User, j \in Kind :
             Registered(v, j)' <=> Registered(v, j) \/ (v = u /\ j = k)
      <4>1. TAKE v \in User, j \in Kind
      <4>2. v # Registries
        BY WaitsAssumption DEF WaitsAssumption
      <4>3. CASE j = k
        BY <2>4, <3>2, <3>3, <4>2, <4>3 DEF Registered
      <4>4. CASE j # k
        BY <3>2, <4>2, <4>4 DEF Registered
      <4>5. QED
        BY <4>3, <4>4
    <3>5. NoOrphanListener' /\ Recorded'
      BY <3>2, <3>3 DEF WaitsInv, NoOrphanListener, Recorded, Tables
    <3>6. OneSubscriber'
      <4>1. tables'.notify["mqtt"] = tables.notify["mqtt"]
            /\ ("mqtt" \in tables'.remove <=> "mqtt" \in tables.remove)
        BY <3>1, <3>2 DEF Kind
      <4>2. QED
        BY <1>1, <4>1 DEF WaitsInv, OneSubscriber
    <3>7. Called'
      BY <1>1, <3>2 DEF WaitsInv, Called
    <3>8. \A l \in tables'.listeners : l \notin tables.listeners =>
           /\ l = <<IF legacy THEN Registries ELSE u, k>>
           /\ k = "webhook" => \A m \in tables.listeners : m[2] # "webhook"
      <4>1. \A l \in tables'.listeners : l \notin tables.listeners => l = <<Registries, k>>
        BY <3>2
      <4>2. k = "webhook" => \A m \in tables.listeners : m[2] # "webhook"
        BY <3>1 DEF Taken
      <4>3. QED
        BY <1>4, <4>1, <4>2
    <3>9. tables' \in Tables /\ New(u)
      BY <3>2, <3>8 DEF New, k
    <3>10. \A v \in User, j \in Kind :
             Registered(v, j)' <=> Registered(v, j) \/ (v = u /\ j = kindOf(u))
      BY <3>4 DEF k
    <3>11. QED
      BY <1>1, <1>4, <3>5, <3>6, <3>7, <3>9, <3>10, Grow
  <2>5. QED
    BY <2>3, <2>4
<1>5. QED
  BY <1>3, <1>4

\* The subscription of MQTT has come about.
LEMMA SubscribedStep ==
  ASSUME WaitsInv, NEW u \in User, Subscribed(u)
  PROVE  WaitsInv'
<1>1. /\ pc[u] = "subscribing" /\ kindOf(u) = "mqtt" /\ pos[u] <= Len(Asks[u])
      /\ UNCHANGED <<legacy, stopping, result, broken, astray>>
      /\ pos' = [pos EXCEPT ![u] = @ + 1] /\ tables \in Tables /\ "mqtt" \in Kind
  BY DEF Subscribed, Advance, history, WaitsInv, TypeInv, Where, Kind
<1>2. /\ pc' \in [User -> Places] /\ \A v \in User : v # u => pc'[v] = pc[v]
      /\ \/ pc'[u] = "adding"
         \/ pc'[u] = "waiting" /\ ~legacy /\ result[u] # None
  BY DEF Subscribed, Goto, WaitsInv, TypeInv, Places
<1>3. CASE ~legacy
  <2>1. tables' = [tables EXCEPT !.listeners = @ \cup {<<u, "mqtt">>}]
    BY <1>3 DEF Subscribed
  <2>2. /\ tables' \in Tables /\ NoOrphanListener' /\ Recorded'
        /\ OneSubscriber' /\ Called'
        /\ \A v \in User, j \in Kind :
             Registered(v, j)' <=> Registered(v, j) \/ (v = u /\ j = "mqtt")
        /\ tables'.listeners = tables.listeners \cup {<<u, "mqtt">>}
        /\ tables'.notify = tables.notify
    BY <1>1, <1>3, <2>1, GrowDm
  <2>3. \A l \in tables'.listeners : l \notin tables.listeners =>
           l = <<IF legacy THEN Registries ELSE u, "mqtt">>
    BY <1>3, <2>2
  <2>4. New(u)
    BY <1>1, <2>3 DEF New
  <2>5. QED
    BY <1>1, <1>2, <2>2, <2>4, Grow
<1>4. CASE legacy
  <2>1. tables' = [tables EXCEPT !.notify["mqtt"] = @ \cup {u},
                                 !.remove = @ \cup {"mqtt"},
                                 !.listeners = @ \cup {<<Registries, "mqtt">>}]
    BY <1>4 DEF Subscribed, subscribed
  <2>2. /\ tables.notify["mqtt"] # None
        /\ \A v \in User : pc[v] = "subscribing" => v = u
    BY <1>1, <1>4 DEF WaitsInv, OneSubscriber
  <2>3. tables.notify["mqtt"] \in SUBSET User
    BY <1>1, <2>2 DEF Tables
  <2> DEFINE s == tables.notify["mqtt"] \cup {u}
  <2>4. s \in SUBSET User /\ s # None /\ s # {}
    BY <2>3, NoneIsNoSet
  <2>5. tables' = Listening(tables, "mqtt", s)
    BY <2>1 DEF Listening
  <2> HIDE DEF s
  <2>6. /\ tables'.listeners = tables.listeners \cup {<<Registries, "mqtt">>}
        /\ tables'.remove = tables.remove \cup {"mqtt"}
        /\ tables'.notify["mqtt"] = s
        /\ \A j \in Kind : j # "mqtt" => tables'.notify[j] = tables.notify[j]
        /\ tables' \in Tables
    BY <1>1, <2>4, <2>5, GrowFields
  <2>7. \A v \in User, j \in Kind :
             Registered(v, j)' <=> Registered(v, j) \/ (v = u /\ j = "mqtt")
    <3>1. TAKE v \in User, j \in Kind
    <3>2. v # Registries
      BY WaitsAssumption DEF WaitsAssumption
    <3>3. CASE j = "mqtt"
      BY <2>2, <2>4, <2>6, <3>2, <3>3 DEF Registered, s
    <3>4. CASE j # "mqtt"
      BY <2>6, <3>2, <3>4 DEF Registered
    <3>5. QED
      BY <3>3, <3>4
  <2>8. NoOrphanListener' /\ Recorded'
    BY <2>4, <2>6 DEF WaitsInv, NoOrphanListener, Recorded, Tables
  <2>9. \A v \in User : pc'[v] # "subscribing"
    BY <1>2, <2>2
  <2>10. OneSubscriber'
    BY <2>9 DEF OneSubscriber
  <2>11. Called'
    <3> SUFFICES ASSUME NEW j \in Kind \ broken, tables'.notify[j] # None
                 PROVE  <<Registries, j>> \in tables'.listeners
      BY <1>1 DEF Called
    <3>1. CASE j = "mqtt"
      BY <2>6, <3>1
    <3>2. CASE j # "mqtt"
      BY <1>4, <2>6, <3>2 DEF WaitsInv, Called
    <3>3. QED
      BY <3>1, <3>2
  <2>12. \A l \in tables'.listeners : l \notin tables.listeners =>
           l = <<IF legacy THEN Registries ELSE u, "mqtt">>
    BY <1>4, <2>6
  <2>13. New(u)
    BY <1>1, <2>12 DEF New
  <2>14. QED
    BY <1>1, <1>2, <1>4, <2>6, <2>7, <2>8, <2>10, <2>11, <2>13, Grow
<1>5. QED
  BY <1>3, <1>4

\* A legacy step that takes u out of the registries, or gives up its topic.
LEMMA Shrink ==
  ASSUME WaitsInv, legacy, UNCHANGED legacy, NEW u \in User,
         TypeInv', Where', Finished', NoOrphanListener', Recorded',
         tables'.listeners \subseteq tables.listeners,
         tables'.remove \subseteq tables.remove,
         broken \subseteq broken', astray \subseteq astray',
         \A k \in Kind : tables'.notify[k] # None =>
           \/ k \in broken'
           \/ /\ tables.notify[k] # None
              /\ <<Registries, k>> \in tables.listeners
                   => <<Registries, k>> \in tables'.listeners,
         \A k \in Kind : tables.notify[k] # None /\ k \notin tables.remove
                           => tables'.notify[k] # None,
         \A k \in Kind, v \in User :
           /\ Has(tables', k, v) => Has(tables, k, v)
           /\ v # u /\ Has(tables, k, v) => Has(tables', k, v),
         \A v \in User : pc'[v] = "subscribing" => pc[v] = "subscribing",
         \A v \in User : pc[v] = "subscribing" =>
           pc'[v] = "subscribing" \/ "mqtt" \in broken',
         \A v \in User : Wanted(v)' => v # u /\ Wanted(v) /\ pos'[v] = pos[v],
         \A v \in User \ astray' : Over(v)' =>
           Over(v) \/ (v = u /\ \A k \in Asked(u) : ~Has(tables', k, u))
  PROVE  WaitsInv'
<1>1. \A l \in tables.listeners : l[1] = Registries
  BY DEF WaitsInv, Modes
<1>2. \A v \in User, k \in Kind :
        /\ Registered(v, k) <=> Has(tables, k, v)
        /\ Registered(v, k)' <=> Has(tables', k, v)
  <2>1. \A v \in User : v # Registries
    BY WaitsAssumption DEF WaitsAssumption
  <2>2. \A v \in User, k \in Kind :
          <<v, k>> \notin tables.listeners /\ <<v, k>> \notin tables'.listeners
    BY <1>1, <2>1
  <2>3. QED
    BY <2>2 DEF Registered, Has
<1>3. Modes'
  <2>1. \A l \in tables'.listeners : l[1] = Registries <=> legacy'
    BY <1>1
  <2>2. \A v \in User, k \in Kind : Registered(v, k)' => k \in Asked(v)
    BY <1>2 DEF WaitsInv, Modes
  <2>3. QED
    BY <2>1, <2>2 DEF Modes, Asked
<1>4. "mqtt" \in Kind
  BY DEF Kind
<1>5. OneSubscriber'
  BY <1>4 DEF WaitsInv, OneSubscriber
<1>6. Called'
  <2> SUFFICES ASSUME NEW k \in Kind \ broken', tables'.notify[k] # None
               PROVE  \/ <<Registries, k>> \in tables'.listeners
                      \/ k = "mqtt" /\ \E v \in User : pc'[v] = "subscribing"
    BY DEF Called
  <2>1. \/ <<Registries, k>> \in tables.listeners
        \/ k = "mqtt" /\ \E v \in User : pc[v] = "subscribing"
    BY DEF WaitsInv, Called
  <2>2. QED
    BY <2>1
<1>7. OneWebhook'
  BY DEF WaitsInv, OneWebhook
<1>8. SoFar'
  <2> SUFFICES ASSUME NEW v \in User, Wanted(v)', NEW i \in DOMAIN Asks[v], i < pos'[v]
               PROVE  Registered(v, Asks[v][i])'
    BY DEF SoFar
  <2>1. Registered(v, Asks[v][i])
    BY DEF WaitsInv, SoFar
  <2>2. Asks[v][i] \in Kind
    BY WaitsAssumption DEF WaitsAssumption
  <2>3. QED
    BY <1>2, <2>1, <2>2
<1>9. Gone'
  <2> SUFFICES ASSUME NEW v \in User \ astray', Over(v)', NEW k \in Kind
               PROVE  ~Registered(v, k)'
    BY DEF Gone
  <2>1. CASE Over(v)
    <3>1. ~Registered(v, k)
      BY <2>1 DEF WaitsInv, Gone
    <3>2. QED
      BY <1>2, <3>1
  <2>2. CASE v = u /\ \A j \in Asked(u) : ~Has(tables', j, u)
    <3>1. Registered(v, k)' => k \in Asked(u)
      BY <1>2, <2>2 DEF WaitsInv, Modes
    <3>2. QED
      BY <1>2, <2>2, <3>1
  <2>3. QED
    BY <2>1, <2>2
<1>10. QED
  BY <1>3, <1>5, <1>6, <1>7, <1>8, <1>9 DEF WaitsInv

\* The same of unregister, after a webhook topic that came to nothing, if any.
LEMMA ShrinkLeave ==
  ASSUME WaitsInv, legacy, UNCHANGED legacy, NEW u \in User, NEW t \in Tables,
         tables' = unregister(t, u),
         t.listeners = tables.listeners, t.remove = tables.remove,
         \A k \in Kind : \/ t.notify[k] = tables.notify[k]
                         \/ /\ tables.notify[k] = None /\ t.notify[k] = {}
                            /\ k \in broken'
  PROVE  /\ tables' \in Tables /\ NoOrphanListener' /\ Recorded'
         /\ tables'.listeners \subseteq tables.listeners
         /\ tables'.remove \subseteq tables.remove
         /\ \A k \in Kind : tables'.notify[k] # None =>
              \/ k \in broken'
              \/ /\ tables.notify[k] # None
                 /\ <<Registries, k>> \in tables.listeners
                      => <<Registries, k>> \in tables'.listeners
         /\ \A k \in Kind : tables.notify[k] # None /\ k \notin tables.remove
                              => tables'.notify[k] # None
         /\ \A k \in Kind, v \in User :
              /\ Has(tables', k, v) => Has(tables, k, v)
              /\ v # u /\ Has(tables, k, v) => Has(tables', k, v)
         /\ ~tables'.error => \A k \in Asked(u) : ~Has(tables', k, u)
<1>1. NoOrphan(t)
  BY DEF WaitsInv, NoOrphanListener, NoOrphan
<1>2. \A k \in Kind, v \in User : Has(t, k, v) <=> Has(tables, k, v)
  BY DEF Has
<1>3. PICK r : r = tables'
  OBVIOUS
<1>4. r = unregister(t, u)
  BY <1>3
<1>5. /\ r \in Tables /\ NoOrphan(r)
      /\ r.listeners \subseteq t.listeners /\ r.remove \subseteq t.remove
      /\ \A k \in Kind : r.notify[k] # None =>
           /\ t.notify[k] # None
           /\ <<Registries, k>> \in t.listeners => <<Registries, k>> \in r.listeners
      /\ \A k \in Kind : t.notify[k] # None /\ k \notin t.remove => r.notify[k] # None
      /\ \A k \in Kind, v \in User :
           /\ Has(r, k, v) => Has(t, k, v)
           /\ v # u /\ Has(t, k, v) => Has(r, k, v)
      /\ ~r.error => \A k \in Asked(u) : ~Has(r, k, u)
      /\ \A k \in r.remove : t.notify[k] # None => r.notify[k] # None
  BY <1>1, <1>4, Leave
<1>6. NoOrphanListener' /\ r.remove \subseteq Kind
  BY <1>3, <1>5 DEF NoOrphan, NoOrphanListener, Tables
<1>7. Recorded'
  <2>1. \A k \in r.remove : t.notify[k] # None
    BY <1>5, <1>6 DEF WaitsInv, Recorded
  <2>2. QED
    BY <1>3, <1>5, <2>1 DEF Recorded
<1>8. ASSUME NEW k \in Kind
      PROVE  /\ r.notify[k] # None =>
                  \/ k \in broken'
                  \/ /\ tables.notify[k] # None
                     /\ <<Registries, k>> \in tables.listeners
                          => <<Registries, k>> \in r.listeners
             /\ tables.notify[k] # None /\ k \notin tables.remove
                  => r.notify[k] # None
  BY <1>5
<1>9. \A k \in Kind, v \in User :
        /\ Has(r, k, v) => Has(tables, k, v)
        /\ v # u /\ Has(tables, k, v) => Has(r, k, v)
  BY <1>2, <1>5
<1>10. QED
  <2>1. r \in Tables /\ r.listeners \subseteq tables.listeners
        /\ r.remove \subseteq tables.remove
        /\ (~r.error => \A k \in Asked(u) : ~Has(r, k, u))
    BY <1>5
  <2>2. QED
    BY <1>3, <1>6, <1>7, <1>8, <1>9, <2>1

\* TrigInfo.stop.
LEMMA StopStep ==
  ASSUME WaitsInv, NEW u \in User, Stop(u)
  PROVE  WaitsInv'
<1>1. /\ u \in TrigInfo /\ pc[u] # "idle" /\ legacy
      /\ UNCHANGED <<legacy, pc, pos, result, broken>>
      /\ tables' = unregister(tables, u) /\ tables \in Tables
  BY DEF Stop, WaitsInv, TypeInv, Where
<1>2. /\ stopping' = IF tables'.error THEN stopping ELSE stopping \cup {u}
      /\ astray' = IF pc[u] # "waiting" \/ tables'.error THEN astray \cup {u} ELSE astray
  BY DEF Stop
<1>3. /\ tables' \in Tables /\ NoOrphanListener' /\ Recorded'
      /\ tables'.listeners \subseteq tables.listeners
      /\ tables'.remove \subseteq tables.remove
      /\ \A k \in Kind : tables'.notify[k] # None =>
           \/ k \in broken'
           \/ /\ tables.notify[k] # None
              /\ <<Registries, k>> \in tables.listeners
                   => <<Registries, k>> \in tables'.listeners
      /\ \A k \in Kind : tables.notify[k] # None /\ k \notin tables.remove
                           => tables'.notify[k] # None
      /\ \A k \in Kind, v \in User :
           /\ Has(tables', k, v) => Has(tables, k, v)
           /\ v # u /\ Has(tables, k, v) => Has(tables', k, v)
      /\ ~tables'.error => \A k \in Asked(u) : ~Has(tables', k, u)
  BY <1>1, ShrinkLeave
<1>4. TypeInv'
  BY <1>1, <1>2, <1>3 DEF WaitsInv, TypeInv
<1>5. Where'
  <2>1. \A v \in User : kindOf(v)' = kindOf(v)
    BY <1>1 DEF kindOf
  <2>2. QED
    BY <1>1, <1>2, <2>1 DEF WaitsInv, Where
<1>6. Finished'
  BY <1>1, <1>2 DEF WaitsInv, Finished
<1>7. \A v \in User : Wanted(v)' => v # u /\ Wanted(v) /\ pos'[v] = pos[v]
  BY <1>1, <1>2 DEF Wanted
<1>8. ASSUME NEW v \in User \ astray', Over(v)'
      PROVE  Over(v) \/ (v = u /\ \A k \in Asked(u) : ~Has(tables', k, u))
  <2>1. Over(v) \/ (v = u /\ ~tables'.error)
    BY <1>1, <1>2, <1>8 DEF Over
  <2>2. QED
    BY <1>3, <2>1
<1>9. /\ UNCHANGED legacy /\ broken \subseteq broken' /\ astray \subseteq astray'
      /\ \A v \in User : pc'[v] = "subscribing" => pc[v] = "subscribing"
      /\ \A v \in User : pc[v] = "subscribing" =>
           pc'[v] = "subscribing" \/ "mqtt" \in broken'
  BY <1>1, <1>2
<1>10. QED
  BY <1>1, <1>3, <1>4, <1>5, <1>6, <1>7, <1>8, <1>9, Shrink

\* A message that is looked at, or the end of a legacy wait.
LEMMA TakeStep ==
  ASSUME WaitsInv, NEW u \in User, NEW what \in {"true", "false", "timeout"},
         Take(u, what)
  PROVE  WaitsInv'
<1>1. CASE u \in TrigInfo \/ what = "false"
  BY <1>1, MessageStep DEF Take
<1>2. CASE ~(u \in TrigInfo \/ what = "false")
  <2>1. /\ legacy /\ pc[u] = "waiting" /\ u \notin TrigInfo
        /\ UNCHANGED <<legacy, pos, stopping, broken, astray>>
        /\ tables' = unregister(tables, u) /\ tables \in Tables
        /\ pc' = [pc EXCEPT ![u] = "ended"]
        /\ what \in {"true", "timeout"}
        /\ result' = [result EXCEPT ![u] = IF tables'.error THEN "raised" ELSE what]
    BY <1>2 DEF Take, Goto, Answer, history, WaitsInv, TypeInv
  <2>2. /\ tables' \in Tables /\ NoOrphanListener' /\ Recorded'
        /\ tables'.listeners \subseteq tables.listeners
        /\ tables'.remove \subseteq tables.remove
        /\ \A k \in Kind : tables'.notify[k] # None =>
             \/ k \in broken'
             \/ /\ tables.notify[k] # None
                /\ <<Registries, k>> \in tables.listeners
                     => <<Registries, k>> \in tables'.listeners
        /\ \A k \in Kind : tables.notify[k] # None /\ k \notin tables.remove
                             => tables'.notify[k] # None
        /\ \A k \in Kind, v \in User :
             /\ Has(tables', k, v) => Has(tables, k, v)
             /\ v # u /\ Has(tables, k, v) => Has(tables', k, v)
        /\ ~tables'.error => \A k \in Asked(u) : ~Has(tables', k, u)
    BY <2>1, ShrinkLeave
  <2>3. /\ pc' \in [User -> Places] /\ pc'[u] = "ended"
        /\ \A v \in User : v # u => pc'[v] = pc[v]
    BY <2>1 DEF WaitsInv, TypeInv, Places
  <2>4. /\ result' \in [User -> Answers] /\ result'[u] # None
        /\ result'[u] = IF tables'.error THEN "raised" ELSE what
        /\ \A v \in User : v # u => result'[v] = result[v]
    <3>1. "raised" # None /\ what # None
      BY <2>1, WaitsAssumption DEF WaitsAssumption
    <3>2. "raised" \in Answers /\ what \in Answers /\ result \in [User -> Answers]
      BY <2>1 DEF Answers, WaitsInv, TypeInv
    <3>3. QED
      BY <2>1, <3>1, <3>2
  <2>5. TypeInv'
    BY <2>1, <2>2, <2>3, <2>4 DEF WaitsInv, TypeInv
  <2>6. Where'
    <3>1. \A v \in User : kindOf(v)' = kindOf(v)
      BY <2>1 DEF kindOf
    <3>2. QED
      BY <2>1, <2>3, <2>4, <3>1 DEF WaitsInv, Where
  <2>7. Finished'
    BY <2>1, <2>3, <2>4 DEF WaitsInv, Finished
  <2>8. \A v \in User : Wanted(v)' => v # u /\ Wanted(v) /\ pos'[v] = pos[v]
    BY <2>1, <2>3, <2>4 DEF Wanted
  <2>9. ASSUME NEW v \in User \ astray', Over(v)'
        PROVE  Over(v) \/ (v = u /\ \A k \in Asked(u) : ~Has(tables', k, u))
    <3>1. Over(v) \/ (v = u /\ ~tables'.error)
      BY <2>1, <2>4, <2>9 DEF Over
    <3>2. QED
      BY <2>2, <3>1
  <2>10. /\ UNCHANGED legacy /\ broken \subseteq broken' /\ astray \subseteq astray'
         /\ \A v \in User : pc'[v] = "subscribing" => pc[v] = "subscribing"
         /\ \A v \in User : pc[v] = "subscribing" =>
              pc'[v] = "subscribing" \/ "mqtt" \in broken'
    BY <2>1, <2>3
  <2>11. QED
    BY <2>1, <2>2, <2>5, <2>6, <2>7, <2>8, <2>9, <2>10, Shrink
<1>3. QED
  BY <1>1, <1>2

\* A step of the decorators that removes listeners of u, or of those it leads
\* astray.
LEMMA ShrinkDm ==
  ASSUME WaitsInv, ~legacy, UNCHANGED legacy, NEW u \in User, NEW L,
         TypeInv', Where', Finished',
         tables' = [tables EXCEPT !.listeners = L], L \subseteq tables.listeners,
         \A v \in User, k \in Kind : <<v, k>> \in tables.listeners \ L =>
           v = u \/ v \in astray',
         astray \subseteq astray',
         \A v \in User : Wanted(v)' => v # u /\ Wanted(v) /\ pos'[v] = pos[v],
         \A v \in User \ astray' : Over(v)' =>
           Over(v) \/ (v = u /\ \A k \in Kind : <<u, k>> \notin L)
  PROVE  WaitsInv'
<1>1. /\ tables'.listeners = L /\ tables'.notify = tables.notify
      /\ tables'.remove = tables.remove
  BY DEF WaitsInv, TypeInv, Tables
<1>2. \A k \in Kind : tables.notify[k] = None
  BY DEF WaitsInv, Modes
<1>3. \A v \in User, k \in Kind : Registered(v, k)' <=> <<v, k>> \in L
  BY <1>1, <1>2 DEF Registered
<1>4. \A v \in User, k \in Kind : Registered(v, k) <=> <<v, k>> \in tables.listeners
  BY <1>2 DEF Registered
<1>5. Modes'
  <2>1. \A l \in tables'.listeners : l[1] = Registries <=> legacy'
    BY <1>1 DEF WaitsInv, Modes
  <2>2. ~legacy' => \A k \in Kind : tables'.notify[k] = None
    BY <1>1, <1>2
  <2>3. \A v \in User, k \in Kind : Registered(v, k)' => k \in Asked(v)
    BY <1>3, <1>4 DEF WaitsInv, Modes
  <2>4. QED
    BY <2>1, <2>2, <2>3 DEF Modes, Asked
<1>6. OneSubscriber' /\ Called'
  BY DEF OneSubscriber, Called
<1>7. Recorded' /\ NoOrphanListener' /\ OneWebhook'
  BY <1>1 DEF WaitsInv, Recorded, NoOrphanListener, OneWebhook
<1>8. SoFar'
  <2> SUFFICES ASSUME NEW v \in User, Wanted(v)', NEW i \in DOMAIN Asks[v], i < pos'[v]
               PROVE  Registered(v, Asks[v][i])'
    BY DEF SoFar
  <2>1. Registered(v, Asks[v][i])
    BY DEF WaitsInv, SoFar
  <2>2. Asks[v][i] \in Kind
    BY WaitsAssumption DEF WaitsAssumption
  <2>3. v # u /\ v \notin astray'
    BY DEF Wanted
  <2>4. <<v, Asks[v][i]>> \in L
    BY <1>4, <2>1, <2>2, <2>3
  <2>5. QED
    BY <1>3, <2>2, <2>4
<1>9. Gone'
  <2> SUFFICES ASSUME NEW v \in User \ astray', Over(v)', NEW k \in Kind
               PROVE  ~Registered(v, k)'
    BY DEF Gone
  <2>1. CASE Over(v)
    <3>1. ~Registered(v, k)
      BY <2>1 DEF WaitsInv, Gone
    <3>2. QED
      BY <1>3, <1>4, <3>1
  <2>2. CASE v = u /\ \A j \in Kind : <<u, j>> \notin L
    BY <1>3, <2>2
  <2>3. QED
    BY <2>1, <2>2
<1>10. QED
  BY <1>5, <1>6, <1>7, <1>8, <1>9 DEF WaitsInv

\* A message, or the time, of a decorator.
LEMMA DispatchStep ==
  ASSUME WaitsInv, NEW u \in User, NEW what \in {"true", "false", "timeout"},
         Dispatch(u, what)
  PROVE  WaitsInv'
<1> DEFINE first == result[u] = None /\ what # "false"
<1>1. CASE ~first
  <2>1. UNCHANGED <<legacy, tables, pc, pos, stopping, history>> /\ result \in [User -> Answers]
    BY <1>1 DEF Dispatch, history, WaitsInv, TypeInv
  <2>2. result' = result
    BY <1>1, <2>1 DEF Dispatch
  <2>3. QED
    BY <2>1, <2>2, MessageStep
<1>2. CASE first
  <2> DEFINE L == {l \in tables.listeners : l[1] # u
                     /\ (l[2] = "webhook" => "webhook" \notin Asked(u))}
  <2>1. /\ ~legacy /\ pc[u] # "idle" /\ result[u] = None /\ what \in {"true", "timeout"}
        /\ UNCHANGED <<legacy, pc, pos, stopping, broken>>
        /\ tables \in Tables /\ result \in [User -> Answers]
    BY <1>2 DEF Dispatch, WaitsInv, TypeInv
  <2>2. tables' = [tables EXCEPT !.listeners = L]
    BY <1>2 DEF Dispatch, dm_stop
  <2>3. /\ result' \in [User -> Answers] /\ result'[u] = what /\ what # None
        /\ \A v \in User : v # u => result'[v] = result[v]
    <3>1. what \in Answers /\ what # None
      BY <2>1, WaitsAssumption DEF WaitsAssumption, Answers
    <3>2. result' = [result EXCEPT ![u] = what]
      BY <1>2, <2>1 DEF Dispatch
    <3>3. QED
      BY <2>1, <3>1, <3>2
  <2>4. astray' = IF pos[u] <= Len(Asks[u]) \/ u \in astray
                    THEN astray \cup {u} \cup
                         {v \in User : <<v, "webhook">> \in tables.listeners \ tables'.listeners}
                    ELSE astray
    BY <1>2 DEF Dispatch
  <2>5. u \notin TrigInfo /\ u \notin stopping
    BY <2>1 DEF WaitsInv, TypeInv, Where
  <2>6. tables' \in Tables /\ tables'.listeners = L /\ L \subseteq tables.listeners
    BY <2>1, <2>2 DEF Tables
  <2> HIDE DEF first
  <2>7. TypeInv'
    BY <2>1, <2>3, <2>4, <2>6 DEF WaitsInv, TypeInv
  <2>8. Where'
    <3>1. \A v \in User : kindOf(v)' = kindOf(v)
      BY <2>1 DEF kindOf
    <3>2. QED
      BY <2>1, <2>3, <3>1 DEF WaitsInv, Where
  <2>9. u \notin astray' => pos[u] > Len(Asks[u]) /\ u \notin astray
    BY <2>4, Typed
  <2>10. Finished'
    BY <2>1, <2>3, <2>4, <2>9 DEF WaitsInv, Finished
  <2>11. ASSUME NEW v \in User, NEW k \in Kind, <<v, k>> \in tables.listeners \ L
         PROVE  v = u \/ v \in astray'
    <3>1. v = u \/ (k = "webhook" /\ "webhook" \in Asked(u))
      BY <2>11
    <3>2. CASE pos[u] <= Len(Asks[u]) \/ u \in astray
      BY <2>4, <2>6, <2>11, <3>1, <3>2
    <3>3. CASE k = "webhook" /\ "webhook" \in Asked(u) /\ u \notin astray
               /\ ~(pos[u] <= Len(Asks[u]))
      <4>1. pc[u] \in {"adding", "subscribing", "waiting"}
        BY <2>1, <2>5, <3>3, Typed DEF WaitsInv, Where, Places
      <4>2. Wanted(u)
        BY <2>1, <2>5, <3>3, <4>1 DEF Wanted
      <4>3. PICK i \in DOMAIN Asks[u] : Asks[u][i] = "webhook"
        BY <3>3 DEF Asked
      <4>4. i < pos[u]
        BY <3>3, <4>3, Typed
      <4>5. Registered(u, "webhook")
        BY <4>2, <4>3, <4>4 DEF WaitsInv, SoFar
      <4>6. <<u, "webhook">> \in tables.listeners
        BY <2>1, <4>5 DEF Registered, WaitsInv, Modes, Kind
      <4>7. <<v, k>> = <<u, "webhook">>
        BY <2>11, <3>3, <4>6 DEF WaitsInv, OneWebhook
      <4>8. QED
        BY <4>7
    <3>4. QED
      BY <3>1, <3>2, <3>3
  <2>12. \A v \in User : Wanted(v)' => v # u /\ Wanted(v) /\ pos'[v] = pos[v]
    BY <2>1, <2>3, <2>4 DEF Wanted
  <2>13. \A k \in Kind : <<u, k>> \notin L
    OBVIOUS
  <2>14. \A v \in User \ astray' : Over(v)' => Over(v) \/ v = u
    BY <2>1, <2>3 DEF Over
  <2>15. astray \subseteq astray'
    BY <2>4
  <2> HIDE DEF L
  <2>16. QED
    BY <2>1, <2>2, <2>6, <2>7, <2>8, <2>10, <2>11, <2>12, <2>13, <2>14, <2>15, ShrinkDm
<1>3. QED
  BY <1>1, <1>2

\* HASS refuses.
LEMMA RefuseStep ==
  ASSUME WaitsInv, NEW u \in User, Refuse(u)
  PROVE  WaitsInv'
<1> DEFINE k == kindOf(u)
           t == IF k = "webhook" /\ legacy THEN [tables EXCEPT !.notify[k] = {}]
                                           ELSE tables
<1>1. /\ UNCHANGED <<legacy, pos, stopping, astray>>
      /\ pc[u] \in {"adding", "subscribing"} /\ k \in {"mqtt", "webhook"}
      /\ pc[u] = "subscribing" => k = "mqtt"
      /\ k = "webhook" /\ legacy => tables.notify[k] = None
      /\ broken' = IF legacy THEN broken \cup {k} ELSE broken
      /\ pc' = [pc EXCEPT ![u] = "ended"] /\ result' = [result EXCEPT ![u] = "raised"]
      /\ tables \in Tables /\ pos[u] <= Len(Asks[u])
  BY DEF Refuse, Goto, Answer, WaitsInv, TypeInv, Where
<1>2. tables' = CASE legacy /\ u \in TrigInfo -> unregister(t, u)
                  [] legacy /\ u \in Waiter -> t
                  [] ~legacy -> [t EXCEPT !.listeners = {l \in @ : l[1] # u}]
  BY DEF Refuse
<1>3. /\ pc' \in [User -> Places] /\ pc'[u] = "ended"
      /\ \A v \in User : v # u => pc'[v] = pc[v]
  BY <1>1 DEF WaitsInv, TypeInv, Places
<1>4. /\ result' \in [User -> Answers] /\ result'[u] = "raised" /\ result'[u] # None
      /\ \A v \in User : v # u => result'[v] = result[v]
  <2>1. "raised" \in Answers /\ "raised" # None /\ result \in [User -> Answers]
    BY WaitsAssumption DEF WaitsAssumption, Answers, WaitsInv, TypeInv
  <2>2. QED
    BY <1>1, <2>1
<1>5. k \in Kind
  BY <1>1 DEF Kind
<1>6. /\ t \in Tables /\ t.listeners = tables.listeners /\ t.remove = tables.remove
      /\ legacy => \A j \in Kind :
           \/ t.notify[j] = tables.notify[j]
           \/ tables.notify[j] = None /\ t.notify[j] = {} /\ j \in broken'
  <2>1. CASE k = "webhook" /\ legacy
    <3>1. t = [tables EXCEPT !.notify["webhook"] = {}]
      BY <2>1
    <3>2. /\ t \in Tables /\ t.listeners = tables.listeners /\ t.remove = tables.remove
          /\ t.notify["webhook"] = {}
          /\ \A j \in Kind : j # "webhook" => t.notify[j] = tables.notify[j]
      BY <1>1, <1>5, <2>1, <3>1 DEF Tables
    <3>3. "webhook" \in broken' /\ tables.notify["webhook"] = None
      BY <1>1, <2>1
    <3> HIDE DEF t
    <3>4. QED
      BY <3>2, <3>3
  <2>2. CASE ~(k = "webhook" /\ legacy)
    BY <1>1, <2>2
  <2>3. QED
    BY <2>1, <2>2
<1>7. Where'
  <2>1. \A v \in User : kindOf(v)' = kindOf(v)
    BY <1>1 DEF kindOf
  <2>2. u \in TrigInfo => legacy
    BY <1>1 DEF WaitsInv, Where
  <2>3. QED
    BY <1>1, <1>3, <1>4, <2>1, <2>2 DEF WaitsInv, Where
<1>8. Finished'
  BY <1>1, <1>3, <1>4 DEF WaitsInv, Finished
<1>9. \A v \in User : Wanted(v)' => v # u /\ Wanted(v) /\ pos'[v] = pos[v]
  BY <1>1, <1>3, <1>4 DEF Wanted
<1>10. \A v \in User : Over(v)' => Over(v)
  BY <1>1, <1>4 DEF Over
<1>11. /\ UNCHANGED legacy /\ broken \subseteq broken' /\ astray \subseteq astray'
       /\ broken' \subseteq Kind
       /\ \A v \in User : pc'[v] = "subscribing" => pc[v] = "subscribing"
       /\ legacy => \A v \in User : pc[v] = "subscribing" =>
            pc'[v] = "subscribing" \/ "mqtt" \in broken'
  BY <1>1, <1>3, <1>5 DEF WaitsInv, TypeInv
<1> HIDE DEF t, k
<1>12. tables' \in Tables => TypeInv'
  BY <1>1, <1>3, <1>4, <1>11 DEF WaitsInv, TypeInv
<1>13. CASE legacy /\ u \in TrigInfo
  <2>1. tables' = unregister(t, u)
    BY <1>2, <1>13, WaitsAssumption DEF WaitsAssumption
  <2>2. /\ tables' \in Tables /\ NoOrphanListener' /\ Recorded'
        /\ tables'.listeners \subseteq tables.listeners
        /\ tables'.remove \subseteq tables.remove
        /\ \A j \in Kind : tables'.notify[j] # None =>
             \/ j \in broken'
             \/ /\ tables.notify[j] # None
                /\ <<Registries, j>> \in tables.listeners
                     => <<Registries, j>> \in tables'.listeners
        /\ \A j \in Kind : tables.notify[j] # None /\ j \notin tables.remove
                             => tables'.notify[j] # None
        /\ \A j \in Kind, v \in User :
             /\ Has(tables', j, v) => Has(tables, j, v)
             /\ v # u /\ Has(tables, j, v) => Has(tables', j, v)
        /\ ~tables'.error => \A j \in Asked(u) : ~Has(tables', j, u)
    BY <1>6, <1>11, <1>13, <2>1, ShrinkLeave
  <2>3. QED
    BY <1>7, <1>8, <1>9, <1>10, <1>11, <1>12, <1>13, <2>2, Shrink
<1>14. CASE legacy /\ u \notin TrigInfo
  <2>1. tables' = t
    BY <1>2, <1>14 DEF User
  <2>2. \A j \in Kind :
          \/ tables'.notify[j] = tables.notify[j]
          \/ tables.notify[j] = None /\ tables'.notify[j] = {} /\ j \in broken'
    BY <1>6, <1>14, <2>1
  <2>3. /\ tables' \in Tables /\ tables'.listeners = tables.listeners
        /\ tables'.remove = tables.remove
    BY <1>6, <2>1
  <2>4. NoOrphanListener'
    BY <2>2, <2>3 DEF WaitsInv, NoOrphanListener
  <2>5. Recorded'
    BY <2>2, <2>3 DEF WaitsInv, Recorded, TypeInv, Tables
  <2>6. \A j \in Kind, v \in User : Has(tables', j, v) <=> Has(tables, j, v)
    BY <2>2 DEF Has
  <2>7. \A j \in Kind : tables'.notify[j] # None =>
             \/ j \in broken'
             \/ /\ tables.notify[j] # None
                /\ <<Registries, j>> \in tables.listeners
                     => <<Registries, j>> \in tables'.listeners
    BY <2>2, <2>3
  <2>8. \A j \in Kind : tables.notify[j] # None /\ j \notin tables.remove
                             => tables'.notify[j] # None
    BY <2>2
  <2>9. QED
    BY <1>7, <1>8, <1>9, <1>10, <1>11, <1>12, <1>14,
       <2>3, <2>4, <2>5, <2>6, <2>7, <2>8, Shrink
<1>15. CASE ~legacy
  <2> DEFINE L == {l \in tables.listeners : l[1] # u}
  <2>1. t = tables
    BY <1>15 DEF t
  <2>2. tables' = [tables EXCEPT !.listeners = L]
    BY <1>2, <1>15, <2>1
  <2>3. L \subseteq tables.listeners
    OBVIOUS
  <2>4. \A v \in User, j \in Kind : <<v, j>> \in tables.listeners \ L =>
           v = u \/ v \in astray'
    OBVIOUS
  <2> HIDE DEF L
  <2>5. tables' \in Tables
    BY <1>1, <2>2, <2>3 DEF Tables
  <2>6. QED
    BY <1>7, <1>8, <1>9, <1>10, <1>11, <1>12, <1>15, <2>2, <2>3, <2>4, <2>5, ShrinkDm
<1>16. QED
  BY <1>13, <1>14, <1>15

-----------------------------------------------------------------------------
(* The theorems *)

\* Every step keeps the invariant.
LEMMA NextStep ==
  ASSUME WaitsInv, [Next]_vars
  PROVE  WaitsInv'
<1>1. CASE UNCHANGED vars
  BY <1>1, MessageStep DEF vars, history
<1>2. ASSUME NEW k \in Kind, Message(k)
      PROVE  WaitsInv'
  BY <1>2, MessageStep DEF Message
<1>3. ASSUME NEW u \in User,
             \/ Call(u) \/ RunTask(u) \/ Add(u) \/ Subscribe(u) \/ Subscribed(u)
             \/ Ready(u) \/ Refuse(u) \/ Return(u) \/ Cancel(u) \/ Stop(u) \/ Reap(u)
      PROVE  WaitsInv'
  BY <1>3, EnterStep, AddStep, SubscribeStep, SubscribedStep, RefuseStep, EndStep,
     StopStep
<1>4. ASSUME NEW u \in User, NEW what \in {"true", "false", "timeout"},
             Take(u, what) \/ Dispatch(u, what)
      PROVE  WaitsInv'
  BY <1>4, TakeStep, DispatchStep
<1>5. QED
  BY <1>1, <1>2, <1>3, <1>4 DEF Next

\* Nobody listens to anything at the start.
LEMMA InitHolds == ASSUME Init PROVE WaitsInv
<1> USE DEF Init
<1>1. tables \in Tables
  BY DEF Tables
<1>2. TypeInv
  BY <1>1 DEF TypeInv, Places, Answers
<1>3. \A u \in User : Len(Asks[u]) \in Nat
  BY WaitsAssumption DEF WaitsAssumption
<1>4. None \notin {"true", "timeout", "stopped"}
  BY WaitsAssumption DEF WaitsAssumption
<1>5. Where
  BY <1>3 DEF Where
<1>6. /\ \A u \in User, k \in Kind : ~Registered(u, k)
      /\ \A u \in User : ~Wanted(u) /\ ~Over(u)
  BY <1>4 DEF Registered, Wanted, Over
<1>7. Modes /\ OneSubscriber /\ Recorded /\ NoOrphanListener /\ Called /\ OneWebhook
  BY <1>6 DEF Modes, OneSubscriber, Recorded, NoOrphanListener, Called, OneWebhook
<1>8. SoFar /\ Finished /\ Gone
  BY <1>4, <1>6 DEF SoFar, Finished, Gone
<1>9. QED
  BY <1>2, <1>5, <1>7, <1>8 DEF WaitsInv

\* The invariant of registries, listeners and waits holds at all times, for any
\* users and whatever each of them listens to.
THEOREM WaitsInvariant == Spec => []WaitsInv
<1>1. Init => WaitsInv
  BY InitHolds
<1>2. WaitsInv /\ [Next]_vars => WaitsInv'
  BY NextStep
<1>3. QED
  BY <1>1, <1>2, PTL DEF Spec

\* HASS calls Event, Mqtt or Webhook only about topics somebody has a queue for
\* (NoOrphanListener): the last notify_del of a topic removes its listener, also
\* when others register meanwhile (mqtt.py:60-83 and its like).
THEOREM EveryListenerServes == Spec => []NoOrphanListener
<1>1. WaitsInv => NoOrphanListener
  BY DEF WaitsInv
<1>2. QED
  BY <1>1, WaitsInvariant, PTL

\* Whoever has its answer, or was stopped while it waited, is registered nowhere
\* (LeftNothing): the end of wait_until and TrigInfo.stop take back what they
\* have registered, and the decorators' manager what its decorators have.
THEOREM NothingLeft == Spec => []LeftNothing
<1>1. WaitsInv => LeftNothing
  BY DEF WaitsInv, LeftNothing, Gone, Finished, Over
<1>2. QED
  BY <1>1, WaitsInvariant, PTL

\* What somebody waits for reaches it.
LEMMA Heard == ASSUME WaitsInv PROVE HeardWhileWaiting
<1> SUFFICES ASSUME NEW u \in User \ (stopping \cup astray), NEW k \in Asked(u) \ broken,
                    pc[u] = "waiting", result[u] = None
             PROVE  /\ Registered(u, k)
                    /\ \/ {<<u, k>>, <<Registries, k>>} \cap tables.listeners # {}
                       \/ k = "mqtt" /\ \E v \in User : pc[v] = "subscribing"
  BY DEF HeardWhileWaiting
<1>1. k \in Kind
  BY WaitsAssumption DEF WaitsAssumption, Asked
<1>2. PICK i \in DOMAIN Asks[u] : Asks[u][i] = k
  BY DEF Asked
<1>3. i < pos[u]
  <2>1. pos[u] > Len(Asks[u])
    BY DEF WaitsInv, Where
  <2>2. QED
    BY <1>2, <2>1, Typed
<1>4. Wanted(u)
  BY DEF Wanted
<1>5. Registered(u, k)
  BY <1>2, <1>3, <1>4 DEF WaitsInv, SoFar
<1>6. CASE <<u, k>> \in tables.listeners
  BY <1>5, <1>6
<1>7. CASE tables.notify[k] # None /\ u \in tables.notify[k]
  <2>1. legacy
    BY <1>1, <1>7 DEF WaitsInv, Modes
  <2>2. \/ <<Registries, k>> \in tables.listeners
        \/ k = "mqtt" /\ \E v \in User : pc[v] = "subscribing"
    BY <1>1, <1>7, <2>1 DEF WaitsInv, Called
  <2>3. QED
    BY <1>5, <2>2
<1>8. QED
  BY <1>5, <1>6, <1>7 DEF Registered

\* What a call or a trigger waits for reaches it (HeardWhileWaiting), but for
\* topics that broke and users that went astray: no notify_del of another user
\* takes away the queue or the listener it depends on.
THEOREM WaitsHear == Spec => []HeardWhileWaiting
<1>1. WaitsInv => HeardWhileWaiting
  BY Heard
<1>2. QED
  BY <1>1, WaitsInvariant, PTL
=============================================================================
