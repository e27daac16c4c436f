---------------------------- MODULE TriggerWaits ----------------------------
(***************************************************************************)
(* Who listens to events, MQTT messages and webhooks: the legacy triggers  *)
(* (TrigInfo) and the legacy task.wait_until through the registries Event, *)
(* Mqtt and Webhook, and the task.wait_until of the decorator framework    *)
(* through decorators of its own.                                          *)
(*                                                                         *)
(* One event type, one MQTT topic and one webhook id are shared by all.    *)
(* The subscription of MQTT is the only registration that suspends.        *)
(***************************************************************************)
EXTENDS Naturals, Sequences

CONSTANTS
  TrigInfo,    \* legacy triggers
  Waiter,      \* calls of task.wait_until
  Asks,        \* for each of these, what it listens to, in this order
  Failing,     \* kinds HASS may refuse to register
  None,
  MaxMessages  \* bound: messages that come

User == TrigInfo \cup Waiter
Kind == {"event", "mqtt", "webhook"}
Registries == "registries"  \* as the owner of a listener of HASS

ASSUME WaitsAssumption ==
  /\ TrigInfo \cap Waiter = {} /\ Registries \notin User
  /\ \A u \in User : Asks[u] \in Seq(Kind)
  /\ \A s \in SUBSET User : None # s
  /\ None \notin {"true", "false", "timeout", "raised", "cancelled", "stopped"}
  /\ Failing \subseteq {"mqtt", "webhook"}
  /\ MaxMessages \in Nat

VARIABLES
  legacy,      \* CONF_LEGACY_DECORATORS
  tables,      \* notify and notify_remove of the registries; what HASS calls
               \* on a message; whether a KeyError was raised
  pc,          \* where each trigger_watch or wait_until is
  pos,         \* its place in Asks
  stopping,    \* triggers handed to the reaper
  queue,       \* notify_q, or the callbacks HASS has started
  result,      \* what the call has got
  messages,    \* messages so far
  broken,      \* history: topics whose first subscription came to nothing
  astray       \* history: stopped before everything was registered, or lost
               \* the webhook to one of these

vars == <<legacy, tables, pc, pos, stopping, queue, result, messages, broken,
          astray>>
history == <<broken, astray>>

Asked(u) == {Asks[u][i] : i \in DOMAIN Asks[u]}
kindOf(u) == Asks[u][pos[u]]

-----------------------------------------------------------------------------
(* The registries *)

\* Mutated form of notify_del: the listener goes with the first one out.
notify_del_any(t, k, u) ==
  IF t.notify[k] = None THEN t
  ELSE IF u \notin t.notify[k] \/ k \notin t.remove THEN t
  ELSE [t EXCEPT !.notify[k] = @ \ {u}, !.listeners = @ \ {<<Registries, k>>}]

\* notify_del of Event, Mqtt and Webhook: the last one out removes the
\* listener; the KeyError of a missing notify_remove is raised before the
\* topic is deleted.
notify_del(t, k, u) ==
  LET left == t.notify[k] \ {u} IN
  CASE t.notify[k] = None -> t
    [] t.notify[k] # None /\ u \notin t.notify[k] -> t
    [] t.notify[k] # None /\ u \in t.notify[k] ->
         IF left # {} THEN [t EXCEPT !.notify[k] = left]
         ELSE IF k \notin t.remove
           THEN [t EXCEPT !.notify[k] = {}, !.error = TRUE]
           ELSE [t EXCEPT !.notify[k] = None, !.remove = @ \ {k},
                          !.listeners = @ \ {<<Registries, k>>}]

raises(t, k, u) == notify_del([t EXCEPT !.error = FALSE], k, u).error

\* The notify_del calls of these kinds; each touches its own topic only.
notify_del_all(t, u, kinds) ==
  LET after(k) == IF k \in kinds THEN notify_del([t EXCEPT !.error = FALSE], k, u)
                                 ELSE t
  IN  [notify |-> [k \in Kind |-> after(k).notify[k]],
       remove |-> {k \in t.remove : k \in after(k).remove},
       listeners |-> {l \in t.listeners : l \in after(l[2]).listeners},
       error |-> \E k \in Asked(u) : raises(t, k, u)]

\* The kinds whose notify_del is called: all up to the first that raises.
reached(t, u) ==
  {Asks[u][i] : i \in {i \in DOMAIN Asks[u] :
                         \A j \in 1..i - 1 : ~raises(t, Asks[u][j], u)}}

\* Mutated form of unregister: the webhook is forgotten.
unregister_some(t, u) == notify_del_all(t, u, reached(t, u) \ {"webhook"})

\* The notify_del calls at the end of wait_until, in TrigInfo.stop and after an
\* exception in trigger_watch.
unregister(t, u) == notify_del_all(t, u, reached(t, u))

Taken(k) == k = "webhook" /\ \E l \in tables.listeners : l[2] = k

\* notify_add where the topic has listeners, or HASS registers one at once.
notify_add(t, k, u) ==
  IF t.notify[k] # None THEN [t EXCEPT !.notify[k] = @ \cup {u}]
  ELSE [t EXCEPT !.notify[k] = {u}, !.remove = @ \cup {k},
                 !.listeners = @ \cup {<<Registries, k>>}]

\* Mutated form of subscribed: the remover is not kept.
subscribed_only(t, k, u) ==
  [t EXCEPT !.notify[k] = @ \cup {u}, !.listeners = @ \cup {<<Registries, k>>}]

\* The rest of Mqtt.notify_add, after its await.
subscribed(t, k, u) ==
  [t EXCEPT !.notify[k] = @ \cup {u}, !.remove = @ \cup {k},
            !.listeners = @ \cup {<<Registries, k>>}]

\* WaitUntilDecoratorManager.stop: each decorator removes its listener, but a
\* webhook is unregistered by its id.
dm_stop(t, u) ==
  [t EXCEPT !.listeners = {l \in @ : l[1] # u
                             /\ (l[2] = "webhook" => "webhook" \notin Asked(u))}]

-----------------------------------------------------------------------------
Init ==
  /\ legacy \in BOOLEAN
  /\ tables = [notify |-> [k \in Kind |-> None], remove |-> {},
               listeners |-> {}, error |-> FALSE]
  /\ pc = [u \in User |-> "idle"]
  /\ pos = [u \in User |-> 1]
  /\ stopping = {}
  /\ queue = [u \in User |-> <<>>]
  /\ result = [u \in User |-> None]
  /\ messages = 0
  /\ broken = {}
  /\ astray = {}

Busy == \E u \in User : pc[u] = "adding"

Goto(u, label) == pc' = [pc EXCEPT ![u] = label]
Advance(u) == pos' = [pos EXCEPT ![u] = @ + 1]
Answer(u, r) == result' = [result EXCEPT ![u] = r]

\* TrigInfo.start makes the task of trigger_watch; wait_until runs at once.
Call(u) ==
  /\ ~Busy /\ pc[u] = "idle"
  /\ u \in TrigInfo => legacy
  /\ Goto(u, IF u \in TrigInfo THEN "created" ELSE "adding")
  /\ UNCHANGED <<legacy, tables, pos, stopping, queue, result, messages, history>>

RunTask(u) ==
  /\ ~Busy /\ pc[u] = "created"
  /\ Goto(u, "adding")
  /\ UNCHANGED <<legacy, tables, pos, stopping, queue, result, messages, history>>

\* The next registration does not suspend.
Add(u) ==
  LET k == kindOf(u) IN
  /\ pc[u] = "adding" /\ pos[u] <= Len(Asks[u])
  /\ IF legacy
       THEN /\ tables.notify[k] = None => k # "mqtt" /\ ~Taken(k)
            /\ tables' = notify_add(tables, k, u)
       ELSE /\ k # "mqtt" /\ ~Taken(k)
            /\ tables' = [tables EXCEPT !.listeners = @ \cup {<<u, k>>}]
  /\ Advance(u)
  /\ UNCHANGED <<legacy, pc, stopping, queue, result, messages, history>>

\* The next one awaits mqtt.async_subscribe; a registry has entered the topic.
Subscribe(u) ==
  /\ pc[u] = "adding" /\ pos[u] <= Len(Asks[u])
  /\ kindOf(u) = "mqtt"
  /\ legacy => tables.notify["mqtt"] = None
  /\ tables' = IF legacy THEN [tables EXCEPT !.notify["mqtt"] = {}] ELSE tables
  /\ Goto(u, "subscribing")
  /\ UNCHANGED <<legacy, pos, stopping, queue, result, messages, history>>

\* The await is over.  A manager that was stopped meanwhile has no decorators
\* left to start.
Subscribed(u) ==
  /\ ~Busy /\ pc[u] = "subscribing"
  /\ tables' = IF legacy THEN subscribed(tables, "mqtt", u)
               ELSE [tables EXCEPT !.listeners = @ \cup {<<u, "mqtt">>}]
  /\ Goto(u, IF ~legacy /\ result[u] # None THEN "waiting" ELSE "adding")
  /\ Advance(u)
  /\ UNCHANGED <<legacy, stopping, queue, result, messages, history>>

Ready(u) ==
  /\ pc[u] = "adding" /\ pos[u] > Len(Asks[u])
  /\ Goto(u, "waiting")
  /\ UNCHANGED <<legacy, tables, pos, stopping, queue, result, messages, history>>

\* HASS refuses the registration: trigger_watch takes back the rest, so does
\* the manager; the legacy wait_until does not.
Refuse(u) ==
  LET k == kindOf(u)
      t == IF k = "webhook" /\ legacy THEN [tables EXCEPT !.notify[k] = {}]
                                      ELSE tables IN
  /\ \/ /\ pc[u] = "subscribing" /\ ~Busy /\ "mqtt" \in Failing
     \/ /\ pc[u] = "adding" /\ pos[u] <= Len(Asks[u]) /\ k = "webhook"
        /\ legacy => tables.notify[k] = None
        /\ Taken(k) \/ k \in Failing
  /\ tables' = CASE legacy /\ u \in TrigInfo -> unregister(t, u)
                 [] legacy /\ u \in Waiter -> t
                 [] ~legacy -> [t EXCEPT !.listeners = {l \in @ : l[1] # u}]
  /\ broken' = IF legacy THEN broken \cup {k} ELSE broken
  /\ Goto(u, "ended")
  /\ Answer(u, "raised")
  /\ UNCHANGED <<legacy, pos, stopping, queue, messages, astray>>

\* HASS calls the listeners: a registry fills the queues, a decorator gets a
\* task of its own.
Message(k) ==
  /\ ~Busy /\ messages < MaxMessages
  /\ messages' = messages + 1
  /\ queue' = [u \in User |->
       IF \/ <<u, k>> \in tables.listeners
          \/ /\ <<Registries, k>> \in tables.listeners
             /\ tables.notify[k] # None /\ u \in tables.notify[k]
         THEN Append(queue[u], k) ELSE queue[u]]
  /\ UNCHANGED <<legacy, tables, pc, pos, stopping, result, history>>

\* The queue's reader looks at a message, or its time is up ("timeout").
\* trigger_watch runs the action and goes on, wait_until returns if the
\* expression holds.
Take(u, what) ==
  /\ legacy /\ ~Busy /\ pc[u] = "waiting"
  /\ IF what = "timeout" THEN u \in Waiter /\ UNCHANGED queue
     ELSE /\ queue[u] # <<>>
          /\ queue' = [queue EXCEPT ![u] = Tail(@)]
  /\ IF u \in TrigInfo \/ what = "false"
       THEN UNCHANGED <<tables, pc, result>>
       ELSE /\ tables' = unregister(tables, u)
            /\ Goto(u, "ended")
            /\ Answer(u, IF tables'.error THEN "raised" ELSE what)
  /\ UNCHANGED <<legacy, pos, stopping, messages, history>>

\* A callback of a decorator, or the TimeTriggerDecorator of the timeout, gets
\* to WaitUntilDecoratorManager.dispatch, which ignores all but the first.
Dispatch(u, what) ==
  LET first == result[u] = None /\ what # "false" IN
  /\ ~legacy /\ ~Busy /\ pc[u] # "idle"
  /\ IF what = "timeout" THEN UNCHANGED queue
     ELSE /\ queue[u] # <<>>
          /\ queue' = [queue EXCEPT ![u] = Tail(@)]
  /\ tables' = IF first THEN dm_stop(tables, u) ELSE tables
  /\ result' = [result EXCEPT ![u] = IF first THEN what ELSE @]
  /\ astray' = IF first /\ (pos[u] <= Len(Asks[u]) \/ u \in astray)
                 THEN astray \cup {u} \cup
                      {v \in User : <<v, "webhook">> \in tables.listeners \ tables'.listeners}
                 ELSE astray
  /\ UNCHANGED <<legacy, pc, pos, stopping, messages, broken>>

Return(u) ==
  /\ ~legacy /\ ~Busy /\ pc[u] = "waiting" /\ result[u] # None
  /\ Goto(u, "ended")
  /\ UNCHANGED <<legacy, tables, pos, stopping, queue, result, messages, history>>

\* The task that waits is cancelled: neither wait_until takes anything back.
\* Once a manager has started, its future is cancelled too and it answers to no
\* later dispatch.
Cancel(u) ==
  /\ u \in Waiter /\ ~Busy /\ pc[u] \in {"subscribing", "waiting"}
  /\ broken' = IF legacy /\ pc[u] = "subscribing" THEN broken \cup {"mqtt"} ELSE broken
  /\ Goto(u, "ended")
  /\ IF legacy \/ pc[u] = "waiting" THEN Answer(u, "cancelled")
                                    ELSE UNCHANGED result
  /\ UNCHANGED <<legacy, tables, pos, stopping, queue, messages, astray>>

\* TrigInfo.stop; its task goes to the reaper unless a KeyError was raised.
Stop(u) ==
  /\ u \in TrigInfo \ stopping /\ ~Busy
  /\ pc[u] \in {"created", "subscribing", "waiting"}
  /\ tables' = unregister(tables, u)
  /\ stopping' = IF tables'.error THEN stopping ELSE stopping \cup {u}
  /\ astray' = IF pc[u] # "waiting" \/ tables'.error THEN astray \cup {u} ELSE astray
  /\ UNCHANGED <<legacy, pc, pos, queue, result, messages, broken>>

\* The reaper cancels trigger_watch, which takes nothing back.
Reap(u) ==
  /\ u \in stopping /\ ~Busy /\ pc[u] \in {"created", "subscribing", "waiting"}
  /\ broken' = IF pc[u] = "subscribing" THEN broken \cup {"mqtt"} ELSE broken
  /\ Goto(u, "ended")
  /\ Answer(u, "stopped")
  /\ UNCHANGED <<legacy, tables, pos, stopping, queue, messages, astray>>

Next ==
  \/ \E u \in User :
       \/ Call(u) \/ RunTask(u) \/ Add(u) \/ Subscribe(u) \/ Subscribed(u)
       \/ Ready(u) \/ Refuse(u) \/ Return(u) \/ Cancel(u) \/ Stop(u) \/ Reap(u)
       \/ \E what \in {"true", "false", "timeout"} : Take(u, what) \/ Dispatch(u, what)
  \/ \E k \in Kind : Message(k)

Spec == Init /\ [][Next]_vars

-----------------------------------------------------------------------------
(* Properties *)

Registered(u, k) ==
  \/ <<u, k>> \in tables.listeners
  \/ tables.notify[k] # None /\ u \in tables.notify[k]

\* What a call or a trigger waits for reaches it: its queue is in the registry
\* and HASS calls the registry, or HASS calls its decorator.  Only a
\* subscription that came to nothing or is still under way stands between
\* them, and a manager that was stopped before it had started.
HeardWhileWaiting ==
  \A u \in User \ (stopping \cup astray) : \A k \in Asked(u) \ broken :
    (pc[u] = "waiting" /\ result[u] = None) =>
      /\ Registered(u, k)
      /\ \/ {<<u, k>>, <<Registries, k>>} \cap tables.listeners # {}
         \/ k = "mqtt" /\ \E v \in User : pc[v] = "subscribing"

\* A wait_until that returned, and a trigger that was stopped while it waited,
\* are registered nowhere.
LeftNothing ==
  \A u \in User \ astray :
    (pc[u] = "ended" /\ result[u] \in {"true", "timeout", "stopped"}) =>
      \A k \in Kind : ~Registered(u, k)

\* HASS calls a registry only about topics somebody has a queue for, so each
\* of these listeners goes when the last queue does.
NoOrphanListener ==
  \A k \in Kind : <<Registries, k>> \in tables.listeners =>
    k \in tables.remove /\ tables.notify[k] \notin {None, {}}
=============================================================================
