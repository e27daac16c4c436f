# A TLA+ model of pyscript

pyscript (`custom_components/pyscript`) runs Python files inside Home Assistant
(HASS). It evaluates the files itself, ties their functions to triggers, and
keeps everything on one asyncio event loop: nothing is preempted, and the hard
part is what happens at the suspension points - between an `await` and what
follows it, between a command put on a queue and the task that takes it, between
the old and the new incarnation of a reloaded file.

Paths below are relative to `src/`; `function.py` means
`custom_components/pyscript/function.py`, and so on.

## Inventory

| component | state it keeps | operations | works with | what is hard, and what makes it correct |
|---|---|---|---|---|
| Tasks (`function.py`, `trigger.py:103-184`) | `our_tasks`, `unique_name2task`, `unique_task2name`, `task2cb`, `task2context`, reaper queue | `run_coro`, `create_task`, `task.unique`, `task.cancel`, done callbacks, reaper | everything that runs user code | tasks that fight over a name, a cancel at any await, user code inside `finally`. The two name maps agree, a loser of a name ends, one cancel at a time, nothing is left of a finished task |
| Waiter (`function.py:137-204`) | waiter queue, list of awaited coroutines | `waiter_await`, `waiter_sync`, `waiter_stop` | `__init__.unload_scripts`, `hass_stop`, triggers on `shutdown` | `sync` returns after all shutdown triggers that were queued before it, and returns at all |
| Services (`function.py:471-496`, `decorators/service.py`) | `service_cnt`, `service2global_ctx`, HASS's registry | `service_register`, `service_remove` | function managers, HASS | a reload registers the new one before it removes the old: the service exists as long as some function provides it, and no longer |
| State (`state.py`, `__init__.py:379-401`) | `notify`, `notify_var_last`, persisted variables | `set`, `delete`, `get`, `persist`, `notify_add`, `notify_del`, `update` | HASS's state machine and its event bus | a write is seen at once by `notify_var_last` and later as an event; triggers come and go in between |
| Event, MQTT, webhook registries (`event.py`, `mqtt.py`, `webhook.py`) | queues per topic, the HASS listener of each topic | `notify_add`, `notify_del`, `update` | HASS, MQTT broker | MQTT's subscription suspends between the check and the store |
| Decorator framework (`decorator_abc.py`, `decorator.py`, `decorators/`) | status and decorator list of each manager | `validate`, `start`, `stop`, `dispatch`, `wait_until`, finalizer of a function | global contexts, the interpreter, HASS listeners | `start` and `stop` suspend; either can find the other half way. Nothing may stay registered by a stopped manager |
| State and time triggers (`decorators/state.py`, `decorators/timing.py`) | hold timers, last trigger time, trigger loop tasks | `_check_new_state`, `_check_state_hold`, `_cycle`, `start`, `stop` | State registry, manager | `state_hold`/`state_hold_false` with a value that comes and goes |
| Legacy triggers (`trigger.py`) | `TrigInfo` tasks, `TrigTime` timers | `trigger_watch`, `wait_until`, `timer_trigger_next`, `stop` | State, Event, Mqtt, Webhook | one loop over all trigger kinds, time arithmetic |
| Contexts and reload (`global_ctx.py`, `__init__.py`) | `contexts`, the managers and triggers of each context | `load_file`, `start`, `stop`, `module_import`, `load_scripts`, `unload_scripts`, watchdog | all of the above | what a changed file reloads; two reloads that overlap |
| Interpreter (`eval.py`) | symbol tables, current function | one method per AST node | Function, State, contexts | flow through `try`/`finally`, scopes; the rest maps nodes to Python operations |
| Requirements (`requirements.py`) | installed versions in the config entry | `process_all_requirements`, `install_requirements` | pip through HASS | one version chosen out of several files, pinned against unpinned |
| Jupyter kernel (`jupyter_kernel.py`) | session state, five servers, housekeeping queue | `session_start`, handlers, `session_shutdown` | interpreter | message order between five sockets, shutdown from any of them |
| Config flow, entities, logbook, stubs | none of interest | dialogues, formatting | HASS | not modelled: no behaviour over time |

The hazards - what can go wrong at which line that a test would hardly reach - are
listed in `PROJECT.json` with the property that would notice.

## Plan

| | module | about | state of it |
|---|---|---|---|
| 1 | `TaskFunctions` | tasks, unique names, reaper, done callbacks | checked, proved |
| 2 | `ServiceRegistry`, `ServiceNames` | reference counts of services, and what they promise | checked, proved |
| 3 | `DecoratorManager` | life of a manager and what it registers; uses 2 by INSTANCE | checked, proved |
| 4 | `StateVars` | state variables, events under way, queues of triggers | checked, proved |
| 5 | `StateHold` | holds of state triggers, decorator beside legacy | checked, proved |
| 6 | `TriggerWaits` | registries of events, MQTT, webhooks; `task.wait_until` | checked, proved |
| 7 | `Reload` | contexts, imports, overlapping reloads, the waiter | checked, proved |
| 8 | `PythonSem`, `Interp` | the interpreter against Python | checked |
| 9 | `Timers` | times and ranges, the loops that wait for them | checked, proved |

What is not proved, and why: 8 uses RECURSIVE operators, which the prover does not
take, so `LikePython` and `ScopesBalanced` stay with TLC; in 9 `NextIsLeast` is
proved for the texts that are `Regular`, `WatchRunsWhenActive` for ranges without
dates (see "Timers"); the liveness properties `CancelIsServed` and `StoppedLetsGo`
rest on fairness, which is out of the prover's reach; the definitions under
"Disagreements" are false.

## TaskFunctions

### Correspondence

One TLA+ step is what one asyncio task does between two suspension points, so no
action is smaller than the code's own atomic pieces and none is larger.

* The variables are the class attributes of `Function` with their names. A missing
  key of `unique_name2task` is `NoTask`; a missing key of `unique_task2name` or
  `task2cb` is the empty set, with `cb_tasks` for the keys of `task2cb`, whose
  presence matters. Names stand for names with the context's prefix already added.
* `pc`, `cancelling`, `unwinding`, `asleep`, `called` and `cb_size` are where each
  task is in `run_coro` (`function.py:431-463`): created and not yet run, in the body, in a
  done callback, done; a `CancelledError` that asyncio is about to throw in; the
  finally blocks it makes user code run; the 100000 s sleep after a cancel of the
  task itself (taken as endless); the state of the loop over the callbacks.
* `TaskUnique`, `TaskUniqueKillMe`, `UserTaskCancel`, `UserTaskCancelSelf`,
  `CreateTask`, `AddDoneCallback`, `RemoveDoneCallback`, `StoreHassContext` are
  the operations user code and triggers call. User code is any sequence of them.
* `RunCoro`, `BodyEnds`, `BodyCancelled`, `CallbackReturns`, `CallbackRaises`,
  `CallbackCancelled`, `ThrowCancelled`, `Swallow` are the steps of a task;
  `Release` is the tail of `run_coro`'s finally clause and `Abandon` is what
  happens when an exception leaves that clause early.
* `ReaperCancels`, `ReaperAwaited`, `ReaperExits`, `ReaperStop` are the reaper.
* `OuterTask`s are tasks pyscript did not make (HASS loading a file, Jupyter),
  which run user code and are never in `our_tasks`.
* `claimed` is a history variable: the names a task has ever owned.

The definitions whose comment starts with "Mutated form of" are wrong variants of
the code's steps, kept beside the right ones to show that the properties notice.

### Runs

| run | instance | shows |
|---|---|---|
| `TaskTables` | 2 tasks, an outer task, 2 names, a removable callback, queue of 2 | types; the name maps are inverse; an owner is in `our_tasks`; a task that lost its name is done or condemned; one task at a time is being cancelled; without callbacks nothing is left behind; names are freed by their owner's end only |
| `TaskLiveness` | 2 tasks, an outer task, 1 name, 1 callback, finally blocks that `return` | each cancel ends its task, or the reaper is blocked in one of two named ways |

Two disagreements show in the model and are no property: a task cannot be
cancelled between `task.create` and its first step (it is not in `our_tasks`
yet), and a done callback that raises takes the others with it. Others are under
"Disagreements" below.

Bounds. Two tasks are enough for one that owns a name and one that takes it while
the first still ends; the outer task is the third party; two names let one task
own two and lose one. `MaxQueue` only disables the operations that would put one
more command on the reaper's queue; with it at 2 the queue holds a cancel for
every task, a repeated cancel, or one and the exit command. Tasks are used once,
as asyncio's are. `CHECK_DEADLOCK` is off because a system whose tasks are all
done has stopped. Symmetry is used in the safety run only, where every task is
equal. The proofs cover the other sizes.

Fairness (`FairSpec`): asyncio runs whatever is ready, so the reaper's steps, a
task's first step and the throwing of a `CancelledError` are weakly fair. Finally
blocks and done callbacks are trusted to end; bodies are not, they may loop for ever.
`Removable` is empty in the liveness run, otherwise a callback may remove and
add itself back for ever. No fairness on `ReaperStop`.

### Proofs (`TaskFunctions_proofs`)

For every set of tasks, names and callbacks, and every queue bound, under
`TaskAssumption` only: `TypeCorrect`, `NamesAgree`, `OwnersRegistered`,
`UniqueNames`, `OneVictim`, `NothingLeft`, `NamesFreed`.

The argument is the inductive invariant `IInv`. `NameMapsAgree` is inductive with
`TypeOK`. The rest is not: that a name's loser is condemned (`OneLiveClaimant`)
needs that an owner is in `our_tasks` (or `task.unique` would spare it), which
needs that a task leaves `our_tasks` only together with its names, or keeps both
(`Abandon`); that needs that no task is cancelled before it has run
(`OnlyStartedCancelled`: `ThrowCancelled` would otherwise end it from `created`);
and `CleanWithoutCallbacks` needs that only a task with callbacks is ever in one
(`CallbackSized`). `FlowStep`, `EndStep`, `RegistryStep` and `CondemnedStep` say
once what any step can do to one part of the state, so the main proofs split on
few cases.

Only model-checked: the liveness property `CancelIsServed` (and the fairness it
rests on).

## ServiceRegistry and ServiceNames

### Correspondence

`service_register` and `service_remove` are `Function.service_register`
(`function.py:471-486`) and `service_remove` (488-496), with `service_cnt`,
`service2global_ctx` and `services`, HASS's own registry; a missing key is `0`,
`NoContext`, `NoProvider`. `Refused` is the `ValueError`. A registration
replaces the callback that HASS has under the name, so the last one wins.

`holders` is a history variable: the `@service` decorators that have registered
a name and not removed it. `Register` and `Remove` say what the registry asks of
its callers - remove what you have registered, once. `ServiceRegistry` is about
the registry for such callers; whether the callers are such is a question about
`DecoratorManager`, and its property `ImplementsRegistry` answers it.

`ServiceNames` is the promise: a service can be called as long as it has a
provider, all of whose contexts are one, and a name without providers is free.

### Runs and proofs

`ServiceCounts` (4 providers in 2 contexts, 2 names; 3 of a context take a name
up to a count of 3 while the fourth is refused) checks that the count is the
number of providers, that the owner is the context of all of them and goes with
the last, that HASS has the service exactly that long, and the refinement
`ImplementsNames`. The state space is finite without a bound and never stops.

`ServiceRegistry_proofs` proves the invariant (`Agreement`), the count
(`CountsAreExact`), the owners (`OwnersAgree`), that a service can be called while
it has a provider (`Callable`), and `Refinement` for all sets of providers, names and
contexts. `IInv` is inductive as the conjunction of its parts: that the count is
exact is what makes `service_cnt <= 1` in `service_remove` mean "the last one",
and so keeps owner and callback in step with the providers.

## DecoratorManager

### Correspondence

A `Function` of the model is one evaluation of a `def` with trigger decorators;
a redefinition is another function with the same `VarOf` and `CtxOf`. Its
decorators are a sequence of records of a kind and a name; a kind is what the
decorator does to HASS:

| kind | decorators | start | stop |
|---|---|---|---|
| `listener` | state, event, time triggers | stores a listener | removes it |
| `mqtt` | `@mqtt_trigger` | may suspend in `mqtt.async_subscribe`, then stores the remover | removes it |
| `service` | `@service` | registers, then may suspend in `get_service_params` | removes by name |
| `webhook` | `@webhook_trigger` | registers its id or raises | unregisters by id |
| `shutdown` | `@time_trigger("shutdown")` | nothing | dispatches, may suspend |

* `status` and the list of decorators are `DecoratorManager.status` and
  `_decorators` (`decorator_abc.py`); `LiveDecorators` is empty once
  `update_status` has cleared it. `auto_start`, `dms`, `dms_delay_start` are
  the `GlobalContext`'s. `scope` says where the `EvalFuncVar` lives: in the
  `def` statement under way (`local`), in its variable (`stored`), nowhere
  (`gone`).
* Each manager has three coroutines that can be anywhere at once: `start`, the
  `stop` of its context and the `stop` of its finalizer. `pc` and `pos` are where
  each of them is; `failed` is the decorator whose failure the undo of `start`
  goes back from.
* `DefineStarted` and `DefineDelayed` are `create_decorator_manager` in a context
  that is started or not; `Store` is the assignment at the end of the `def`,
  which drops the variable of the function it replaces; `Forget` is `del` or the
  end of a scope. `StartContext` and `StopContext` are `GlobalContext.start` and
  `stop`. `BeginStart` to `StartEnds` are `DecoratorManager.start`, `BeginStop`
  to `StopEnds` are `stop`.
* HASS starts a task it is given eagerly, up to its first suspension. So a
  coroutine that is `ready` or holds the loop (`next`, `undo`) goes before
  everything else: `Idle` is the guard of whatever needs a turn of the loop, and
  `Busy` keeps two coroutines from interleaving inside one turn.
* `tainted` is a history variable: the managers that went astray in one of four
  ways. The await of a `@service` start fails after it has registered
  (`StartAwaitRaises`); a `def` is cancelled while it awaits `start`
  (`StartCancelled`); a stop begins while start is under way, or while
  another stop is (`BeginStop`). The code leaves a registration behind or
  removes one twice after these; the safety properties are stated for the others
  and say by this what exactly they depend on.

### Runs

| run | instance | shows |
|---|---|---|
| `ManagerSafety` | a function, its redefinition and one of another context; all kinds; names that collide within and between contexts | what a manager has registered goes when it ends; a running manager is owned or being stopped; start only meets validated managers; a running manager has all it should; the tables of services agree; the managers are the callers `ServiceRegistry` assumes |
| `ManagerLiveness` | the function and its redefinition, both with a suspension in start or stop | a stopped context lets go of everything for ever |

Bounds. Each function is defined once, so the instance has a first definition, a
second and a stranger; one decorator of each kind and one suspension per
coroutine are there, so that every pair of coroutines of a manager meets at each
of their suspensions, and both managers meet on one service and one webhook.
`Failing` lets every await raise. `CHECK_DEADLOCK` is off because the system
stops when all contexts have.

Fairness (`FairSpec`) is on `StartStep` and `StopStep` of each function: asyncio
runs what is ready, and the awaits in them are answered - HASS answers a
subscription or raises, and a shutdown trigger's dispatch ends. Nothing is
assumed of definitions, `Forget`, `StartContext` or `StopContext`.

### Proofs (`DecoratorManager_proofs`)

For all functions, contexts, names and lists of decorators, under
`ManagerAssumption`: `TypeCorrect`, `StartsValid`, `RunningOwned`,
`TablesAgree`, `Invariant`, `HeldRunning`, `RunningComplete`, `UsesRegistry`.

The properties about what is held are far from inductive: they speak of the end
of a stop and must know what the stop has passed. `IInv` says it in steps.
`Lifecycle` ties `status`, `scope`, the context's lists and the three program
counters together: coroutines are spawned once, the finalizer only when the
variable is gone, the context's stop only when the context is stopped.
`OneAtATime` adds that the coroutines of an untainted manager never overlap. Then
`Registered(f)`, the places its only coroutine under way has passed or not yet
undone, is well defined, and `NoMore` and `NoLess` say that what is held is
exactly that. `NoMore` makes a start register something new, `NoLess` makes a
stop remove something it has: these two are why a removal by name never takes
another function's registration, and why the steps are `ServiceRegistry`'s.
The lemmas follow this order: effects of the helpers, types, `Life...` per step,
the tables, `Alone...`, `Registered...` per step, `Held...`, the theorems.

Only model-checked: `StoppedLetsGo` (liveness).

## StateVars

### Correspondence

* `hass`, `bus` are HASS: its states, and the `state_changed` events fired and not
  yet delivered. `known`, `notify`, `last`, `queue` are class `State`: `known`
  holds the keys of `State.notify`, which are never removed, `notify` the queues
  under each, `last` is `notify_var_last` and `queue` the content of each queue.
* `Set`, `SetCopy` (a value read from another variable, with its attributes),
  `SetAttr` (also `del x.y.attr`), `Delete`, `Persist` are what scripts call;
  `HassChange` is every other integration. `notify_add` and `notify_del` are
  called by triggers; `state_changed` is the listener of `__init__.py`, with
  `update` and `notify_var_get`. `Get` is a trigger that takes a message.
* A state is its value, one attribute and the number of the change that made it;
  the number, `log`, `read` and `phase` are history.
* `notify_del` goes through a set of names, whose order is arbitrary: `dropped`
  says for each order where its early return leaves the rest.

### Run

`StateWatch`: two variables of two values and one attribute, two triggers with
names of every form (`x.y`, `x.y.attr`, `x.y.old`, `x.y.old.attr`, one without a dot),
three changes. Three changes are enough for two events under way while HASS moves on
and a trigger registers in between. The values are symmetric.

* `NoChangeMissed`: queue and events under way form one path from what a trigger has
  taken to what HASS has.
* `OwnChangeSeen`, `NeverOlder`: what a message shows to the trigger expression.
* `LastIsFresh`: the values kept for that follow HASS also while nobody watches.
* `Unregistered`: a queue that was taken back is in no table, for names of
  different variables.

### Proofs (`StateVars_proofs`)

All five properties, for any variables, values, triggers with any finite sets of
names, and any number of changes, under `StateAssumption` only.

The invariant `VarsInv` says how what is under way lies between what was and what is.
`BusIsLog`: the events under way are the last changes of the log, in its order, so
`delivered`, the changes before them, is what every table may know. `BusChain` and
`HassIsLatest`: the events of one variable lead, each from where the one before it
ended, to what HASS has. `LastInv`: what is kept of a variable is at least as new as
its last delivered change - it may be newer, as `State.set` writes it at once - and
only of monitored variables. `Registered` ties the tables to the life of a queue.

`NothingMissed` adds to this that the queue's messages come before the bus in one
chain. `Chain` is an existence of changes in a sequence, and `ChainAppend`,
`ChainTail` and `AfterStill` say what an event more or less does to it: a
write appends to the bus, a delivery moves the bus's head to the end of each queue that
watches, a trigger takes the head of its queue and remembers it. `LastIsFresh` is
`LastInv` where nothing of the variable is under way: the change kept can then only be
the last. `NeverOlder` follows from `QueueIsOld` and `LastInv` at the moment of
the delivery, and from then on because the log only grows.

## StateHold

### Correspondence

The two implementations of a state trigger run side by side on one sequence of
notifications. `dm` is `StateTriggerDecorator` (`true_at`, `false_at` are its
`true_entered_at`, `false_entered_at`), `legacy` is `trigger_watch` or the
legacy `wait_until`. `cfg` draws the keywords: `state_hold`, `state_hold_false`,
`state_check_now`, whether there is an expression besides plain names, and where the
trigger is used. A notification is `any` (a plain name changed), `values` (a value
the expression names changed; the expression is evaluated) or `neither`.
`DmExpires` and `LegacyExpires` are the timers; what is due comes before the next
instant and before a further notification of the same instant.
`first`, `armed`, `falseAt`, `seen` are history.

### Run

`HoldTimes`: holds of 0, 2 and none, six instants, two notifications in each: a hold
can be begun, broken and begun again in the same instant, and a false time can be
too short or long enough before each of two fires.

* `SameFires`: both fire at the same times, for the uses named in `Comparable`. What
  that leaves out differs on purpose or by accident: see "Disagreements".
* `NotBeforeHold`, `HoldNotRestarted`: no sooner and no later than the hold says.
* `EdgeTriggered`: one false time of sufficient length for each fire.

### Proofs (`StateHold_proofs`)

All four properties are proved for any values of `state_hold` and
`state_hold_false`, any number of notifications and any time, from
`HoldAssumption` alone (keywords are naturals or `None`, `None` is no number).

The properties speak of `first`, `armed` and `falseAt`, the code of `true_at` and
`false_at`; the invariant `HoldInv` relates them. `HoldInTime`: a running hold began
no sooner than `first`. `EdgeKept`: the decorator's `false_at` is `falseAt`, and a
running hold has `armed` set. `FirstIsHeld`: without `state_hold_false` the hold
began exactly at `first`. `CheckFields`, `StartFields`, `NotifyFields` sort
`_check_new_state` and the head of `_cycle` by what they decide, so that the steps
argue about fields only; `FireSteps` says which steps fire, and `HoldRespected`,
`EdgeRespected` and `HoldEnds` follow.

`Replaces` needs more than that the two agree in settled states: between the timer of one
and that of the other they differ. `Alike` therefore compares both after what is due
(`true_at` with `since`, fires, end, and the false time where it matters), and
`NotifySame` shows that a notification, which comes when nothing is due, leaves the same
state in both.

## TriggerWaits

### Correspondence

A `User` is a legacy trigger (`TrigInfo`) or a call of `task.wait_until`, legacy or
not (`legacy`, the configuration option). `Asks` is what it listens to. `tables` is
`notify` and `notify_remove` of `Event`, `Mqtt` and `Webhook` and the set of listeners
HASS calls, which are the registries' or a decorator's own.

* `Call`, `RunTask`, `Add`, `Subscribe`, `Subscribed`, `Ready` are the way into a wait;
  `Subscribe` to `Subscribed` is `mqtt.async_subscribe`, the one suspension.
  `Refuse` is HASS raising. `Message` is HASS calling its listeners. `Take` is one
  round of the legacy loops, `Dispatch` is `WaitUntilDecoratorManager.dispatch`.
  `Cancel`, `Stop`, `Reap` end a wait or trigger from outside.
* `broken` and `astray` are history: topics whose first subscription came to
  nothing, and users that were stopped before they were ready (with those whose
  webhook such a stop has taken). The code leaves registrations behind after these, and
  the properties say so by naming them.

### Run

`Waits`: a trigger and two waits that share one event, topic and webhook, three
messages, and HASS refusing MQTT and webhooks. Three users let one leave while another
is subscribing and a third waits.

* `HeardWhileWaiting`: queue, registry and HASS are connected for whoever waits.
* `LeftNothing`: who has returned or was stopped is registered nowhere.
* `NoOrphanListener`: HASS calls a registry only about topics with a queue.

### Proofs (`TriggerWaits_proofs`)

All three properties, for any triggers and waits, each with any sequence of different
kinds to listen to, and any number of messages, under `WaitsAssumption` only.

`NoOrphanListener` carries itself: it says of each listener that its remover is kept
and its queues are some, which is what the next `notify_del` needs. The others are
about a wait that is half way. `SoFar`: whoever is still wanted is registered for all it has come past
(`pos`). It is kept when others leave because `notify_del` takes the listener only
with the last queue (`Called`), and that needs that a topic without its remover is one
whose subscription is under way (`OneSubscriber`, one at a time, since whoever comes
second finds the topic), or came to nothing (`broken`). `Gone` and `Finished` say the
same of who is over. `OneWebhook` keeps the decorators apart, who register a
webhook each for itself. `DelOne`, `DelAll` and `Leave` say once what one `notify_del`
and a series of them do to each topic, up to the `KeyError` that may end it; the steps
that take something back use only that.

What a proof for any number of users showed, and the instance with three users shows
too: a wait whose webhook was unregistered by another's stop unregisters a third's
webhook in its turn, although it was itself never stopped early. So `astray` goes on:
`Dispatch` by a user that is astray leads others astray.

## Reload

### Correspondence

* `disk` is the version of each source file. `contexts` is
  `GlobalContextMgr.contexts`: the number of the object under a name; `object` is what
  there is to know of each (version, `auto_start`, stopped, imports).
* `proc` are coroutines that run `load_scripts` or `unload_scripts`: `Begin` (service,
  `Watchdog`, config entry) looks up the contexts, `Read` follows the executor job that
  reads the files and decides, stops and deletes: `first_choice`, `with_importers`,
  `with_packages` are the three passes over the files. `Synced` is the answer of
  the waiter. `LoadNext`, `ImportLoaded`, `ImportSearch`, `ImportFound`, `Loaded`,
  `LoadRaises` are the loading of scripts with their imports, a stack per coroutine.
  `Finish` is `start_global_contexts`.
* `acting` are the shutdown actions given to the waiter: `ActionEnds`, and
  `ActionKilled` for one that is cancelled, which ends the waiter for good.
* `overlap`, `overwritten`, `removed`, `dragged` are history: two reloads were under
  way; contexts another load of their name took the place of; names a reload found no
  file for; names that went because a mate of their package was reloaded.

### Runs

`Reloads`: an app that imports a package, whose part imports another module, two
reloads of every kind, one change of a file, a module that may raise. The chain has an
import from outside a package, one inside and one out of it, so that every
pass of `load_scripts` matters. `MaxLoads` of three lets both reloads load each name.

* `UpToDate`: a reload that nothing overlaps ends with what it has read.
* `FreshImports`: whatever is imported is the context of that name, unless that name's
  file was missing or it was `dragged`.
* `NoOrphan`: nothing runs that is not in the table, but for a context that two
  overlapping loads made twice.

`StartedAfterReload` expects a violation: see "Disagreements".

### Proofs (`Reload_proofs`)

`NoOrphan`, `FreshImports` and the action property `UpToDate`, for any names, packages,
imports (cycles too), scripts that raise, and any number of reloads, edits and
loads, under `ReloadAssumption` only.

`NoOrphan` holds under overlap, and needs only what is true there: a context that is
being loaded is not stopped and in no table (`Fresh`), no two loads share one (`OneLoad`).
The other two speak of reloads that nothing overlaps, and their parts of `ReloadInv`
begin with `~overlap`. `Known`: what was looked up before the files were read is what
there is when they have been. `Unlisted`: what a stack loads is in no table. An import
cycle can load a name twice in one stack; `Nested` says that the upper load then waits
for itself once more and never ends, so nothing is overwritten (`Replaced`) and
no stale import is made. `Imported` is `FreshImports` for the contexts that are still being
loaded too: it holds after `Read` since `import_recurse` finds every importer
(`ImportersIs`) of the modules that are about to go. `Versions` and `Fetched` follow a
reload from what it has decided to what it has done; `WholeChoice` is where the three
passes together give `UpToDate` its start.

Trying to prove the plain form of `FreshImports`, without `dragged`, showed the
disagreement `ImportersReloaded`; the first form of `UpToDate`, which asked for exactly the
version that was read, fails with two edits, when an import reads a newer file.

## PythonSem and Interp

### Correspondence

`Interp` is `AstEval` and `EvalFunc`. A state of it (a record, `NewAstEval`) has the
symbol tables, the cells (`EvalLocalVar`), the stack of tables, the current function,
and what was called outside so far. One operator stands for each method, with its
name. The results `next`, `break`, `continue`, `return` are `EvalBreak`,
`EvalContinue`, `EvalReturn`; `raise` is an exception of the host. The syntax tree
has constructors in `PythonSem` (`Def`, `Try`, `With`, ...); `Mark` is a call to
the outside, `More` a condition that holds `times` times.

`PythonSem` gives the same trees the meaning the Python language reference gives them,
with frames found by the text of the program. It is written from that document, not from
the repository.

### Run

`Interpreter` runs five families of programs (23 000 programs, each with `More`
false or true twice): *flow*, a statement inside `try`, `except`, `finally` or
`with`, in a loop; *scopes*, two functions and a module that use one variable in all
ways, with the inner function called before and after the outer one has returned;
*bodies*, classes and callers; *arguments*, every kind of parameter against calls with
too few, too many and doubled arguments; *unpacking*.

* `LikePython`: same calls outside in the same order, same end, same variables.
* `ScopesBalanced`: after each program the interpreter is back in the global scope.

A run that meets a known difference is left out of `LikePython` by `odd`, which
records what it met. Compared are 6 667 of 7 380 flow programs, 4 195 of 8 586 scope
programs, 542 of 819 bodies, 5 068 of 6 336 calls and all that unpack. The
differences, all in `eval.py`:

| `odd` | difference |
|---|---|
| `else` | `break` and `continue` in the `else` of a loop or at the end of a function body are ignored |
| `class` | a class body that raises leaves its symbol table on the stack; a class in a function is found through the table of the moment; `global` in a body finds the cell |
| `comp` | the variable of a comprehension is a variable of the function around it, and stays when it raises |
| `cell` | a cell that is unset at the time of the call is not shared with the function that owns it |
| `dynamic` | a free variable is looked for in the tables of callers, not in those around the text |
| `with` | all managers are exited, entered or not; no exit for `CancelledError` |
| `except` | the variable of an `except` clause is deleted with its cell; deleting it inside raises `KeyError` |
| `bare` | `except:` does not catch `CancelledError` |
| `del` | `del` of a missing global inside a function is no error |
| `arguments` | every function takes the keywords of triggers; keywords are evaluated before arguments; a positional-only name as keyword is refused beside `**kwargs` |

Found by reading, and outside the programs: a chained comparison evaluates its
middle operand twice; dictionary values come before their keys; an augmented
assignment to a subscript evaluates it twice; `ast_augassign` turns the context of the
shared tree around for the time of an await; a decorator that raises leaves
`dec_eval_depth` raised; native callbacks share one evaluator.

## Timers

### Correspondence

A `trigger` is one text of `@time_trigger` as the fields its parser finds
(`DateTime`: which date, which time of the day, which offset) and the
arguments of `@time_active`. `parse_date_time` and `timer_trigger_next`, with a
helper for `once`, for both forms of `period` and for `cron`, and
`timer_active_check` are pure operators. Time is counted in units from midnight of
day 0; a day has six. `u` is the time that has passed and `local(u)` what the
clock shows, which is set back or forward at `ChangeAt` or not.

`loop` holds both loops that wait: `cycle`, `TimeTriggerDecorator._cycle`, and
`watch`, `trigger_watch`. `Sleep` looks up the next time, `Wake` comes when the
sleep is over and sleeps again when the clock says it is early. A dispatch may take a
unit before the next `Sleep`.

### Run

`Timers`: once, periods with and without end, and cron, from midnight, from
sunset, from the start, on dates, each with offsets into both neighbouring days, at three
startups around a day's end; seven sets of ranges with and without a `hold_off`.

* `NextIsLeast`: against `Expected`, which lists the times a text stands for and takes
  the least.
* `WatchOnTime`: cron keeps its local time on the day the clocks change.
* `WatchRunsWhenActive`: a function runs exactly when ranges and `hold_off` allow it.

Left out of the instance, because the code does something of its own: a yearly
date that has passed is not looked for in the next year, nor is a day of the week;
`period(0:00 - 2h, 4h, 0:00)` ends for good after a window; windows one of whose
ends has an offset into another day; `once` and `period` come an hour late on
the day the clocks go forward (only `cron` looks at the time zone).

### Proofs (`Timers_proofs`)

The constants are any lengths of the day and the year, any triggers of the declared
shape (`TimersAssumption`) and, where a theorem names it, any `Sunset` that gives
integers (`SunsetIsTime`).

* `CronInvariant`: the type invariant and `CronInv`: while the legacy loop of a cron
  trigger is asleep, `wake` is the instant at which the clock shows `next`. It needs
  that the first sleep is computed at the startup time, and `CronIs`: `cron` finds a
  time, since every time of the day comes within three days (`NextTime`), and that
  time is still to come. `WatchIsOnTime` follows. The decorator has no such invariant:
  its second sleep is the one of `CycleOnTime`.
* `WatchRunsRight`: what a call was decided by is an invariant (`RunsInv`), and
  `InRangeIsWithin` shows that `in_range` agrees with `Within`. Its hypothesis is
  `DailyRanges`: no dates, times on their own days, also with an offset and at any
  sunset, and ranges that go over midnight every day or never. A range that goes over
  midnight on some days of the year only (`range(sunset, 18:00)`) is not covered.
* `NextIsRight`: `NextIsExpected` shows that `timer_trigger_next` returns `Expected`,
  with one lemma for `once` (the day offset leads to the first time after now), one for
  `period` without an end and two with one: a window on one date, and the windows of
  every day, of which all that end before now are over and the first with a time left
  comes before the later ones. `Regular` says of which texts: with a date; or without
  one, where the time is on its own day (any sunset) or is the same every day and at
  most two days off; and no text names the startup to the microsecond, after which
  `once` would end. All texts of the instance are regular but `once` two units after
  sunset, which TLC checks.

## Disagreements

Each is stated as a definition of the module, with the counterexample TLC finds
when it is checked on the instances above; only `StartedAfterReload` has a run of
its own. The one of `ImportersReloaded` takes a script that imports a package, whose
top imports a module, an app that imports the package's other file, and a change of the
module.

| definition | what the code does | what is said |
|---|---|---|
| `Reload!StartedAfterReload` | `pyscript.reload` of a name reloads its importers and does not start them (`__init__.py:143`) | reference.rst:205-206, 213 |
| `Reload!ImportersReloaded` | the pass that reloads whole packages comes after the one that looks for importers, so who imports a mate of a reloaded file keeps the old module (`__init__.py:699`) | reference.rst:191-193 |
| `TaskFunctions!KillMeNeedsRunningOwner` | a cancel during a done callback skips the clean-up of `run_coro` (`function.py:449`); `kill_me=True` then obeys a finished task | reference.rst:1394-1396 |
| `TaskFunctions!OuterKillMeDoesNothing` | `kill_me=True` in the preamble of a file cancels the task that loads it (`function.py:245`) | reference.rst:1412-1414 |
| `TaskFunctions!SleepEndsByCancel` | `task.cancel()` in a `finally` of a cancelled task waits for a reaper that waits for the task (`function.py:128`) | function.py:273 |
| `DecoratorManager!UnreferencedNotStarted` | a function that is replaced while its file loads is started all the same (`global_ctx.py:108`) | reference.rst:1806-1809 |
| `DecoratorManager!RedefinitionReplaces` | a function with a webhook that is defined again ends up without trigger (`decorators/webhook.py:69`) | reference.rst:1664-1665 |
| `DecoratorManager!RefusedAcrossContexts` | a closure cannot provide a service its own file provides (`decorators/service.py:124`) | function.py:77-78 |
| `StateVars!AlwaysUnregistered` | `notify_del` returns at the second name of one variable (`state.py:168`) | state.py:163 |
| `StateHold!HoldKept` | a change that leaves the watched values alone ends a hold (`decorators/state.py:277-287`) | reference.rst:433-435 |
| `Timers!CycleOnTime` | after waking early the decorator waits for the adjusted time on the clock (`decorators/timing.py:133-139`) | trigger.py:788-794 |
| `Timers!CycleRunsWhenActive` | the decorator asks `timer_active_check` for each argument alone, so a "not" range excludes nothing beside others (`decorators/timing.py:54`) | reference.rst:972-978 |

Beside these, where the model shows it and no document says otherwise: with
`state_hold_false` and an expression that is true at the start, the decorator does not
fire at the start and the legacy code does; the legacy `wait_until` forgets a
subscription when a later argument has a syntax error or when it is cancelled; a
topic whose first MQTT subscription failed is never subscribed again
(`mqtt.py:65-67`); `TrigInfo.stop` of a trigger that is still subscribing leaves its
queue behind; a trigger that fires while a later one of the same `task.wait_until`
subscribes leaks that subscription and takes the webhook of another; `timeout=0` is
none for the decorators' `task.wait_until` and immediate for the legacy one; the
legacy one sets its startup time anew in each round (`trigger.py:394`); a deleted
module does not reload its importers; an app without configuration leaves its
helper modules loaded; a cancelled shutdown action ends the waiter, and every
reload and the stop of HASS wait for ever; shutdown triggers of the decorator
framework are not given to the waiter, so nothing waits for them.

## Not modelled

Per component in `PROJECT.json`. In short: validation of decorator arguments and the
dispatch of a trigger to its function; several kinds of legacy trigger whose
timeouts compete in one loop; the Jupyter kernel, whose order of messages is the
client's; the requirements installer, which compares version strings; operators,
imports, lambda, generators and other nodes of the interpreter that map to one
operation of the host; the config flow, formatting, logging and generated stubs.

Liveness of the newer modules: a trigger waits for ever if nothing happens, a
reload waits for ever if a shutdown action does, and a timer's progress is the
clock's. So none of them promises that something must happen, beyond what the
safety properties say of the moment it does.
