-------------------------- MODULE DecoratorManager --------------------------
(***************************************************************************)
(* The life of the decorators of pyscript functions: DecoratorManager and  *)
(* FunctionDecoratorManager inside a GlobalContext, with the listeners,    *)
(* webhooks and services they register.                                    *)
(*                                                                         *)
(* start and stop are coroutines that suspend in some decorators; a        *)
(* function can be redefined or deleted and its context stopped at each    *)
(* of these points.  HASS runs a task it is given (hass.async_create_task) *)
(* at once up to its first suspension, so a coroutine that is "ready" or   *)
(* under way goes first; everything else waits until the loop is Idle.     *)
(***************************************************************************)
EXTENDS Naturals, Sequences, FiniteSets

CONSTANTS
  Function,     \* evaluations of a decorated def, each with its own manager
  Ctx,          \* GlobalContext objects
  CtxOf,        \* the context each function is defined in
  VarOf,        \* the variable each function is assigned to
  Decorators,   \* the decorators of each function: records [kind, key]
  Key,          \* names of services and ids of webhooks
  Context,      \* names of contexts
  ContextOf,    \* the name a function registers services under
  Failing,      \* kinds whose start may fail after it was suspended
  NoContext,
  NoFunction    \* "nobody registered"

Kind == {"listener", "mqtt", "service", "webhook", "shutdown"}

Dec == UNION {{f} \X DOMAIN Decorators[f] : f \in Function}

Co == {"start", "context", "finalizer"}   \* dm.start(), dm.stop() by whom

Stop == Co \ {"start"}

ASSUME ManagerAssumption ==
  /\ \A f \in Function :
       /\ CtxOf[f] \in Ctx
       /\ Decorators[f] \in Seq([kind : Kind, key : Key])
       /\ ContextOf[f] \in Context
  /\ Failing \subseteq {"mqtt", "service"}
  /\ NoContext \notin Context
  /\ NoFunction \notin Dec

VARIABLES
  status,              \* dm.status, "none" before the function is defined
  scope,               \* where the EvalFuncVar of the function is referenced
  auto_start,          \* GlobalContext.auto_start
  dms,                 \* GlobalContext.dms
  dms_delay_start,     \* GlobalContext.dms_delay_start
  stopped,             \* the contexts that were stopped
  pc,                  \* where each coroutine of each manager is
  pos,                 \* its place in dm._decorators (of the undo in "undo")
  failed,              \* the decorator whose start has failed, 0 for none
  listeners,           \* decorators that get events, with a stored remover
  webhooks,            \* HASS's webhook registry: whose handler
  service_cnt, service2global_ctx, services, holders,  \* see ServiceRegistry
  tainted              \* history: managers whose start or stop went astray

Registry == INSTANCE ServiceRegistry
              WITH Provider <- Dec, Service <- Key, NoProvider <- NoFunction,
                   ContextOf <- [d \in Dec |-> ContextOf[d[1]]]

serviceVars == <<service_cnt, service2global_ctx, services, holders>>
resources == <<listeners, webhooks, serviceVars>>
ctxVars == <<auto_start, dms, dms_delay_start, stopped>>
coVars == <<pc, pos, failed>>
vars == <<status, scope, ctxVars, coVars, resources, tainted>>

TypeOK ==
  /\ status \in [Function -> {"none", "validated", "running", "stopped",
                              "invalid"}]
  /\ scope \in [Function -> {"none", "local", "stored", "gone"}]
  /\ auto_start \in [Ctx -> BOOLEAN]
  /\ dms \in [Ctx -> SUBSET Function]
  /\ dms_delay_start \in [Ctx -> SUBSET Function]
  /\ stopped \subseteq Ctx
  /\ pc \in [Function -> [Co -> {"idle", "ready", "next", "waiting", "undo",
                                 "undoing", "over"}]]
  /\ pos \in [Function -> [Co -> Nat \ {0}]]
  /\ failed \in [Function -> Nat]
  /\ listeners \subseteq Dec
  /\ webhooks \in [Key -> Dec \cup {NoFunction}]
  /\ Registry!TypeOK
  /\ tainted \subseteq Function

Init ==
  /\ status = [f \in Function |-> "none"]
  /\ scope = [f \in Function |-> "none"]
  /\ auto_start = [c \in Ctx |-> FALSE]
  /\ dms = [c \in Ctx |-> {}]
  /\ dms_delay_start = [c \in Ctx |-> {}]
  /\ stopped = {}
  /\ pc = [f \in Function |-> [k \in Co |-> "idle"]]
  /\ pos = [f \in Function |-> [k \in Co |-> 1]]
  /\ failed = [f \in Function |-> 0]
  /\ listeners = {}
  /\ webhooks = [key \in Key |-> NoFunction]
  /\ Registry!Init
  /\ tainted = {}

-----------------------------------------------------------------------------
(* Helpers *)

\* dm._decorators: update_status empties the list when the manager ends.
LiveDecorators(f) ==
  IF status[f] \in {"stopped", "invalid"} THEN <<>> ELSE Decorators[f]

\* Some coroutine holds the event loop.
Busy == \E f \in Function, k \in Co : pc[f][k] \in {"next", "undo"}

\* Nothing runs and nothing that HASS starts eagerly is about to.
Idle == \A f \in Function, k \in Co : pc[f][k] \notin {"ready", "next", "undo"}

\* A coroutine of f is neither waiting to begin nor under way.
Quiet(f, k) == pc[f][k] \in {"idle", "over"}

Goto(f, k, label) == pc' = [pc EXCEPT ![f][k] = label]

Advance(f, k) == pos' = [pos EXCEPT ![f][k] = @ + 1]

\* Neither HASS nor service_register raises in the start of dec.
CanStart(dec) ==
  LET d == Decorators[dec[1]][dec[2]] IN
  /\ d.kind = "service" => ~Registry!Refused(dec, d.key)
  /\ d.kind = "webhook" => webhooks[d.key] = NoFunction

\* dec registers; what listens is stored for the given kinds.
Acquire(dec, listening) ==
  LET d == Decorators[dec[1]][dec[2]] IN
  /\ listeners' = IF d.kind \in listening THEN listeners \cup {dec} ELSE listeners
  /\ webhooks' = IF d.kind = "webhook" THEN [webhooks EXCEPT ![d.key] = dec]
                 ELSE webhooks
  /\ IF d.kind = "service"
       THEN /\ Registry!service_register(dec, d.key)
            /\ holders' = [holders EXCEPT ![d.key] = @ \cup {dec}]
       ELSE UNCHANGED serviceVars

\* decorator.stop(): services and webhooks go by name, whoever registered.
Drop(dec) ==
  LET d == Decorators[dec[1]][dec[2]] IN
  /\ listeners' = listeners \ {dec}
  /\ webhooks' = IF d.kind = "webhook"
                   THEN [webhooks EXCEPT ![d.key] = NoFunction]
                   ELSE webhooks
  /\ IF d.kind = "service"
       THEN /\ Registry!service_remove(d.key)
            /\ holders' = [holders EXCEPT ![d.key] = @ \ {dec}]
       ELSE UNCHANGED serviceVars

\* pc when the variables of some functions are dropped: on_func_var_deleted
\* stops a running manager.
Finalized(dead) ==
  [f \in Function |-> [k \in Co |->
     IF f \in dead /\ k = "finalizer" /\ status[f] = "running" THEN "ready"
     ELSE pc[f][k]]]

\* The functions whose variable f takes over when it is assigned.
Replaced(f) ==
  {g \in Function \ {f} : /\ scope[g] = "stored"
                          /\ CtxOf[g] = CtxOf[f]
                          /\ VarOf[g] = VarOf[f]}

\* The def statement of f is over: its variable is assigned.
Store(f) ==
  scope' = [g \in Function |-> IF g = f THEN "stored"
                               ELSE IF g \in Replaced(f) THEN "gone"
                               ELSE scope[g]]

-----------------------------------------------------------------------------
(* GlobalContext *)

\* create_decorator_manager, when the context is started: the def statement
\* awaits dm.start().
DefineStarted(f) ==
  /\ Idle
  /\ scope[f] = "none"
  /\ auto_start[CtxOf[f]]
  /\ scope' = [scope EXCEPT ![f] = "local"]
  /\ status' = [status EXCEPT ![f] = "validated"]
  /\ dms' = [dms EXCEPT ![CtxOf[f]] = @ \cup {f}]
  /\ Goto(f, "start", "ready")
  /\ UNCHANGED <<auto_start, dms_delay_start, stopped, pos, failed, resources,
                 tainted>>

\* create_decorator_manager, while the file is loaded (or after the context
\* was stopped): the start is put off.
DefineDelayed(f) ==
  /\ Idle
  /\ scope[f] = "none"
  /\ ~auto_start[CtxOf[f]]
  /\ Store(f)
  /\ status' = [status EXCEPT ![f] = "validated"]
  /\ dms' = [dms EXCEPT ![CtxOf[f]] = @ \cup {f}]
  /\ dms_delay_start' = [dms_delay_start EXCEPT ![CtxOf[f]] = @ \cup {f}]
  /\ pc' = Finalized(Replaced(f))
  /\ UNCHANGED <<auto_start, stopped, pos, failed, resources, tainted>>

\* The variable of f is deleted or its scope goes.
Forget(f) ==
  /\ Idle
  /\ scope[f] = "stored"
  /\ scope' = [scope EXCEPT ![f] = "gone"]
  /\ pc' = Finalized({f})
  /\ UNCHANGED <<status, ctxVars, pos, failed, resources, tainted>>

\* start_global_contexts: auto_start is set and what was put off is started.
StartContext(c) ==
  /\ Idle
  /\ c \notin stopped
  /\ ~auto_start[c]
  /\ auto_start' = [auto_start EXCEPT ![c] = TRUE]
  /\ dms_delay_start' = [dms_delay_start EXCEPT ![c] = {}]
  /\ pc' = [f \in Function |-> [k \in Co |->
              IF f \in dms_delay_start[c] /\ k = "start" THEN "ready"
              ELSE pc[f][k]]]
  /\ UNCHANGED <<status, scope, dms, stopped, pos, failed, resources, tainted>>

\* Mutated form of StopContext: the managers are forgotten, not stopped.
StopContextForgetting(c) ==
  /\ Idle
  /\ c \notin stopped
  /\ stopped' = stopped \cup {c}
  /\ auto_start' = [auto_start EXCEPT ![c] = FALSE]
  /\ dms' = [dms EXCEPT ![c] = {}]
  /\ dms_delay_start' = [dms_delay_start EXCEPT ![c] = {}]
  /\ UNCHANGED <<status, scope, pc, pos, failed, resources, tainted>>

\* Mutated form of StopContext: what was put off is kept.
StopContextKeepingDelayed(c) ==
  /\ Idle
  /\ c \notin stopped
  /\ stopped' = stopped \cup {c}
  /\ auto_start' = [auto_start EXCEPT ![c] = FALSE]
  /\ dms' = [dms EXCEPT ![c] = {}]
  /\ pc' = [f \in Function |-> [k \in Co |->
              IF f \in dms[c] /\ k = "context" THEN "ready" ELSE pc[f][k]]]
  /\ UNCHANGED <<status, scope, dms_delay_start, pos, failed, resources,
                 tainted>>

\* GlobalContext.stop, on reload, unload and the end of a Jupyter session.
StopContext(c) ==
  /\ Idle
  /\ c \notin stopped
  /\ stopped' = stopped \cup {c}
  /\ auto_start' = [auto_start EXCEPT ![c] = FALSE]
  /\ dms' = [dms EXCEPT ![c] = {}]
  /\ dms_delay_start' = [dms_delay_start EXCEPT ![c] = {}]
  /\ pc' = [f \in Function |-> [k \in Co |->
              IF f \in dms[c] /\ k = "context" THEN "ready" ELSE pc[f][k]]]
  /\ UNCHANGED <<status, scope, pos, failed, resources, tainted>>

-----------------------------------------------------------------------------
(* DecoratorManager.start *)

BeginStart(f) ==
  /\ ~Busy
  /\ pc[f]["start"] = "ready"
  /\ status' = [status EXCEPT ![f] = "running"]
  /\ Goto(f, "start", "next")
  /\ UNCHANGED <<scope, ctxVars, pos, failed, resources, tainted>>

\* The next decorator starts and does not suspend.
StartDecorator(f) ==
  LET i == pos[f]["start"] IN
  /\ pc[f]["start"] = "next"
  /\ i <= Len(LiveDecorators(f))
  /\ CanStart(<<f, i>>)
  /\ Acquire(<<f, i>>, {"listener", "mqtt"})
  /\ Advance(f, "start")
  /\ UNCHANGED <<status, scope, ctxVars, pc, failed, tainted>>

\* The next decorator starts and suspends in mqtt.async_subscribe or, after the
\* registration of a service, in State.get_service_params.
StartSuspends(f) ==
  LET i == pos[f]["start"] IN
  /\ pc[f]["start"] = "next"
  /\ i <= Len(LiveDecorators(f))
  /\ Decorators[f][i].kind \in {"mqtt", "service"}
  /\ CanStart(<<f, i>>)
  /\ Acquire(<<f, i>>, {"listener"})
  /\ Goto(f, "start", "waiting")
  /\ UNCHANGED <<status, scope, ctxVars, pos, failed, tainted>>

\* The await is over; the subscription's remover is stored.
StartResumes(f) ==
  LET i == pos[f]["start"] IN
  /\ Idle
  /\ pc[f]["start"] = "waiting"
  /\ listeners' = IF Decorators[f][i].kind = "mqtt" THEN listeners \cup {<<f, i>>}
                  ELSE listeners
  /\ Goto(f, "start", "next")
  /\ Advance(f, "start")
  /\ UNCHANGED <<status, scope, ctxVars, failed, webhooks, serviceVars, tainted>>

\* Mutated form of StartRaises: what had started is left alone.
StartRaisesOnly(f) ==
  LET i == pos[f]["start"] IN
  /\ pc[f]["start"] = "next"
  /\ i <= Len(LiveDecorators(f))
  /\ ~CanStart(<<f, i>>)
  /\ failed' = [failed EXCEPT ![f] = i]
  /\ pos' = [pos EXCEPT ![f]["start"] = i]
  /\ Goto(f, "start", "undo")
  /\ UNCHANGED <<status, scope, ctxVars, resources, tainted>>

\* The next decorator raises at once.
StartRaises(f) ==
  LET i == pos[f]["start"] IN
  /\ pc[f]["start"] = "next"
  /\ i <= Len(LiveDecorators(f))
  /\ ~CanStart(<<f, i>>)
  /\ failed' = [failed EXCEPT ![f] = i]
  /\ pos' = [pos EXCEPT ![f]["start"] = 1]
  /\ Goto(f, "start", "undo")
  /\ UNCHANGED <<status, scope, ctxVars, resources, tainted>>

\* The await raises.  A service stays registered: only decorators that have
\* started are stopped again.
StartAwaitRaises(f) ==
  LET i == pos[f]["start"] IN
  /\ Idle
  /\ pc[f]["start"] = "waiting"
  /\ Decorators[f][i].kind \in Failing
  /\ failed' = [failed EXCEPT ![f] = i]
  /\ pos' = [pos EXCEPT ![f]["start"] = 1]
  /\ Goto(f, "start", "undo")
  /\ tainted' = IF Decorators[f][i].kind = "service" THEN tainted \cup {f}
                ELSE tainted
  /\ UNCHANGED <<status, scope, ctxVars, resources>>

\* The task that evaluates the def statement is cancelled while it awaits
\* dm.start(): nothing is undone, and the function's variable goes.
StartCancelled(f) ==
  /\ Idle
  /\ pc[f]["start"] \in {"waiting", "undoing"}
  /\ scope[f] = "local"
  /\ scope' = [scope EXCEPT ![f] = "gone"]
  /\ pc' = [Finalized({f}) EXCEPT ![f]["start"] = "over"]
  /\ tainted' = tainted \cup {f}
  /\ UNCHANGED <<status, ctxVars, pos, failed, resources>>

\* Mutated form of StartUndo: the decorator that failed is stopped as well.
StartUndoFailed(f) ==
  LET i == pos[f]["start"] IN
  /\ pc[f]["start"] = "undo"
  /\ i <= failed[f]
  /\ Drop(<<f, i>>)
  /\ \/ /\ Decorators[f][i].kind = "shutdown"
        /\ Goto(f, "start", "undoing") /\ UNCHANGED pos
     \/ Advance(f, "start") /\ UNCHANGED pc
  /\ UNCHANGED <<status, scope, ctxVars, failed, tainted>>

\* A decorator that had started is stopped; a shutdown trigger may suspend.
StartUndo(f) ==
  LET i == pos[f]["start"] IN
  /\ pc[f]["start"] = "undo"
  /\ i < failed[f]
  /\ Drop(<<f, i>>)
  /\ \/ /\ Decorators[f][i].kind = "shutdown"
        /\ Goto(f, "start", "undoing") /\ UNCHANGED pos
     \/ Advance(f, "start") /\ UNCHANGED pc
  /\ UNCHANGED <<status, scope, ctxVars, failed, tainted>>

StartUndoResumes(f) ==
  /\ Idle
  /\ pc[f]["start"] = "undoing"
  /\ Goto(f, "start", "undo")
  /\ Advance(f, "start")
  /\ UNCHANGED <<status, scope, ctxVars, failed, resources, tainted>>

\* dm.start() returns or raises, and the def statement that awaits it ends.
StartEnds(f) ==
  /\ \/ /\ pc[f]["start"] = "next"
        /\ pos[f]["start"] > Len(LiveDecorators(f))
        /\ UNCHANGED status
     \/ /\ pc[f]["start"] = "undo"
        /\ pos[f]["start"] >= failed[f]
        /\ status' = [status EXCEPT ![f] = "invalid"]
  /\ IF scope[f] = "local"
       THEN /\ Store(f)
            /\ pc' = [Finalized(Replaced(f)) EXCEPT ![f]["start"] = "over"]
       ELSE UNCHANGED scope /\ Goto(f, "start", "over")
  /\ UNCHANGED <<ctxVars, pos, failed, resources, tainted>>

-----------------------------------------------------------------------------
(* DecoratorManager.stop *)

\* Mutated form of BeginStop: the status is not looked at.
BeginStopAnyway(f, k) ==
  /\ ~Busy
  /\ pc[f][k] = "ready"
  /\ Goto(f, k, "next")
  /\ tainted' =
       IF /\ status[f] = "running"
          /\ \E j \in Co \ {k} : ~Quiet(f, j)
         THEN tainted \cup {f} ELSE tainted
  /\ UNCHANGED <<status, scope, ctxVars, pos, failed, resources>>

BeginStop(f, k) ==
  /\ ~Busy
  /\ pc[f][k] = "ready"
  /\ IF status[f] = "running"
       THEN /\ Goto(f, k, "next")
            /\ tainted' = IF \E j \in Co \ {k} : ~Quiet(f, j)
                            THEN tainted \cup {f} ELSE tainted
       ELSE /\ Goto(f, k, "over")
            /\ UNCHANGED tainted
  /\ UNCHANGED <<status, scope, ctxVars, pos, failed, resources>>

\* The next decorator is stopped; a shutdown trigger dispatches and may suspend.
StopDecorator(f, k) ==
  LET i == pos[f][k] IN
  /\ pc[f][k] = "next"
  /\ i <= Len(LiveDecorators(f))
  /\ Drop(<<f, i>>)
  /\ \/ /\ Decorators[f][i].kind = "shutdown"
        /\ Goto(f, k, "waiting") /\ UNCHANGED pos
     \/ Advance(f, k) /\ UNCHANGED pc
  /\ UNCHANGED <<status, scope, ctxVars, failed, tainted>>

StopResumes(f, k) ==
  /\ Idle
  /\ pc[f][k] = "waiting"
  /\ Goto(f, k, "next")
  /\ Advance(f, k)
  /\ UNCHANGED <<status, scope, ctxVars, failed, resources, tainted>>

StopEnds(f, k) ==
  /\ pc[f][k] = "next"
  /\ pos[f][k] > Len(LiveDecorators(f))
  /\ status' = [status EXCEPT ![f] = "stopped"]
  /\ Goto(f, k, "over")
  /\ UNCHANGED <<scope, ctxVars, pos, failed, resources, tainted>>

-----------------------------------------------------------------------------
StartStep(f) ==
  \/ BeginStart(f) \/ StartDecorator(f) \/ StartSuspends(f) \/ StartResumes(f)
  \/ StartRaises(f) \/ StartAwaitRaises(f) \/ StartCancelled(f)
  \/ StartUndo(f) \/ StartUndoResumes(f) \/ StartEnds(f)

StopStep(f, k) ==
  BeginStop(f, k) \/ StopDecorator(f, k) \/ StopResumes(f, k) \/ StopEnds(f, k)

Next ==
  \/ \E f \in Function :
       \/ DefineStarted(f) \/ DefineDelayed(f) \/ Forget(f) \/ StartStep(f)
       \/ \E k \in Stop : StopStep(f, k)
  \/ \E c \in Ctx : StartContext(c) \/ StopContext(c)

Spec == Init /\ [][Next]_vars

\* asyncio runs what can run, and HASS answers what start and stop await.
Fairness ==
  \A f \in Function :
    /\ WF_vars(StartStep(f))
    /\ \A k \in Stop : WF_vars(StopStep(f, k))

FairSpec == Spec /\ Fairness
-----------------------------------------------------------------------------
(* Properties *)

\* dec is registered for f, whatever else happened under its name.
Holds(dec) ==
  LET d == Decorators[dec[1]][dec[2]] IN
  \/ d.kind \in {"listener", "mqtt"} /\ dec \in listeners
  \/ d.kind = "webhook" /\ webhooks[d.key] = dec
  \/ d.kind = "service" /\ dec \in holders[d.key]

\* What a manager has registered is registered only while it is running: it is
\* gone when status says stopped or invalid, whatever redefinition, failure or
\* stop of the context came in between - unless the manager went astray in
\* one of the four ways that taint it.
HeldOnlyWhileRunning ==
  \A dec \in Dec :
    Holds(dec) /\ dec[1] \notin tainted => status[dec[1]] = "running"

\* A running function is known to its context or on its way to be stopped, so
\* that stopping the context leaves none of its functions running.
OwnedOrStopping ==
  \A f \in Function : status[f] = "running" =>
    \/ f \in dms[CtxOf[f]]
    \/ \E k \in Stop : ~Quiet(f, k)

\* dm.start() is only called on a validated manager, and once: its
\* RuntimeError (decorator_abc.py:171-172) is never raised.
StartedOnlyValid ==
  /\ \A f \in Function : pc[f]["start"] = "ready" => status[f] = "validated"
  /\ \A c \in Ctx : \A f \in dms_delay_start[c] :
       /\ status[f] = "validated"
       /\ pc[f]["start"] = "idle"
       /\ f \in dms[c]

\* If no manager went astray, a function that has started and is not being
\* stopped has all its registrations: no other function's start, failure or
\* stop takes a service or webhook of the same name away from it.
RunningIsComplete ==
  tainted = {} =>
    \A dec \in Dec :
      LET f == dec[1] IN
      /\ status[f] = "running"
      /\ pc[f]["start"] = "over"
      /\ \A k \in Stop : Quiet(f, k)
      /\ Decorators[f][dec[2]].kind # "shutdown"
      => Holds(dec)

\* Whatever the managers do to them, the three tables of services tell one
\* story: a count above zero, an owner and a callback go together.
ServiceTablesAgree ==
  \A key \in Key :
    /\ service_cnt[key] = 0 <=> service2global_ctx[key] = NoContext
    /\ service_cnt[key] = 0 <=> services[key] = NoFunction

\* As long as no manager goes astray the managers are the callers that
\* ServiceRegistry assumes: they remove what they have registered, once, and
\* every step is one of its steps or leaves the services alone.
ImplementsRegistry ==
  [][tainted' = {} => [Registry!Next]_serviceVars]_vars

\* The parts that make the safety properties inductive.

UnderWay(f, k) == pc[f][k] \in {"next", "waiting", "undo", "undoing"}

\* Where f is in its life: its coroutines are spawned once, the finalizer with
\* the end of its variable, the context's stop with the end of its context.
LifeOf(f) ==
  /\ scope[f] = "none" <=> status[f] = "none"
  /\ status[f] = "none" => \A k \in Co : pc[f][k] = "idle"
  /\ status[f] = "validated" => pc[f]["start"] \in {"idle", "ready"}
  /\ status[f] = "running" =>
       /\ pc[f]["start"] \notin {"idle", "ready"}
       /\ f \in dms[CtxOf[f]] \/ \E k \in Stop : ~Quiet(f, k)
  /\ pc[f]["start"] = "ready" => /\ status[f] = "validated"
                                 /\ f \in dms[CtxOf[f]]
  /\ \A k \in Co : UnderWay(f, k) => status[f] \notin {"none", "validated"}
  /\ \A k \in Co : pc[f][k] \in {"idle", "ready"} => pos[f][k] = 1
  /\ \A k \in Stop : pc[f][k] \notin {"undo", "undoing"}
  /\ pc[f]["start"] = "waiting" =>
       /\ pos[f]["start"] \in DOMAIN Decorators[f]
       /\ Decorators[f][pos[f]["start"]].kind \in {"mqtt", "service"}
  /\ pc[f]["start"] \in {"undo", "undoing"} => failed[f] \in DOMAIN Decorators[f]
  /\ pc[f]["finalizer"] # "idle" => scope[f] = "gone"
  /\ pc[f]["context"] # "idle" => CtxOf[f] \in stopped
  /\ \A c \in Ctx :
       /\ f \in dms[c] => c = CtxOf[f] /\ status[f] # "none"
       /\ f \in dms_delay_start[c] =>
            status[f] = "validated" /\ pc[f]["start"] = "idle" /\ f \in dms[c]

Lifecycle == \A f \in Function : LifeOf(f)

\* f runs one coroutine at a time, and only while its status is running.
Alone(f) ==
  \A k \in Co : UnderWay(f, k) => /\ status[f] = "running"
                                 /\ \A j \in Co \ {k} : ~UnderWay(f, j)

\* So does every manager that has not gone astray.
OneAtATime == \A f \in Function \ tainted : Alone(f)

\* The places of the decorators of f that are registered, by what its
\* coroutines have done.
Registered(f) ==
  {i \in DOMAIN Decorators[f] :
     /\ status[f] = "running"
     /\ pc[f]["start"] = "next" => i < pos[f]["start"]
     /\ pc[f]["start"] = "waiting" =>
          \/ i < pos[f]["start"]
          \/ i = pos[f]["start"] /\ Decorators[f][i].kind = "service"
     /\ pc[f]["start"] = "undo" => pos[f]["start"] <= i /\ i < failed[f]
     /\ pc[f]["start"] = "undoing" => pos[f]["start"] < i /\ i < failed[f]
     /\ \A k \in Stop : /\ pc[f][k] = "next" => pos[f][k] <= i
                        /\ pc[f][k] = "waiting" => pos[f][k] < i}

NoMore ==
  \A f \in Function \ tainted : \A i \in DOMAIN Decorators[f] :
    Holds(<<f, i>>) => i \in Registered(f)

NoLess ==
  tainted = {} =>
    \A f \in Function : \A i \in Registered(f) :
      Decorators[f][i].kind # "shutdown" => Holds(<<f, i>>)

IInv ==
  /\ TypeOK
  /\ Lifecycle
  /\ OneAtATime
  /\ ServiceTablesAgree
  /\ NoMore
  /\ NoLess

\* A stopped context lets go of everything: no function of it, running, about
\* to start or defined later on, keeps a registration for ever.
StoppedLetsGo ==
  \A dec \in Dec :
    CtxOf[dec[1]] \in stopped ~> [](Holds(dec) => dec[1] \in tainted)

\* docs/reference.rst:1806-1810: the trigger "will be stopped when the function
\* is no longer referenced"; so it is not started any more either.
UnreferencedNotStarted ==
  [][\A f \in Function :
       status[f] # "running" /\ status'[f] = "running" =>
         scope[f] # "gone"]_vars

\* function.py:77-78: a service is refused only because "it gets registered by
\* a different global_ctx": one of its providers lives in another context.
RefusedAcrossContexts ==
  \A f \in Function :
    pc[f]["start"] = "next" =>
      \A i \in DOMAIN LiveDecorators(f) :
        LET d == Decorators[f][i] IN
        i = pos[f]["start"] /\ d.kind = "service" /\ Registry!Refused(<<f, i>>, d.key)
        => \E dec \in holders[d.key] : CtxOf[dec[1]] # CtxOf[f]

\* docs/reference.rst:1664-1665: when a cell is executed again its triggers
\* "are canceled and replaced by the new definition": once the old definition
\* g has been stopped and all is quiet, the new one f runs.
RedefinitionReplaces ==
  \A f, g \in Function :
    /\ CtxOf[f] = CtxOf[g] /\ VarOf[f] = VarOf[g]
    /\ scope[g] = "gone" /\ status[g] = "stopped"
    /\ scope[f] = "stored"
    /\ auto_start[CtxOf[f]]
    /\ \A h \in Function, k \in Co : Quiet(h, k)
    => status[f] = "running"
=============================================================================
