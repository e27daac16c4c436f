-------------------------- MODULE ServiceRegistry --------------------------
(***************************************************************************)
(* The services of pyscript as class Function counts them, for callers     *)
(* that remove what they have registered, once.  DecoratorManager tells    *)
(* when the real callers do.                                               *)
(***************************************************************************)
EXTENDS Naturals, FiniteSets

CONSTANTS
  Provider,   \* the @service decorators of functions
  Service,    \* names of services
  Context,    \* names a provider registers under
  ContextOf,  \* the name each provider registers under
  NoContext,  \* "no such key" in service2global_ctx
  NoProvider  \* "no such service" in HASS

ASSUME ServiceAssumption ==
  /\ ContextOf \in [Provider -> Context]
  /\ NoContext \notin Context
  /\ NoProvider \notin Provider
  /\ IsFiniteSet(Provider)

VARIABLES
  service_cnt,         \* Function.service_cnt, 0 for a missing key
  service2global_ctx,  \* Function.service2global_ctx
  services,            \* HASS's registry: whose callback each service runs
  holders              \* history: who has registered and not yet removed

tables == <<service_cnt, service2global_ctx, services>>
vars == <<tables, holders>>

TypeOK ==
  /\ service_cnt \in [Service -> Nat]
  /\ service2global_ctx \in [Service -> Context \cup {NoContext}]
  /\ services \in [Service -> Provider \cup {NoProvider}]
  /\ holders \in [Service -> SUBSET Provider]

Init ==
  /\ service_cnt = [s \in Service |-> 0]
  /\ service2global_ctx = [s \in Service |-> NoContext]
  /\ services = [s \in Service |-> NoProvider]
  /\ holders = [s \in Service |-> {}]

-----------------------------------------------------------------------------
(* Function.service_register and Function.service_remove *)

\* service_register raises ValueError instead of registering p.
Refused(p, s) == service2global_ctx[s] \notin {NoContext, ContextOf[p]}

\* Mutated form of service_register: the owner is not looked at.
service_register_unchecked(p, s) ==
  /\ service2global_ctx' = [service2global_ctx EXCEPT ![s] = ContextOf[p]]
  /\ service_cnt' = [service_cnt EXCEPT ![s] = @ + 1]
  /\ services' = [services EXCEPT ![s] = p]

\* Mutated form of service_register: a second registration is not counted.
service_register_uncounted(p, s) ==
  /\ ~Refused(p, s)
  /\ service2global_ctx' = [service2global_ctx EXCEPT ![s] = ContextOf[p]]
  /\ service_cnt' = [service_cnt EXCEPT ![s] = 1]
  /\ services' = [services EXCEPT ![s] = p]

service_register(p, s) ==
  /\ ~Refused(p, s)
  /\ service2global_ctx' = [service2global_ctx EXCEPT ![s] = ContextOf[p]]
  /\ service_cnt' = [service_cnt EXCEPT ![s] = @ + 1]
  /\ services' = [services EXCEPT ![s] = p]

\* Mutated form of service_remove: the count is compared off by one.
service_remove_late(s) ==
  IF service_cnt[s] > 0
    THEN /\ service_cnt' = [service_cnt EXCEPT ![s] = @ - 1]
         /\ UNCHANGED <<service2global_ctx, services>>
    ELSE /\ service_cnt' = [service_cnt EXCEPT ![s] = 0]
         /\ services' = [services EXCEPT ![s] = NoProvider]
         /\ service2global_ctx' = [service2global_ctx EXCEPT ![s] = NoContext]

\* Mutated form of service_remove: the owner is kept.
service_remove_keeping_owner(s) ==
  IF service_cnt[s] > 1
    THEN /\ service_cnt' = [service_cnt EXCEPT ![s] = @ - 1]
         /\ UNCHANGED <<service2global_ctx, services>>
    ELSE /\ service_cnt' = [service_cnt EXCEPT ![s] = 0]
         /\ services' = [services EXCEPT ![s] = NoProvider]
         /\ UNCHANGED service2global_ctx

\* Mutated form of service_remove: a service that is not there is counted down.
service_remove_uncapped(s) ==
  IF service_cnt[s] # 1
    THEN /\ service_cnt' = [service_cnt EXCEPT ![s] = @ - 1]
         /\ UNCHANGED <<service2global_ctx, services>>
    ELSE /\ service_cnt' = [service_cnt EXCEPT ![s] = 0]
         /\ services' = [services EXCEPT ![s] = NoProvider]
         /\ service2global_ctx' = [service2global_ctx EXCEPT ![s] = NoContext]

service_remove(s) ==
  IF service_cnt[s] > 1
    THEN /\ service_cnt' = [service_cnt EXCEPT ![s] = @ - 1]
         /\ UNCHANGED <<service2global_ctx, services>>
    ELSE /\ service_cnt' = [service_cnt EXCEPT ![s] = 0]
         /\ services' = [services EXCEPT ![s] = NoProvider]
         /\ service2global_ctx' = [service2global_ctx EXCEPT ![s] = NoContext]

-----------------------------------------------------------------------------
(* The callers: ServiceDecorator.start and stop *)

Register(p, s) ==
  /\ p \notin holders[s]
  /\ service_register(p, s)
  /\ holders' = [holders EXCEPT ![s] = @ \cup {p}]

Remove(p, s) ==
  /\ p \in holders[s]
  /\ service_remove(s)
  /\ holders' = [holders EXCEPT ![s] = @ \ {p}]

Next == \E p \in Provider, s \in Service : Register(p, s) \/ Remove(p, s)

Spec == Init /\ [][Next]_vars

-----------------------------------------------------------------------------
(* Properties *)

\* The reference count is the number of functions that provide the service:
\* it neither drops a service that is still provided (function.py:70-72) nor
\* keeps one for ever.
CountExact == \A s \in Service : service_cnt[s] = Cardinality(holders[s])

\* The owner of a service is the context of all its providers, and there is
\* one exactly as long as there are providers, so that the name is free for
\* another context after the last removal (function.py:77-78).
OwnerAgrees ==
  \A s \in Service :
    /\ service2global_ctx[s] = NoContext <=> holders[s] = {}
    /\ \A p \in holders[s] : ContextOf[p] = service2global_ctx[s]

\* HASS has the service exactly as long as a function provides it.
CallableWhileProvided ==
  \A s \in Service : services[s] = NoProvider <=> holders[s] = {}

IInv == TypeOK /\ CountExact /\ OwnerAgrees /\ CallableWhileProvided

\* The registry implements the promise, by what HASS lets one call.
Names == INSTANCE ServiceNames
           WITH available <- {s \in Service : services[s] # NoProvider}

\* The registry implements ServiceNames: HASS's registry, the count and the
\* owner together behave like a plain set of providers per name.
ImplementsNames == Names!Spec
=============================================================================
