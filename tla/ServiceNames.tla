---------------------------- MODULE ServiceNames ----------------------------
(***************************************************************************)
(* What the service registry of pyscript promises: a service exists as     *)
(* long as some function provides it, all its providers are of one global  *)
(* context, and a name nobody provides is free for any context.            *)
(***************************************************************************)
CONSTANTS
  Provider,   \* the @service decorators of functions
  Service,    \* names of services
  Context,    \* names a provider registers under
  ContextOf   \* the name each provider registers under

VARIABLES
  holders,    \* the providers of each service
  available   \* the services that can be called

vars == <<holders, available>>

Init ==
  /\ holders = [s \in Service |-> {}]
  /\ available = {}

Provide(p, s) ==
  /\ p \notin holders[s]
  /\ \A q \in holders[s] : ContextOf[q] = ContextOf[p]
  /\ holders' = [holders EXCEPT ![s] = @ \cup {p}]
  /\ available' = available \cup {s}

Withdraw(p, s) ==
  /\ p \in holders[s]
  /\ holders' = [holders EXCEPT ![s] = @ \ {p}]
  /\ available' = IF holders[s] = {p} THEN available \ {s} ELSE available

Next == \E p \in Provider, s \in Service : Provide(p, s) \/ Withdraw(p, s)

Spec == Init /\ [][Next]_vars
=============================================================================
