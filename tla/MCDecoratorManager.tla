------------------------- MODULE MCDecoratorManager -------------------------
(* Functions f1, f2 of one context and f3 of another; f2 redefines f1. *)
EXTENDS DecoratorManager, TLC

CONSTANTS f1, f2, f3, c1, c2, v1, v2, k1, k2, x1, x2

Deco(kind, key) == [kind |-> kind, key |-> key]

MCCtxOf == f1 :> c1 @@ f2 :> c1 @@ f3 :> c2
MCVarOf == f1 :> v1 @@ f2 :> v1 @@ f3 :> v2
MCContextOf == f1 :> x1 @@ f2 :> x1 @@ f3 :> x1

\* Every kind, and names that collide within a context and between two.
MixedDecorators ==
  f1 :> <<Deco("shutdown", k1), Deco("service", k2), Deco("webhook", k1)>> @@
  f2 :> <<Deco("mqtt", k1), Deco("service", k2), Deco("webhook", k1)>> @@
  f3 :> <<Deco("listener", k1), Deco("service", k2)>>

\* Two definitions of one function, with a suspension in each start and stop.
StoppedDecorators ==
  f1 :> <<Deco("listener", k1), Deco("shutdown", k1), Deco("service", k1)>> @@
  f2 :> <<Deco("mqtt", k1), Deco("service", k1)>>

\* Two functions that provide one service.
ServiceDecorators ==
  f1 :> <<Deco("service", k1)>> @@ f2 :> <<Deco("service", k1)>>

\* A function and its redefinition on one webhook.
WebhookDecorators ==
  f1 :> <<Deco("webhook", k1)>> @@
  f2 :> <<Deco("webhook", k1)>>

\* A closure registers under the name of the function that made it.
ClosureVarOf == f1 :> v1 @@ f2 :> v2
ClosureNames == f1 :> x1 @@ f2 :> x2

TwoNames == f1 :> x1 @@ f2 :> x1 @@ f3 :> x2
=============================================================================
