------------------------- MODULE MCServiceRegistry -------------------------
(* Four @service decorators in two contexts. *)
EXTENDS ServiceRegistry, TLC

CONSTANTS p1, p2, p3, p4, x1, x2

MCContextOf == p1 :> x1 @@ p2 :> x1 @@ p3 :> x1 @@ p4 :> x2

=============================================================================
