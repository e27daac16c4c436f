---------------------------- MODULE MCStateVars ----------------------------
(* Two variables and two triggers: one that names each variable once, and
   one whose expression also has an old value and a builtin in it. *)
EXTENDS StateVars

CONSTANTS x, y, q1, q2, on, off

N(v, k) == [var |-> v, kind |-> k]

MCNamesOf ==
  q1 :> {N(x, "value"), N(y, "attr"), N(y, "plain")}
  @@ q2 :> {N(x, "value"), N(x, "old"), N(y, "value"), N(y, "oldattr")}

\* The values are only compared for equality.
MCSymmetry == Permutations({on, off})
=============================================================================
