--------------------------- MODULE MCTriggerWaits ---------------------------
(* A trigger and two calls of task.wait_until that share what they listen to. *)
EXTENDS TriggerWaits, TLC

CONSTANTS g1, w1, w2

MCAsks == (g1 :> <<"event", "mqtt", "webhook">>) @@
          (w1 :> <<"event", "mqtt", "webhook">>) @@
          (w2 :> <<"mqtt", "webhook">>)
=============================================================================
