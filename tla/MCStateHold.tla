---------------------------- MODULE MCStateHold ----------------------------
(* All combinations of the keywords, over six instants. *)
EXTENDS StateHold

MCHold == {None, 0, 2}
MCHoldFalse == {None, 0, 2}
=============================================================================
