-------------------------- MODULE MCTaskFunctions --------------------------
(* Small instances of TaskFunctions for TLC; the .cfg files give the sets.  *)
EXTENDS TaskFunctions, TLC

\* Sound where Swallower is empty or all of UserTask: tasks, names and
\* callbacks are only compared with each other.
Symmetry ==
  Permutations(UserTask) \cup Permutations(Name) \cup Permutations(Callback)
=============================================================================
