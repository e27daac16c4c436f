------------------------ MODULE TaskFunctions_proofs ------------------------
(* Proofs about TaskFunctions, for every choice of its constants.           *)
EXTENDS TaskFunctions, FiniteSetTheorems, TLAPS

\* Callbacks are finitely many, so the size of a task2cb dict is a number.
LEMMA SizeIsNat ==
  ASSUME NEW S \in SUBSET Callback
  PROVE  /\ Cardinality(S) \in Nat
         /\ Cardinality(S) = 0 <=> S = {}
BY FS_Subset, FS_CardinalityType, FS_EmptySet, TaskAssumption

\* Handing a task to the reaper keeps the types of the reaper's variables.
LEMMA ReaperCancelType ==
  ASSUME TypeOK, NEW t \in Task, reaper_cancel(t)
  PROVE  /\ task_reaper_q' \in Seq(Task \cup {Exit})
         /\ task_reaper' \in {"up", "stopping", "exited", "gone"}
         /\ reaping' \in Task \cup {NoTask}
BY DEF TypeOK, reaper_cancel

\* The initial state has the right types.
LEMMA TypeInit == Init => TypeOK
BY DEF Init, TypeOK, Task

\* Every step keeps the types.
LEMMA TypeNext == TypeOK /\ [Next]_vars => TypeOK'
<1> USE DEF Task
<1> SUFFICES ASSUME TypeOK, Next PROVE TypeOK'
  BY DEF TypeOK, vars, registry, reaperVars, flow
<1>1. ASSUME NEW t \in Task, NEW n \in Name, TaskUnique(t, n) PROVE TypeOK'
  <2>1. /\ task_reaper_q' \in Seq(Task \cup {Exit})
        /\ task_reaper' \in {"up", "stopping", "exited", "gone"}
        /\ reaping' \in Task \cup {NoTask}
    <3>1. CASE unique_name2task[n] \in our_tasks \ {t}
      <4>1. unique_name2task[n] \in Task
        BY <3>1 DEF TypeOK
      <4>2. /\ task_reaper_q' = Append(task_reaper_q, unique_name2task[n])
            /\ UNCHANGED <<task_reaper, reaping>>
        BY <1>1, <3>1 DEF TaskUnique, reaper_cancel
      <4> QED BY <4>1, <4>2 DEF TypeOK
    <3>2. CASE unique_name2task[n] \notin our_tasks \ {t}
      BY <1>1, <3>2 DEF TaskUnique, TypeOK, reaperVars
    <3> QED BY <3>1, <3>2
  <2>2. /\ unique_name2task' \in [Name -> UserTask \cup {NoTask}]
        /\ unique_task2name' \in [UserTask -> SUBSET Name]
        /\ claimed' \in [UserTask -> SUBSET Name]
    <3>1. CASE t \in our_tasks
      <4>1. t \in UserTask
        BY <3>1 DEF TypeOK
      <4>2. unique_name2task' = [unique_name2task EXCEPT ![n] = t]
        BY <1>1, <3>1 DEF TaskUnique, Own
      <4>3. unique_task2name' = [u \in UserTask |->
               IF u = t THEN unique_task2name[u] \cup {n}
               ELSE IF u = unique_name2task[n] THEN unique_task2name[u] \ {n}
               ELSE unique_task2name[u]]
        BY <1>1, <3>1 DEF TaskUnique, Own
      <4>4. claimed' = [claimed EXCEPT ![t] = @ \cup {n}]
        BY <1>1, <3>1 DEF TaskUnique, Own
      <4>5. unique_name2task' \in [Name -> UserTask \cup {NoTask}]
        BY <4>1, <4>2 DEF TypeOK
      <4>6. unique_task2name' \in [UserTask -> SUBSET Name]
        BY <4>1, <4>3 DEF TypeOK
      <4>7. claimed' \in [UserTask -> SUBSET Name]
        BY <4>1, <4>4 DEF TypeOK
      <4> QED BY <4>5, <4>6, <4>7
    <3>2. CASE t \notin our_tasks
      BY <1>1, <3>2 DEF TaskUnique, TypeOK
    <3> QED BY <3>1, <3>2
  <2> QED BY <1>1, <2>1, <2>2 DEF TaskUnique, TypeOK, flow
<1>2. ASSUME NEW t \in Task, NEW n \in Name, TaskUniqueKillMe(t, n)
      PROVE TypeOK'
  BY <1>2, ReaperCancelType DEF TaskUniqueKillMe, TypeOK, registry
<1>3. ASSUME NEW t \in Task, NEW u \in UserTask, UserTaskCancel(t, u)
      PROVE TypeOK'
  BY <1>3, ReaperCancelType DEF UserTaskCancel, TypeOK, registry, flow
<1>4. ASSUME NEW t \in Task, UserTaskCancelSelf(t) PROVE TypeOK'
  BY <1>4, ReaperCancelType DEF UserTaskCancelSelf, TypeOK, registry
<1>5. ASSUME NEW t \in Task, NEW u \in UserTask, NEW cb \in Callback,
             AddDoneCallback(t, u, cb)
      PROVE TypeOK'
  BY <1>5 DEF AddDoneCallback, TypeOK, reaperVars, flow
<1>6. ASSUME NEW t \in Task, NEW u \in UserTask, NEW cb \in Callback,
             RemoveDoneCallback(t, u, cb)
      PROVE TypeOK'
  BY <1>6 DEF RemoveDoneCallback, TypeOK, reaperVars
<1>7. ASSUME NEW t \in Task, Swallow(t) PROVE TypeOK'
  BY <1>7 DEF Swallow, TypeOK, registry, reaperVars
<1>8. ASSUME NEW t \in Task, LeaveBody(t) PROVE TypeOK'
  <2>1. /\ pc' \in [Task -> {"none", "created", "running", "callback", "done"}]
        /\ our_tasks' \subseteq UserTask
        /\ unique_name2task' \in [Name -> UserTask \cup {NoTask}]
        /\ unique_task2name' \in [UserTask -> SUBSET Name]
        /\ cb_tasks' \subseteq UserTask
        /\ task2cb' \in [UserTask -> SUBSET Callback]
        /\ task2context' \subseteq UserTask
        /\ called' \in [UserTask -> SUBSET Callback]
    <3>1. CASE t \in UserTask /\ Release(t) /\ UNCHANGED called
      BY <3>1 DEF Release, TypeOK
    <3>2. CASE /\ t \in UserTask
               /\ \E cb \in task2cb[t] :
                    /\ pc' = [pc EXCEPT ![t] = "callback"]
                    /\ called' = [called EXCEPT ![t] = {cb}]
                    /\ UNCHANGED registry
      BY <3>2 DEF TypeOK, registry
    <3>3. CASE t \notin UserTask
      BY <1>8, <3>3 DEF LeaveBody, Abandon, TypeOK, registry
    <3> QED BY <1>8, <3>1, <3>2, <3>3 DEF LeaveBody, NextCallback
  <2>2. cb_size' \in [UserTask -> Nat]
    <3>1. CASE t \in UserTask
      <4>1. Cardinality(task2cb[t]) \in Nat
        BY <3>1, SizeIsNat DEF TypeOK
      <4> QED BY <1>8, <3>1, <4>1 DEF LeaveBody, TypeOK
    <3>2. CASE t \notin UserTask
      BY <1>8, <3>2 DEF LeaveBody, TypeOK
    <3> QED BY <3>1, <3>2
  <2>3. /\ cancelling' \subseteq Task
         /\ unwinding' \subseteq Task
         /\ asleep' \subseteq Task
         /\ task_reaper_q' \in Seq(Task \cup {Exit})
         /\ task_reaper' \in {"up", "stopping", "exited", "gone"}
         /\ reaping' \in Task \cup {NoTask}
         /\ claimed' \in [UserTask -> SUBSET Name]
    BY <1>8 DEF LeaveBody, TypeOK, reaperVars
  <2> QED BY <2>1, <2>2, <2>3 DEF TypeOK
<1>9. ASSUME NEW t \in UserTask, CallbackReturns(t) PROVE TypeOK'
  <2>1. CASE Release(t) /\ UNCHANGED called
    BY <1>9, <2>1 DEF CallbackReturns, Release, TypeOK, reaperVars
  <2>2. CASE \E cb \in task2cb[t] \ called[t] :
               /\ pc' = [pc EXCEPT ![t] = "callback"]
               /\ called' = [called EXCEPT ![t] = called[t] \cup {cb}]
               /\ UNCHANGED registry
    BY <1>9, <2>2 DEF CallbackReturns, TypeOK, registry, reaperVars
  <2>3. CASE Abandon(t) /\ UNCHANGED called
    BY <1>9, <2>3 DEF CallbackReturns, Abandon, TypeOK, registry, reaperVars
  <2> QED BY <1>9, <2>1, <2>2, <2>3 DEF CallbackReturns, NextCallback
<1>10. ASSUME NEW t \in UserTask, CallbackRaises(t) PROVE TypeOK'
  BY <1>10 DEF CallbackRaises, Release, TypeOK, reaperVars
<1>11. ASSUME NEW t \in UserTask, CallbackCancelled(t) PROVE TypeOK'
  BY <1>11 DEF CallbackCancelled, Abandon, TypeOK, registry, reaperVars
<1>12. ASSUME NEW t \in Task, ThrowCancelled(t) PROVE TypeOK'
  BY <1>12 DEF ThrowCancelled, TypeOK, registry, reaperVars
<1>13. ASSUME NEW t \in UserTask, NEW withCtx \in BOOLEAN,
              CreateTask(t, withCtx)
       PROVE TypeOK'
  BY <1>13 DEF CreateTask, TypeOK, reaperVars
<1>14. ASSUME NEW t \in UserTask, StoreHassContext(t) PROVE TypeOK'
  BY <1>14 DEF StoreHassContext, TypeOK, reaperVars, flow
<1>15. ASSUME NEW t \in UserTask, RunCoro(t) PROVE TypeOK'
  BY <1>15 DEF RunCoro, TypeOK, reaperVars
<1>16. CASE ReaperCancels
  BY <1>16 DEF ReaperCancels, TypeOK, registry
<1>17. CASE ReaperAwaited
  BY <1>17 DEF ReaperAwaited, TypeOK, registry, flow
<1>18. CASE ReaperExits
  BY <1>18 DEF ReaperExits, TypeOK, registry, flow
<1>19. CASE ReaperStop
  <2>1. task_reaper_q' \in Seq(Task \cup {Exit})
    <3>1. task_reaper_q' \in {task_reaper_q, Append(task_reaper_q, Exit)}
      BY <1>19 DEF ReaperStop
    <3>2. ASSUME NEW e \in Task \cup {Exit}
          PROVE  Append(task_reaper_q, e) \in Seq(Task \cup {Exit})
      BY DEF TypeOK
    <3> QED BY <3>1, <3>2 DEF TypeOK
  <2> QED BY <1>19, <2>1 DEF ReaperStop, TypeOK, registry, flow
<1> QED
  BY <1>1, <1>2, <1>3, <1>4, <1>5, <1>6, <1>7, <1>8, <1>9, <1>10, <1>11,
     <1>12, <1>13, <1>14, <1>15, <1>16, <1>17, <1>18, <1>19, TaskAssumption
     DEF Next, UserStep, BodyEnds, BodyCancelled

\* Type correctness of the model of function.py's task tables.
THEOREM TypeCorrect == Spec => []TypeOK
BY TypeInit, TypeNext, PTL DEF Spec
-----------------------------------------------------------------------------
(* What a step can do to the tables of task.unique. *)

\* Names move in three ways only: task.unique by a task in our_tasks, the
\* start of run_coro, which only adds to our_tasks, and its finally clause.
LEMMA RegistryStep ==
  ASSUME TypeOK, [Next]_vars
  PROVE  \/ UNCHANGED <<our_tasks, unique_name2task, unique_task2name, claimed>>
         \/ \E t \in our_tasks, n \in Name :
              /\ TaskUnique(t, n)
              /\ Own(t, n)
              /\ UNCHANGED our_tasks
         \/ \E t \in UserTask :
              /\ pc[t] = "created"
              /\ pc' = [pc EXCEPT ![t] = "running"]
              /\ our_tasks' = our_tasks \cup {t}
              /\ UNCHANGED <<unique_name2task, unique_task2name, claimed>>
         \/ \E t \in UserTask :
              Release(t) /\ pc[t] # "done" /\ UNCHANGED claimed
<1> DEFINE Same ==
      UNCHANGED <<our_tasks, unique_name2task, unique_task2name, claimed>>
           Freed(t) ==
             Release(t) /\ pc[t] # "done" /\ UNCHANGED claimed
<1>1. ASSUME NEW t \in Task, NEW n \in Name, TaskUnique(t, n)
      PROVE  \/ Same
             \/ t \in our_tasks /\ Own(t, n) /\ UNCHANGED our_tasks
  BY <1>1 DEF TaskUnique
<1>2. ASSUME NEW t \in Task, LeaveBody(t)
      PROVE  Same \/ (t \in UserTask /\ Freed(t))
  <2>1. UNCHANGED claimed
    BY <1>2 DEF LeaveBody
  <2>2. CASE t \in UserTask
    <3>1. NextCallback(t, {})
      BY <1>2, <2>2 DEF LeaveBody
    <3>2. pc[t] # "done"
      BY <1>2 DEF LeaveBody
    <3> QED BY <2>1, <2>2, <3>1, <3>2 DEF NextCallback, registry
  <2>3. CASE t \notin UserTask
    <3>1. Abandon(t)
      BY <1>2, <2>3 DEF LeaveBody
    <3> QED BY <2>1, <3>1 DEF Abandon, registry
  <2> QED BY <2>2, <2>3
<1>3. ASSUME NEW t \in UserTask, CallbackReturns(t)
      PROVE  Same \/ Freed(t)
  BY <1>3 DEF CallbackReturns, NextCallback, Abandon, registry
<1>4. ASSUME NEW t \in UserTask, CallbackRaises(t) PROVE Freed(t)
  BY <1>4 DEF CallbackRaises
<1>5. ASSUME NEW t \in UserTask, RunCoro(t)
      PROVE  /\ pc[t] = "created"
             /\ pc' = [pc EXCEPT ![t] = "running"]
             /\ our_tasks' = our_tasks \cup {t}
             /\ UNCHANGED <<unique_name2task, unique_task2name, claimed>>
  BY <1>5 DEF RunCoro
<1>6. ASSUME NEW t \in Task,
             \/ \E n \in Name : TaskUniqueKillMe(t, n)
             \/ \E u \in UserTask : UserTaskCancel(t, u)
             \/ UserTaskCancelSelf(t)
             \/ Swallow(t)
             \/ ThrowCancelled(t)
      PROVE  Same
  BY <1>6 DEF TaskUniqueKillMe, UserTaskCancel, UserTaskCancelSelf, Swallow,
              ThrowCancelled, registry
<1>7. ASSUME NEW t \in Task, NEW u \in UserTask, NEW cb \in Callback,
             AddDoneCallback(t, u, cb) \/ RemoveDoneCallback(t, u, cb)
      PROVE  Same
  BY <1>7 DEF AddDoneCallback, RemoveDoneCallback
<1>8. ASSUME NEW t \in UserTask,
             \/ \E withCtx \in BOOLEAN : CreateTask(t, withCtx)
             \/ StoreHassContext(t)
             \/ CallbackCancelled(t)
      PROVE  Same
  BY <1>8 DEF CreateTask, StoreHassContext, CallbackCancelled, Abandon,
              registry
<1>9. CASE ReaperCancels \/ ReaperAwaited \/ ReaperExits \/ ReaperStop
  BY <1>9 DEF ReaperCancels, ReaperAwaited, ReaperExits, ReaperStop, registry
<1>10. CASE UNCHANGED vars
  BY <1>10 DEF vars, registry
<1> QED
  BY <1>1, <1>2, <1>3, <1>4, <1>5, <1>6, <1>7, <1>8, <1>9, <1>10,
     TaskAssumption DEF Next, UserStep, BodyEnds, BodyCancelled

\* The two maps stay inverse to each other, and owners stay in our_tasks.
LEMMA NamesNext ==
  ASSUME TypeOK, NameMapsAgree, OwnersAreOurs, [Next]_vars
  PROVE  NameMapsAgree' /\ OwnersAreOurs'
<1>1. CASE UNCHANGED <<our_tasks, unique_name2task, unique_task2name, claimed>>
  BY <1>1 DEF NameMapsAgree, OwnersAreOurs
<1>2. ASSUME NEW t \in our_tasks, NEW n \in Name, Own(t, n),
             UNCHANGED our_tasks
      PROVE  NameMapsAgree' /\ OwnersAreOurs'
  <2>1. t \in UserTask
    BY DEF TypeOK
  <2>2. \A m \in Name : unique_name2task'[m] =
          IF m = n THEN t ELSE unique_name2task[m]
    BY <1>2 DEF Own, TypeOK
  <2>3. \A u \in UserTask : unique_task2name'[u] =
          IF u = t THEN unique_task2name[u] \cup {n}
          ELSE IF u = unique_name2task[n] THEN unique_task2name[u] \ {n}
          ELSE unique_task2name[u]
    BY <1>2 DEF Own
  <2>4. ASSUME NEW m \in Name, NEW u \in UserTask
        PROVE  m \in unique_task2name'[u] <=> unique_name2task'[m] = u
    <3>1. m \in unique_task2name[u] <=> unique_name2task[m] = u
      BY DEF NameMapsAgree
    <3>2. CASE u = t
      <4>1. unique_task2name'[u] = unique_task2name[u] \cup {n}
        BY <2>3, <3>2
      <4> QED BY <4>1, <2>2, <3>1, <3>2
    <3>3. CASE u # t /\ u = unique_name2task[n]
      <4>1. unique_task2name'[u] = unique_task2name[u] \ {n}
        BY <2>3, <3>3
      <4> QED BY <4>1, <2>2, <3>1, <3>3
    <3>4. CASE u # t /\ u # unique_name2task[n]
      <4>1. unique_task2name'[u] = unique_task2name[u]
        BY <2>3, <3>4
      <4> QED BY <4>1, <2>2, <3>1, <3>4
    <3> QED BY <3>2, <3>3, <3>4
  <2>5. OwnersAreOurs'
    BY <1>2, <2>2 DEF OwnersAreOurs
  <2> QED BY <2>4, <2>5 DEF NameMapsAgree
<1>3. ASSUME NEW t \in UserTask, our_tasks' = our_tasks \cup {t},
             UNCHANGED <<unique_name2task, unique_task2name>>
      PROVE  NameMapsAgree' /\ OwnersAreOurs'
  BY <1>3 DEF NameMapsAgree, OwnersAreOurs
<1>4. ASSUME NEW t \in UserTask, Release(t)
      PROVE  NameMapsAgree' /\ OwnersAreOurs'
  <2>1. \A m \in Name : unique_name2task'[m] =
          IF m \in unique_task2name[t] THEN NoTask ELSE unique_name2task[m]
    BY <1>4 DEF Release
  <2>2. \A u \in UserTask : unique_task2name'[u] =
          IF u = t THEN {} ELSE unique_task2name[u]
    BY <1>4 DEF Release, TypeOK
  <2>3. NoTask \notin UserTask
    BY TaskAssumption DEF Task
  <2>4. NameMapsAgree'
    BY <2>1, <2>2, <2>3 DEF NameMapsAgree
  <2>5. OwnersAreOurs'
    BY <1>4, <2>1 DEF OwnersAreOurs, NameMapsAgree, Release
  <2> QED BY <2>4, <2>5
<1> QED BY <1>1, <1>2, <1>3, <1>4, RegistryStep

\* Each name of task.unique has one owner and the owner knows it.
THEOREM NamesAgree == Spec => []NameMapsAgree
<1>1. Init => TypeOK /\ NameMapsAgree /\ OwnersAreOurs
  BY TypeInit, TaskAssumption DEF Init, NameMapsAgree, OwnersAreOurs, Task
<1>2. TypeOK /\ NameMapsAgree /\ OwnersAreOurs /\ [Next]_vars
      => (TypeOK /\ NameMapsAgree /\ OwnersAreOurs)'
  BY TypeNext, NamesNext
<1> QED BY <1>1, <1>2, PTL DEF Spec
-----------------------------------------------------------------------------
(* What a step can do to the life of a task and to the reaper's work. *)

\* The ends of a body and of a callback lead on to a callback or to the end.
LEMMA EndStep ==
  ASSUME TypeOK, NEW t \in Task,
         \/ LeaveBody(t)
         \/ /\ t \in UserTask
            /\ CallbackReturns(t) \/ CallbackRaises(t) \/ CallbackCancelled(t)
  PROVE  /\ pc[t] \in {"running", "callback"}
         /\ \E st \in {"callback", "done"} : pc' = [pc EXCEPT ![t] = st]
         /\ cancelling' = cancelling
         /\ unwinding' = unwinding \ {t}
         /\ t \notin cancelling
<1>1. CASE LeaveBody(t)
  <2>1. CASE t \in UserTask
    <3>1. NextCallback(t, {})
      BY <1>1, <2>1 DEF LeaveBody
    <3> QED BY <1>1, <3>1 DEF LeaveBody, NextCallback, Release, Active
  <2>2. CASE t \notin UserTask
    BY <1>1, <2>2 DEF LeaveBody, Abandon, Active
  <2> QED BY <2>1, <2>2
<1>2. CASE t \in UserTask /\ CallbackReturns(t)
  BY <1>2 DEF CallbackReturns, NextCallback, Release, Abandon, Active
<1>3. CASE t \in UserTask /\ CallbackRaises(t)
  BY <1>3 DEF CallbackRaises, Release, Active
<1>4. CASE t \in UserTask /\ CallbackCancelled(t)
  BY <1>4 DEF CallbackCancelled, Abandon, Active
<1> QED BY <1>1, <1>2, <1>3, <1>4

\* The ways a task's life and its cancellation can change in a step.
LEMMA FlowStep ==
  ASSUME TypeOK, [Next]_vars, NEW v \in Task
  PROVE  \/ /\ pc'[v] = pc[v]
            /\ v \in cancelling' =>
                 \/ v \in cancelling
                 \/ pc[v] # "done" /\ Condemned(v) /\ reaping' = v
            /\ v \in unwinding' =>
                 v \in unwinding \/ (v \in cancelling /\ pc[v] # "created")
         \/ /\ \/ pc[v] = "none" /\ pc'[v] = "created"
               \/ pc[v] = "created" /\ pc'[v] \in {"running", "done"}
            /\ v \in cancelling' => v \in cancelling
            /\ v \in unwinding' => v \in unwinding
         \/ /\ pc[v] \in {"running", "callback"}
            /\ pc'[v] \in {"callback", "done"}
            /\ v \notin cancelling' \cup unwinding'
<1> DEFINE Still ==
      /\ pc'[v] = pc[v]
      /\ v \in cancelling' => v \in cancelling
      /\ v \in unwinding' => v \in unwinding
<1>1. ASSUME NEW t \in Task,
             \/ LeaveBody(t)
             \/ /\ t \in UserTask
                /\ CallbackReturns(t) \/ CallbackRaises(t)
                     \/ CallbackCancelled(t)
      PROVE  \/ Still
             \/ /\ pc[v] \in {"running", "callback"}
                /\ pc'[v] \in {"callback", "done"}
                /\ v \notin cancelling' \cup unwinding'
  <2>1. /\ pc[t] \in {"running", "callback"}
        /\ \E st \in {"callback", "done"} : pc' = [pc EXCEPT ![t] = st]
        /\ cancelling' = cancelling
        /\ unwinding' = unwinding \ {t}
        /\ t \notin cancelling
    BY <1>1, EndStep
  <2> QED BY <2>1 DEF TypeOK
<1>2. ASSUME NEW t \in Task, UserStep(t) PROVE Still
  BY <1>2 DEF UserStep, TaskUnique, TaskUniqueKillMe, UserTaskCancel,
              UserTaskCancelSelf, AddDoneCallback, RemoveDoneCallback, Swallow,
              flow
<1>3. ASSUME NEW t \in Task, ThrowCancelled(t)
      PROVE  \/ /\ pc'[v] = pc[v]
                /\ v \in cancelling' => v \in cancelling
                /\ v \in unwinding' =>
                     v \in unwinding \/ (v \in cancelling /\ pc[v] # "created")
             \/ /\ pc[v] = "created" /\ pc'[v] = "done"
                /\ v \in cancelling' => v \in cancelling
                /\ v \in unwinding' => v \in unwinding
  BY <1>3 DEF ThrowCancelled, TypeOK
<1>4. ASSUME NEW t \in UserTask, \E withCtx \in BOOLEAN : CreateTask(t, withCtx)
      PROVE  \/ Still
             \/ /\ pc[v] = "none" /\ pc'[v] = "created"
                /\ v \in cancelling' => v \in cancelling
                /\ v \in unwinding' => v \in unwinding
  BY <1>4 DEF CreateTask, TypeOK
<1>5. ASSUME NEW t \in UserTask, RunCoro(t)
      PROVE  \/ Still
             \/ /\ pc[v] = "created" /\ pc'[v] = "running"
                /\ v \in cancelling' => v \in cancelling
                /\ v \in unwinding' => v \in unwinding
  BY <1>5 DEF RunCoro, TypeOK
<1>6. ASSUME NEW t \in UserTask, StoreHassContext(t) PROVE Still
  BY <1>6 DEF StoreHassContext, flow
<1>7. CASE ReaperCancels
  <2>1. Condemned(Head(task_reaper_q))
    BY <1>7 DEF ReaperCancels, Condemned, TypeOK
  <2> QED BY <1>7, <2>1 DEF ReaperCancels
<1>8. CASE ReaperAwaited \/ ReaperExits \/ ReaperStop
  BY <1>8 DEF ReaperAwaited, ReaperExits, ReaperStop, flow
<1>9. CASE UNCHANGED vars
  BY <1>9 DEF vars, flow
<1> QED
  <2>1. CASE \E t \in Task :
               UserStep(t) \/ BodyEnds(t) \/ BodyCancelled(t) \/ ThrowCancelled(t)
    BY <1>1, <1>2, <1>3, <2>1 DEF BodyEnds, BodyCancelled
  <2>2. CASE \E t \in UserTask :
               \/ \E withCtx \in BOOLEAN : CreateTask(t, withCtx)
               \/ StoreHassContext(t)
               \/ RunCoro(t)
               \/ CallbackReturns(t) \/ CallbackRaises(t)
               \/ CallbackCancelled(t)
    BY <1>1, <1>4, <1>5, <1>6, <2>2 DEF Task
  <2> QED BY <1>7, <1>8, <1>9, <2>1, <2>2 DEF Next

\* The reaper turns to another task only when the one it awaits is done.
LEMMA ReapingStep ==
  ASSUME TypeOK, [Next]_vars, reaping' # reaping
  PROVE  reaping = NoTask \/ pc[reaping] = "done"
<1>1. ASSUME NEW t \in Task, UserStep(t) PROVE reaping' = reaping
  <2>1. ASSUME NEW n \in Name, TaskUnique(t, n) PROVE reaping' = reaping
    BY <2>1 DEF TaskUnique, reaper_cancel, reaperVars
  <2> QED
    BY <1>1, <2>1 DEF UserStep, TaskUniqueKillMe, UserTaskCancel,
       UserTaskCancelSelf, AddDoneCallback, RemoveDoneCallback, Swallow,
       reaper_cancel, reaperVars
<1>2. ASSUME NEW t \in Task, LeaveBody(t) \/ ThrowCancelled(t)
      PROVE  reaping' = reaping
  BY <1>2 DEF LeaveBody, ThrowCancelled, reaperVars
<1>3. ASSUME NEW t \in UserTask,
             \/ \E withCtx \in BOOLEAN : CreateTask(t, withCtx)
             \/ StoreHassContext(t) \/ RunCoro(t) \/ CallbackReturns(t)
             \/ CallbackRaises(t) \/ CallbackCancelled(t)
      PROVE  reaping' = reaping
  BY <1>3 DEF CreateTask, StoreHassContext, RunCoro, CallbackReturns,
              CallbackRaises, CallbackCancelled, reaperVars
<1>4. CASE ReaperExits \/ ReaperStop \/ UNCHANGED vars
  BY <1>4 DEF ReaperExits, ReaperStop, vars, reaperVars
<1>5. CASE ReaperCancels \/ ReaperAwaited
  BY <1>5 DEF ReaperCancels, ReaperAwaited
<1> QED
  BY <1>1, <1>2, <1>3, <1>4, <1>5 DEF Next, BodyEnds, BodyCancelled

\* A task handed to the reaper stays so until it is done.
LEMMA CondemnedStep ==
  ASSUME TypeOK, [Next]_vars, NEW v \in Task
  PROVE  /\ Condemned(v) => Condemned(v)' \/ pc[v] = "done"
         /\ Condemned(v)' => Condemned(v) \/ v \in our_tasks \/ Active(v)
<1> DEFINE Kept ==
      /\ Condemned(v) => Condemned(v)'
      /\ Condemned(v)' => Condemned(v) \/ v \in our_tasks \/ Active(v)
<1>a. v # NoTask /\ v # Exit
  BY TaskAssumption
<1>1. ASSUME UNCHANGED reaperVars PROVE Kept
  BY <1>1 DEF Condemned, reaperVars
<1>2. ASSUME NEW u, u \in our_tasks \/ (u \in Task /\ Active(u)),
             task_reaper_q' = Append(task_reaper_q, u), reaping' = reaping
      PROVE  Kept
  <2>1. \A i \in DOMAIN task_reaper_q' :
          task_reaper_q'[i] = u \/ \E j \in DOMAIN task_reaper_q :
                                     task_reaper_q'[i] = task_reaper_q[j]
    BY <1>2 DEF TypeOK
  <2>2. \A i \in DOMAIN task_reaper_q :
          /\ i \in DOMAIN task_reaper_q'
          /\ task_reaper_q'[i] = task_reaper_q[i]
    BY <1>2 DEF TypeOK
  <2> QED BY <1>2, <2>1, <2>2 DEF Condemned
<1>3. ASSUME NEW t \in Task, UserStep(t) PROVE Kept
  <2>1. ASSUME NEW n \in Name, TaskUnique(t, n) PROVE Kept
    <3>1. CASE unique_name2task[n] \in our_tasks \ {t}
      BY <1>2, <2>1, <3>1 DEF TaskUnique, reaper_cancel
    <3>2. CASE unique_name2task[n] \notin our_tasks \ {t}
      BY <1>1, <2>1, <3>2 DEF TaskUnique
    <3> QED BY <3>1, <3>2
  <2>2. ASSUME NEW n \in Name, TaskUniqueKillMe(t, n) PROVE Kept
    BY <1>2, <2>2 DEF TaskUniqueKillMe, reaper_cancel
  <2>3. ASSUME NEW u \in UserTask, UserTaskCancel(t, u) PROVE Kept
    BY <1>2, <2>3 DEF UserTaskCancel, reaper_cancel
  <2>4. ASSUME UserTaskCancelSelf(t) PROVE Kept
    BY <1>2, <2>4 DEF UserTaskCancelSelf, reaper_cancel
  <2>5. ASSUME NEW u \in UserTask, NEW cb \in Callback,
               AddDoneCallback(t, u, cb) \/ RemoveDoneCallback(t, u, cb)
        PROVE  Kept
    BY <1>1, <2>5 DEF AddDoneCallback, RemoveDoneCallback
  <2>6. ASSUME Swallow(t) PROVE Kept
    BY <1>1, <2>6 DEF Swallow
  <2> QED BY <1>3, <2>1, <2>2, <2>3, <2>4, <2>5, <2>6 DEF UserStep
<1>4. ASSUME NEW t \in Task, LeaveBody(t) \/ ThrowCancelled(t) PROVE Kept
  BY <1>1, <1>4 DEF LeaveBody, ThrowCancelled
<1>5. ASSUME NEW t \in UserTask,
             \/ \E withCtx \in BOOLEAN : CreateTask(t, withCtx)
             \/ StoreHassContext(t) \/ RunCoro(t) \/ CallbackReturns(t)
             \/ CallbackRaises(t) \/ CallbackCancelled(t)
      PROVE  Kept
  BY <1>1, <1>5 DEF CreateTask, StoreHassContext, RunCoro, CallbackReturns,
                    CallbackRaises, CallbackCancelled
<1>6. ASSUME task_reaper_q # <<>>, task_reaper_q' = Tail(task_reaper_q)
      PROVE  /\ \A i \in DOMAIN task_reaper_q' :
                  \E j \in DOMAIN task_reaper_q :
                    task_reaper_q'[i] = task_reaper_q[j]
             /\ \A i \in DOMAIN task_reaper_q :
                  \/ task_reaper_q[i] = Head(task_reaper_q)
                  \/ \E j \in DOMAIN task_reaper_q' :
                       task_reaper_q'[j] = task_reaper_q[i]
             /\ \E i \in DOMAIN task_reaper_q :
                  task_reaper_q[i] = Head(task_reaper_q)
  <2> DEFINE q == task_reaper_q
  <2>1. /\ DOMAIN q = 1..Len(q) /\ Len(q) \in Nat /\ Len(q) >= 1
        /\ Head(q) = q[1]
        /\ DOMAIN q' = 1..(Len(q) - 1)
        /\ \A i \in 1..(Len(q) - 1) : q'[i] = q[i + 1]
    BY <1>6 DEF TypeOK
  <2>2. \A i \in DOMAIN q' : i + 1 \in DOMAIN q /\ q'[i] = q[i + 1]
    BY <2>1
  <2>3. \A i \in DOMAIN q : i = 1 \/ (i - 1 \in DOMAIN q' /\ q'[i - 1] = q[i])
    BY <2>1
  <2> QED BY <2>1, <2>2, <2>3
<1>7. CASE ReaperCancels
  BY <1>a, <1>6, <1>7 DEF ReaperCancels, Condemned
<1>8. CASE ReaperExits
  BY <1>a, <1>6, <1>8 DEF ReaperExits, Condemned
<1>9. CASE ReaperAwaited
  BY <1>a, <1>9 DEF ReaperAwaited, Condemned
<1>10. CASE ReaperStop
  <2>1. CASE task_reaper_q' = Append(task_reaper_q, Exit) /\ reaping' = reaping
    <3>1. \A i \in DOMAIN task_reaper_q' :
            task_reaper_q'[i] = Exit \/ \E j \in DOMAIN task_reaper_q :
                                     task_reaper_q'[i] = task_reaper_q[j]
      BY <2>1 DEF TypeOK
    <3>2. \A i \in DOMAIN task_reaper_q :
            /\ i \in DOMAIN task_reaper_q'
            /\ task_reaper_q'[i] = task_reaper_q[i]
      BY <2>1 DEF TypeOK
    <3> QED BY <1>a, <2>1, <3>1, <3>2 DEF Condemned
  <2>2. CASE UNCHANGED <<task_reaper_q, reaping>>
    BY <2>2 DEF Condemned
  <2> QED BY <1>10, <2>1, <2>2 DEF ReaperStop
<1>11. CASE UNCHANGED vars
  BY <1>1, <1>11 DEF vars
<1> QED
  BY <1>3, <1>4, <1>5, <1>7, <1>8, <1>9, <1>10, <1>11
     DEF Next, BodyEnds, BodyCancelled
-----------------------------------------------------------------------------
(* The inductive invariant. *)

\* Every step keeps OnlyStarted.
LEMMA OnlyStartedNext ==
  ASSUME TypeOK, OnlyStartedCancelled, [Next]_vars
  PROVE  OnlyStartedCancelled'
<1> SUFFICES ASSUME NEW v \in Task
    PROVE /\ v \in our_tasks' \/ Condemned(v)' => pc'[v] \notin {"none", "created"}
          /\ v \in cancelling' \cup unwinding' =>
               pc'[v] \in {"running", "callback"}
  BY DEF OnlyStartedCancelled
<1>1. v \in our_tasks' /\ v \notin our_tasks => pc'[v] = "running"
  BY RegistryStep DEF TypeOK, Release, Task
<1>2. Condemned(v)' /\ ~Condemned(v) /\ v \notin our_tasks =>
        pc[v] \in {"running", "callback"}
  BY CondemnedStep DEF Active
<1>3. pc'[v] \in {"none", "created"} => pc[v] \in {"none", "created"}
  BY FlowStep
<1>4. v \in our_tasks' \/ Condemned(v)' => pc'[v] \notin {"none", "created"}
  BY <1>1, <1>2, <1>3 DEF OnlyStartedCancelled
<1>5. ASSUME v \in cancelling' \cup unwinding'
      PROVE  pc'[v] \in {"running", "callback"}
  BY <1>5, FlowStep DEF OnlyStartedCancelled, TypeOK
<1> QED BY <1>4, <1>5

\* Every step keeps OneAtATime.
LEMMA OneAtATimeNext ==
  ASSUME TypeOK, OnlyStartedCancelled, CancelledOneAtATime, [Next]_vars
  PROVE  CancelledOneAtATime'
<1> SUFFICES ASSUME NEW v \in cancelling' \cup unwinding' PROVE v = reaping'
  BY DEF CancelledOneAtATime
<1>1. v \in Task /\ v # NoTask
  BY TypeNext, TaskAssumption DEF TypeOK
<1>2. \/ v \in cancelling \cup unwinding
      \/ reaping' = v
  BY <1>1, FlowStep
<1>3. CASE v \in cancelling \cup unwinding
  <2>1. v = reaping /\ pc[v] # "done"
    BY <1>1, <1>3 DEF CancelledOneAtATime, OnlyStartedCancelled
  <2> QED BY <1>1, <2>1, ReapingStep
<1> QED BY <1>2, <1>3

\* Every step keeps OneLiveClaimant.
LEMMA OneLiveClaimantNext ==
  ASSUME IInv, [Next]_vars
  PROVE  OneLiveClaimant'
<1> USE DEF IInv
<1> SUFFICES ASSUME NEW v \in UserTask, NEW n \in claimed'[v]
    PROVE  unique_name2task'[n] = v \/ pc'[v] = "done" \/ Condemned(v)'
  BY DEF OneLiveClaimant
<1>1. n \in Name
  BY TypeNext DEF TypeOK
<1>2. v \in Task
  BY DEF Task
<1>3. pc[v] = "done" => pc'[v] = "done"
  BY <1>2, FlowStep
<1>4. Condemned(v) => Condemned(v)' \/ pc'[v] = "done"
  BY <1>2, <1>3, CondemnedStep
<1>5. n \in claimed[v] =>
        unique_name2task[n] = v \/ pc[v] = "done" \/ Condemned(v)
  BY DEF OneLiveClaimant
<1>6. CASE UNCHANGED <<unique_name2task, claimed>>
  BY <1>3, <1>4, <1>5, <1>6
<1>7. ASSUME NEW t \in our_tasks, NEW m \in Name, TaskUnique(t, m), Own(t, m)
      PROVE  unique_name2task'[n] = v \/ pc'[v] = "done" \/ Condemned(v)'
  <2>1. t \in UserTask
    BY DEF TypeOK
  <2>2. unique_name2task'[n] = IF n = m THEN t ELSE unique_name2task[n]
    BY <1>1, <1>7 DEF Own, TypeOK
  <2>3. n \in claimed[v] \/ (v = t /\ n = m)
    BY <1>7, <2>1 DEF Own, TypeOK
  <2>4. CASE v = t /\ n = m
    BY <2>2, <2>4
  <2>5. CASE n \in claimed[v] /\ unique_name2task[n] # v
    BY <1>3, <1>4, <1>5, <2>5
  <2>6. CASE n # m /\ unique_name2task[n] = v
    BY <2>2, <2>6
  <2>7. CASE n = m /\ v # t /\ unique_name2task[n] = v
    <3>1. v \in our_tasks \ {t}
      BY <1>1, <1>2, <2>7, TaskAssumption DEF OwnersAreOurs
    <3>2. task_reaper_q' = Append(task_reaper_q, v)
      BY <1>7, <2>7, <3>1 DEF TaskUnique, reaper_cancel
    <3>3. Condemned(v)'
      <4>1. /\ Len(task_reaper_q) + 1 \in DOMAIN task_reaper_q'
            /\ task_reaper_q'[Len(task_reaper_q) + 1] = v
        BY <3>2 DEF TypeOK
      <4> QED BY <4>1 DEF Condemned
    <3> QED BY <3>3
  <2> QED BY <2>3, <2>4, <2>5, <2>6, <2>7
<1>8. ASSUME NEW t \in UserTask, Release(t), UNCHANGED claimed
      PROVE  unique_name2task'[n] = v \/ pc'[v] = "done" \/ Condemned(v)'
  <2>1. pc'[t] = "done"
    BY <1>8 DEF Release, TypeOK, Task
  <2>2. unique_name2task'[n] = unique_name2task[n] \/ unique_name2task[n] = t
    BY <1>1, <1>8 DEF Release, NameMapsAgree
  <2> QED BY <1>3, <1>4, <1>5, <1>8, <2>1, <2>2
<1> QED BY <1>6, <1>7, <1>8, RegistryStep
\* A task that was already running its callbacks, or is done, keeps to that;
\* one that leaves its body without callbacks has released everything.
LEMMA CleanNext ==
  ASSUME IInv, [Next]_vars
  PROVE  CallbackSized' /\ CleanWithoutCallbacks'
<1> USE DEF IInv
<1> DEFINE Clean(v) == /\ v \notin our_tasks \cup cb_tasks \cup task2context
                       /\ \A n \in Name : unique_name2task[n] # v
           Good(v) == /\ pc[v] = "callback" => cb_size[v] # 0
                      /\ pc[v] = "done" /\ cb_size[v] = 0 => Clean(v)
<1> SUFFICES ASSUME NEW v \in UserTask PROVE Good(v)'
  BY DEF CallbackSized, CleanWithoutCallbacks
<1>a. Good(v)
  BY DEF CallbackSized, CleanWithoutCallbacks
<1>b. v \in Task /\ v # NoTask
  BY TaskAssumption DEF Task
<1>1. ASSUME NEW t \in UserTask, Release(t)
      PROVE  /\ Clean(t)'
             /\ t # v => pc'[v] = pc[v] /\ (Clean(v) => Clean(v)')
  <2>1. Clean(t)'
    BY <1>1, TaskAssumption DEF Release, NameMapsAgree, TypeOK, Task
  <2>2. t # v => pc'[v] = pc[v] /\ (Clean(v) => Clean(v)')
    BY <1>1, <1>b DEF Release, TypeOK
  <2> QED BY <2>1, <2>2
<1>2. ASSUME UNCHANGED registry, UNCHANGED cb_size, pc'[v] = pc[v]
      PROVE  Good(v)'
  BY <1>a, <1>2 DEF registry
<1>3. ASSUME NEW t \in Task, LeaveBody(t) PROVE Good(v)'
  <2>1. CASE t = v
    <3>1. NextCallback(v, {}) /\ cb_size'[v] = Cardinality(task2cb[v])
      BY <1>3, <2>1 DEF LeaveBody, TypeOK
    <3>2. Cardinality(task2cb[v]) = 0 <=> task2cb[v] = {}
      BY SizeIsNat DEF TypeOK
    <3>3. CASE Release(v)
      <4>1. pc'[v] = "done"
        BY <1>b, <3>3 DEF Release, TypeOK
      <4> QED BY <1>1, <3>3, <4>1
    <3>4. CASE task2cb[v] # {} /\ pc' = [pc EXCEPT ![v] = "callback"]
      <4>1. pc'[v] = "callback"
        BY <1>b, <3>4 DEF TypeOK
      <4> QED BY <3>1, <3>2, <3>4, <4>1
    <3> QED BY <3>1, <3>3, <3>4 DEF NextCallback
  <2>2. CASE t # v /\ t \in UserTask
    <3>1. NextCallback(t, {}) /\ cb_size'[v] = cb_size[v]
      BY <1>3, <2>2 DEF LeaveBody, TypeOK
    <3>2. CASE Release(t)
      BY <1>a, <1>1, <2>2, <3>1, <3>2
    <3>3. CASE UNCHANGED registry /\ pc' = [pc EXCEPT ![t] = "callback"]
      BY <1>a, <2>2, <3>1, <3>3 DEF registry, TypeOK
    <3> QED BY <3>1, <3>2, <3>3 DEF NextCallback
  <2>3. CASE t \notin UserTask
    <3>1. UNCHANGED registry /\ UNCHANGED cb_size
      BY <1>3, <2>3 DEF LeaveBody, Abandon
    <3>2. pc'[v] = pc[v]
      <4>1. pc' = [pc EXCEPT ![t] = "done"]
        BY <1>3, <2>3 DEF LeaveBody, Abandon
      <4> QED BY <1>b, <2>3, <4>1 DEF TypeOK
    <3> QED BY <1>2, <3>1, <3>2
  <2> QED BY <2>1, <2>2, <2>3
<1>4. ASSUME NEW t \in UserTask,
             CallbackReturns(t) \/ CallbackRaises(t) \/ CallbackCancelled(t)
      PROVE  Good(v)'
  <2>1. pc[t] = "callback" /\ UNCHANGED cb_size
    BY <1>4 DEF CallbackReturns, CallbackRaises, CallbackCancelled
  <2>2. cb_size[t] # 0
    BY <2>1 DEF CallbackSized
  <2>3. CASE t = v
    BY <2>1, <2>2, <2>3
  <2>4. CASE t # v /\ Release(t)
    BY <1>a, <1>1, <2>1, <2>4
  <2>5. CASE /\ t # v
             /\ \E st \in {"callback", "done"} : pc' = [pc EXCEPT ![t] = st]
             /\ UNCHANGED registry
    BY <1>2, <2>1, <2>5 DEF TypeOK
  <2> QED
    BY <1>4, <2>3, <2>4, <2>5 DEF CallbackReturns, CallbackRaises,
       CallbackCancelled, NextCallback, Abandon
<1>5. ASSUME NEW t \in Task, UserStep(t) PROVE Good(v)'
  <2>1. ASSUME NEW n \in Name, TaskUnique(t, n) PROVE Good(v)'
    <3>1. UNCHANGED <<our_tasks, cb_tasks, task2context, pc, cb_size>>
      BY <2>1 DEF TaskUnique, flow
    <3>2. CASE v = t
      BY <1>a, <2>1, <3>1, <3>2 DEF TaskUnique, Active
    <3>3. CASE v # t
      <4>1. \A m \in Name : unique_name2task'[m] \in {unique_name2task[m], t}
        <5>1. CASE t \in our_tasks
          <6>1. unique_name2task' = [unique_name2task EXCEPT ![n] = t]
            BY <2>1, <5>1 DEF TaskUnique, Own
          <6> QED BY <6>1 DEF TypeOK
        <5>2. CASE t \notin our_tasks
          BY <2>1, <5>2 DEF TaskUnique
        <5> QED BY <5>1, <5>2
      <4> QED BY <1>a, <3>1, <3>3, <4>1
    <3> QED BY <3>2, <3>3
  <2>2. ASSUME NEW u \in UserTask, NEW cb \in Callback,
               AddDoneCallback(t, u, cb) \/ RemoveDoneCallback(t, u, cb)
        PROVE  Good(v)'
    BY <1>a, <2>2 DEF AddDoneCallback, RemoveDoneCallback, flow
  <2>3. ASSUME \/ \E n \in Name : TaskUniqueKillMe(t, n)
               \/ \E u \in UserTask : UserTaskCancel(t, u)
               \/ UserTaskCancelSelf(t)
               \/ Swallow(t)
        PROVE  Good(v)'
    <3>1. UNCHANGED registry /\ UNCHANGED cb_size /\ pc'[v] = pc[v]
      BY <2>3 DEF TaskUniqueKillMe, UserTaskCancel, UserTaskCancelSelf,
                  Swallow, flow
    <3> QED BY <1>2, <3>1
  <2> QED BY <1>5, <2>1, <2>2, <2>3, TaskAssumption DEF UserStep
<1>6. ASSUME NEW t \in Task, ThrowCancelled(t) PROVE Good(v)'
  <2>1. pc[t] # "created"
    BY <1>6 DEF ThrowCancelled, OnlyStartedCancelled
  <2> QED BY <1>2, <1>6, <2>1 DEF ThrowCancelled
<1>7. ASSUME NEW t \in UserTask, \E withCtx \in BOOLEAN : CreateTask(t, withCtx)
      PROVE  Good(v)'
  BY <1>a, <1>b, <1>7 DEF CreateTask, TypeOK
<1>8. ASSUME NEW t \in UserTask, RunCoro(t) PROVE Good(v)'
  BY <1>a, <1>b, <1>8 DEF RunCoro, TypeOK
<1>9. ASSUME NEW t \in UserTask, StoreHassContext(t) PROVE Good(v)'
  BY <1>a, <1>9 DEF StoreHassContext, flow
<1>10. CASE ReaperCancels \/ ReaperAwaited \/ ReaperExits \/ ReaperStop
  BY <1>2, <1>10 DEF ReaperCancels, ReaperAwaited, ReaperExits, ReaperStop,
                     flow
<1>11. CASE UNCHANGED vars
  BY <1>2, <1>11 DEF vars, flow
<1> QED
  <2>1. CASE \E t \in Task :
               UserStep(t) \/ BodyEnds(t) \/ BodyCancelled(t) \/ ThrowCancelled(t)
    BY <1>3, <1>5, <1>6, <2>1 DEF BodyEnds, BodyCancelled
  <2>2. CASE \E t \in UserTask :
               \/ \E withCtx \in BOOLEAN : CreateTask(t, withCtx)
               \/ StoreHassContext(t)
               \/ RunCoro(t)
               \/ CallbackReturns(t) \/ CallbackRaises(t)
               \/ CallbackCancelled(t)
    BY <1>4, <1>7, <1>8, <1>9, <2>2
  <2> QED BY <1>10, <1>11, <2>1, <2>2 DEF Next

\* The invariant holds in every reachable state.
THEOREM Invariance == Spec => []IInv
<1>1. Init => IInv
  <2> SUFFICES ASSUME Init PROVE IInv
    OBVIOUS
  <2>1. TypeOK
    BY TypeInit
  <2>2. NameMapsAgree /\ OwnersAreOurs
    BY TaskAssumption DEF Init, NameMapsAgree, OwnersAreOurs, Task
  <2>3. OnlyStartedCancelled
    BY TaskAssumption DEF Init, OnlyStartedCancelled, Condemned, Task
  <2>4. /\ CancelledOneAtATime /\ OneLiveClaimant
        /\ CallbackSized /\ CleanWithoutCallbacks
    BY DEF Init, CancelledOneAtATime, OneLiveClaimant, CallbackSized,
           CleanWithoutCallbacks, Task
  <2> QED BY <2>1, <2>2, <2>3, <2>4 DEF IInv
<1>2. IInv /\ [Next]_vars => IInv'
  BY TypeNext, NamesNext, OnlyStartedNext, OneAtATimeNext,
     OneLiveClaimantNext, CleanNext DEF IInv
<1> QED BY <1>1, <1>2, PTL DEF Spec

\* No two live tasks share a unique name, unless the earlier one is already
\* on its way to be cancelled.
THEOREM UniqueNames == Spec => []OneLiveClaimant
<1>1. IInv => OneLiveClaimant
  BY DEF IInv
<1> QED BY <1>1, Invariance, PTL

\* The reaper has one victim at a time.
THEOREM OneVictim == Spec => []CancelledOneAtATime
<1>1. IInv => CancelledOneAtATime
  BY DEF IInv
<1> QED BY <1>1, Invariance, PTL

\* Without done callbacks nothing of a task outlives it.
THEOREM NothingLeft == Spec => []CleanWithoutCallbacks
<1>1. IInv => CleanWithoutCallbacks
  BY DEF IInv
<1> QED BY <1>1, Invariance, PTL

\* Owners of names are always in our_tasks.
THEOREM OwnersRegistered == Spec => []OwnersAreOurs
<1>1. IInv => OwnersAreOurs
  BY DEF IInv
<1> QED BY <1>1, Invariance, PTL

\* A name is freed by the step in which its owner, until then not done, ends.
THEOREM NamesFreed == Spec => NamesFreedByTheirOwner
<1> DEFINE Freed ==
      \A n \in Name :
        unique_name2task[n] # NoTask /\ unique_name2task'[n] = NoTask =>
          /\ pc[unique_name2task[n]] # "done"
          /\ pc'[unique_name2task[n]] = "done"
<1>1. IInv /\ [Next]_vars => [Freed]_vars
  <2> SUFFICES ASSUME IInv, [Next]_vars, NEW n \in Name,
                      unique_name2task[n] # NoTask,
                      unique_name2task'[n] = NoTask
      PROVE  /\ pc[unique_name2task[n]] # "done"
             /\ pc'[unique_name2task[n]] = "done"
    OBVIOUS
  <2>1. CASE UNCHANGED unique_name2task
    BY <2>1
  <2>2. ASSUME NEW t \in our_tasks, NEW m \in Name, Own(t, m) PROVE FALSE
    <3>1. unique_name2task' = [unique_name2task EXCEPT ![m] = t]
      BY <2>2 DEF Own
    <3>2. t # NoTask
      BY TaskAssumption DEF IInv, TypeOK, Task
    <3> QED BY <3>1, <3>2 DEF IInv, TypeOK
  <2>3. ASSUME NEW t \in UserTask, Release(t), pc[t] # "done"
        PROVE  /\ pc[unique_name2task[n]] # "done"
               /\ pc'[unique_name2task[n]] = "done"
    <3>1. n \in unique_task2name[t]
      BY <2>3 DEF Release
    <3>2. unique_name2task[n] = t
      BY <3>1 DEF IInv, NameMapsAgree
    <3>3. pc'[t] = "done"
      BY <2>3 DEF Release, IInv, TypeOK, Task
    <3> QED BY <2>3, <3>2, <3>3
  <2> QED BY <2>1, <2>2, <2>3, RegistryStep DEF IInv
<1> QED BY <1>1, Invariance, PTL DEF Spec, NamesFreedByTheirOwner
=============================================================================
