--------------------------- MODULE TaskFunctions ---------------------------
(***************************************************************************)
(* The tasks of pyscript as custom_components/pyscript/function.py keeps   *)
(* them: Function.run_coro wraps every user task, task.unique and          *)
(* task.cancel hand their victims to the reaper task, done callbacks run   *)
(* in run_coro's finally clause.                                           *)
(*                                                                         *)
(* A step is what one asyncio task does between two suspension points.     *)
(* User code is any sequence of the operations below; a step of it may be  *)
(* taken in the function body, in a finally block that runs because of a   *)
(* CancelledError, or in a done callback.                                  *)
(***************************************************************************)
EXTENDS Naturals, Sequences, FiniteSets

CONSTANTS
  UserTask,     \* tasks made by Function.create_task, each used once
  OuterTask,    \* tasks of HASS or Jupyter that evaluate a file or a cell
  Name,         \* names given to task.unique, prefixed by the global context
  Callback,     \* functions given to task.add_done_callback
  Removable,    \* those also given to task.remove_done_callback
  NoTask,       \* "no such key" in unique_name2task, "no task" for the reaper
  Exit,         \* the ["exit"] command of the reaper queue
  Swallower,    \* tasks whose code may return out of a finally block
  MaxQueue      \* bound on the length of the reaper queue

Task == UserTask \cup OuterTask

ASSUME TaskAssumption ==
  /\ UserTask \cap OuterTask = {}
  /\ NoTask \notin Task
  /\ Exit \notin Task
  /\ Swallower \subseteq Task
  /\ Removable \subseteq Callback
  /\ IsFiniteSet(Callback)
  /\ MaxQueue \in Nat

VARIABLES
  pc,                \* where each task is
  our_tasks,         \* Function.our_tasks
  unique_name2task,  \* Function.unique_name2task, NoTask for a missing key
  unique_task2name,  \* Function.unique_task2name, {} for a missing key
  cb_tasks,          \* the keys of Function.task2cb
  task2cb,           \* Function.task2cb[t]["cb"], {} for a missing key
  task2context,      \* the keys of Function.task2context
  task_reaper_q,     \* Function.task_reaper_q: tasks to cancel, and Exit
  task_reaper,       \* the life of the reaper task
  reaping,           \* the task the reaper has cancelled and awaits
  cancelling,        \* tasks with a CancelledError about to be thrown in
  unwinding,         \* tasks whose user code is running its finally blocks
  asleep,            \* tasks in asyncio.sleep(100000), waiting to be cancelled
  called,            \* done callbacks already called by each task's finally
  cb_size,           \* size of task2cb[t]["cb"] when its iteration began
  claimed            \* history: the names each task ever owned

registry == <<our_tasks, unique_name2task, unique_task2name, cb_tasks,
              task2cb, task2context>>
reaperVars == <<task_reaper_q, task_reaper, reaping>>
flow == <<pc, cancelling, unwinding, asleep, called, cb_size>>
vars == <<registry, reaperVars, flow, claimed>>

TypeOK ==
  /\ pc \in [Task -> {"none", "created", "running", "callback", "done"}]
  /\ our_tasks \subseteq UserTask
  /\ unique_name2task \in [Name -> UserTask \cup {NoTask}]
  /\ unique_task2name \in [UserTask -> SUBSET Name]
  /\ cb_tasks \subseteq UserTask
  /\ task2cb \in [UserTask -> SUBSET Callback]
  /\ task2context \subseteq UserTask
  /\ task_reaper_q \in Seq(Task \cup {Exit})
  /\ task_reaper \in {"up", "stopping", "exited", "gone"}
  /\ reaping \in Task \cup {NoTask}
  /\ cancelling \subseteq Task
  /\ unwinding \subseteq Task
  /\ asleep \subseteq Task
  /\ called \in [UserTask -> SUBSET Callback]
  /\ cb_size \in [UserTask -> Nat]
  /\ claimed \in [UserTask -> SUBSET Name]

Init ==
  /\ pc = [t \in Task |-> IF t \in OuterTask THEN "running" ELSE "none"]
  /\ our_tasks = {}
  /\ unique_name2task = [n \in Name |-> NoTask]
  /\ unique_task2name = [t \in UserTask |-> {}]
  /\ cb_tasks = {}
  /\ task2cb = [t \in UserTask |-> {}]
  /\ task2context = {}
  /\ task_reaper_q = <<>>
  /\ task_reaper = "up"
  /\ reaping = NoTask
  /\ cancelling = {}
  /\ unwinding = {}
  /\ asleep = {}
  /\ called = [t \in UserTask |-> {}]
  /\ cb_size = [t \in UserTask |-> 0]
  /\ claimed = [t \in UserTask |-> {}]

-----------------------------------------------------------------------------
(* Helpers *)

\* t is executing user code and its next step is not a CancelledError.
Active(t) ==
  /\ pc[t] \in {"running", "callback"}
  /\ t \notin asleep \cup cancelling

\* Function.reaper_cancel.  Once reaper_stop has returned there is no queue
\* and the call raises, so no step of user code gets past it.
reaper_cancel(t) ==
  /\ task_reaper # "gone"
  /\ Len(task_reaper_q) < MaxQueue
  /\ task_reaper_q' = Append(task_reaper_q, t)
  /\ UNCHANGED <<task_reaper, reaping>>

\* Mutated form of Own: the old owner keeps the name in its own set.
OwnKeepingOldOwner(t, n) ==
  /\ unique_task2name' = [unique_task2name EXCEPT ![t] = @ \cup {n}]
  /\ unique_name2task' = [unique_name2task EXCEPT ![n] = t]
  /\ claimed' = [claimed EXCEPT ![t] = @ \cup {n}]

\* The tail of task.unique: name passes from its present owner to t.
Own(t, n) ==
  LET owner == unique_name2task[n] IN
  /\ unique_task2name' = [u \in UserTask |->
        IF u = t THEN unique_task2name[u] \cup {n}
        ELSE IF u = owner THEN unique_task2name[u] \ {n}
        ELSE unique_task2name[u]]
  /\ unique_name2task' = [unique_name2task EXCEPT ![n] = t]
  /\ claimed' = [claimed EXCEPT ![t] = @ \cup {n}]

-----------------------------------------------------------------------------
(* Operations of user code *)

\* Mutated form of TaskUnique: the owner is looked up after the claim.
TaskUniqueClaimFirst(t, n) ==
  /\ Active(t)
  /\ t \in our_tasks
  /\ Own(t, n)
  /\ IF unique_name2task'[n] \in our_tasks \ {t}
       THEN reaper_cancel(unique_name2task'[n])
       ELSE UNCHANGED reaperVars
  /\ UNCHANGED <<our_tasks, cb_tasks, task2cb, task2context, flow>>

\* Mutated form of TaskUnique: any task may own a name.
TaskUniqueOuterOwner(t, n) ==
  /\ Active(t)
  /\ IF unique_name2task[n] \in our_tasks \ {t}
       THEN reaper_cancel(unique_name2task[n])
       ELSE UNCHANGED reaperVars
  /\ Own(t, n)
  /\ UNCHANGED <<our_tasks, cb_tasks, task2cb, task2context, flow>>

\* task.unique(n), and task.unique(n, kill_me=True) when no other task owns n.
TaskUnique(t, n) ==
  LET owner == unique_name2task[n] IN
  /\ Active(t)
  /\ IF owner \in our_tasks \ {t}
       THEN reaper_cancel(owner)
       ELSE UNCHANGED reaperVars
  /\ IF t \in our_tasks
       THEN Own(t, n)
       ELSE UNCHANGED <<unique_name2task, unique_task2name, claimed>>
  /\ UNCHANGED <<our_tasks, cb_tasks, task2cb, task2context, flow>>

\* task.unique(n, kill_me=True) when another task owns n.
TaskUniqueKillMe(t, n) ==
  /\ Active(t)
  /\ unique_name2task[n] \notin {NoTask, t}
  /\ reaper_cancel(t)
  /\ asleep' = asleep \cup {t}
  /\ UNCHANGED <<registry, pc, cancelling, unwinding, called, cb_size, claimed>>

\* task.cancel(u); a task that is not in our_tasks gets a TypeError instead.
UserTaskCancel(t, u) ==
  /\ Active(t)
  /\ u \in our_tasks
  /\ reaper_cancel(u)
  /\ UNCHANGED <<registry, flow, claimed>>

\* task.cancel() without an argument.
UserTaskCancelSelf(t) ==
  /\ Active(t)
  /\ t \in our_tasks
  /\ reaper_cancel(t)
  /\ asleep' = asleep \cup {t}
  /\ UNCHANGED <<registry, pc, cancelling, unwinding, called, cb_size, claimed>>

\* task.create or a trigger's dispatch (withCtx), or the call of a
\* @service function (which gives create_task no ast_ctx).
CreateTask(t, withCtx) ==
  /\ pc[t] = "none"
  /\ pc' = [pc EXCEPT ![t] = "created"]
  /\ cb_tasks' = IF withCtx THEN cb_tasks \cup {t} ELSE cb_tasks
  /\ UNCHANGED <<our_tasks, unique_name2task, unique_task2name, task2cb,
                 task2context, reaperVars, cancelling, unwinding, asleep,
                 called, cb_size, claimed>>

\* task.add_done_callback(u, cb); KeyError when u has no entry in task2cb.
AddDoneCallback(t, u, cb) ==
  /\ Active(t)
  /\ u \in cb_tasks
  /\ task2cb' = [task2cb EXCEPT ![u] = @ \cup {cb}]
  /\ UNCHANGED <<our_tasks, unique_name2task, unique_task2name, cb_tasks,
                 task2context, reaperVars, flow, claimed>>

\* task.remove_done_callback(u, cb).  A callback that was already called and
\* is added again goes to the end of the dict, so it counts as not called.
RemoveDoneCallback(t, u, cb) ==
  /\ Active(t)
  /\ u \in cb_tasks
  /\ task2cb' = [task2cb EXCEPT ![u] = @ \ {cb}]
  /\ called' = [called EXCEPT ![u] = @ \ {cb}]
  /\ UNCHANGED <<our_tasks, unique_name2task, unique_task2name, cb_tasks,
                 task2context, reaperVars, pc, cancelling, unwinding, asleep,
                 cb_size, claimed>>

\* store_hass_context, called by a triggered function's task.
StoreHassContext(t) ==
  /\ Active(t)
  /\ pc[t] = "running"
  /\ t \in our_tasks
  /\ task2context' = task2context \cup {t}
  /\ UNCHANGED <<our_tasks, unique_name2task, unique_task2name, cb_tasks,
                 task2cb, reaperVars, flow, claimed>>

-----------------------------------------------------------------------------
(* run_coro *)

\* The first step of a task.
RunCoro(t) ==
  /\ pc[t] = "created"
  /\ t \notin cancelling
  /\ pc' = [pc EXCEPT ![t] = "running"]
  /\ our_tasks' = our_tasks \cup {t}
  /\ UNCHANGED <<unique_name2task, unique_task2name, cb_tasks, task2cb,
                 task2context, reaperVars, cancelling, unwinding, asleep,
                 called, cb_size, claimed>>

\* Mutated form of Release: the loop over the task's names is missing.
ReleaseKeepingNames(t) ==
  /\ task2context' = task2context \ {t}
  /\ cb_tasks' = cb_tasks \ {t}
  /\ task2cb' = [task2cb EXCEPT ![t] = {}]
  /\ our_tasks' = our_tasks \ {t}
  /\ pc' = [pc EXCEPT ![t] = "done"]
  /\ UNCHANGED <<unique_name2task, unique_task2name>>

\* Mutated form of Release: task2context.pop is missing.
ReleaseKeepingContext(t) ==
  /\ unique_name2task' = [n \in Name |->
        IF n \in unique_task2name[t] THEN NoTask ELSE unique_name2task[n]]
  /\ unique_task2name' = [unique_task2name EXCEPT ![t] = {}]
  /\ cb_tasks' = cb_tasks \ {t}
  /\ task2cb' = [task2cb EXCEPT ![t] = {}]
  /\ our_tasks' = our_tasks \ {t}
  /\ pc' = [pc EXCEPT ![t] = "done"]
  /\ UNCHANGED task2context

\* The end of run_coro's finally clause.
Release(t) ==
  /\ unique_name2task' = [n \in Name |->
        IF n \in unique_task2name[t] THEN NoTask ELSE unique_name2task[n]]
  /\ unique_task2name' = [unique_task2name EXCEPT ![t] = {}]
  /\ task2context' = task2context \ {t}
  /\ cb_tasks' = cb_tasks \ {t}
  /\ task2cb' = [task2cb EXCEPT ![t] = {}]
  /\ our_tasks' = our_tasks \ {t}
  /\ pc' = [pc EXCEPT ![t] = "done"]

\* An exception leaves the finally clause before its end: nothing is released.
Abandon(t) ==
  /\ pc' = [pc EXCEPT ![t] = "done"]
  /\ UNCHANGED registry

\* The loop over the done callbacks goes on to one that was not called yet,
\* or it is over.
NextCallback(t, seen) ==
  \/ \E cb \in task2cb[t] \ seen :
       /\ pc' = [pc EXCEPT ![t] = "callback"]
       /\ called' = [called EXCEPT ![t] = seen \cup {cb}]
       /\ UNCHANGED registry
  \/ /\ task2cb[t] \subseteq seen
     /\ Release(t)
     /\ UNCHANGED called

\* The coroutine of t is over, with a result, an exception or CancelledError.
LeaveBody(t) ==
  /\ Active(t)
  /\ pc[t] = "running"
  /\ unwinding' = unwinding \ {t}
  /\ IF t \in UserTask
       THEN /\ NextCallback(t, {})
            /\ cb_size' = [cb_size EXCEPT ![t] = Cardinality(task2cb[t])]
       ELSE /\ Abandon(t)
            /\ UNCHANGED <<called, cb_size>>
  /\ UNCHANGED <<reaperVars, cancelling, asleep, claimed>>

\* The body returns or raises on its own.
BodyEnds(t) == t \notin unwinding /\ LeaveBody(t)

\* The body has run its finally blocks and the CancelledError leaves it.
BodyCancelled(t) == t \in unwinding /\ LeaveBody(t)

\* A done callback returns.  The iteration notices a dict that changed size.
CallbackReturns(t) ==
  /\ Active(t)
  /\ pc[t] = "callback"
  /\ t \notin unwinding
  /\ IF Cardinality(task2cb[t]) = cb_size[t]
       THEN NextCallback(t, called[t])
       ELSE Abandon(t) /\ UNCHANGED called
  /\ UNCHANGED <<reaperVars, cancelling, unwinding, asleep, cb_size, claimed>>

\* A done callback raises an Exception: it is logged and the loop is left.
CallbackRaises(t) ==
  /\ Active(t)
  /\ pc[t] = "callback"
  /\ t \notin unwinding
  /\ Release(t)
  /\ UNCHANGED <<reaperVars, cancelling, unwinding, asleep, called, cb_size,
                 claimed>>

\* A CancelledError leaves a done callback; run_coro does not catch it there.
CallbackCancelled(t) ==
  /\ Active(t)
  /\ pc[t] = "callback"
  /\ t \in unwinding
  /\ unwinding' = unwinding \ {t}
  /\ Abandon(t)
  /\ UNCHANGED <<reaperVars, cancelling, asleep, called, cb_size, claimed>>

\* asyncio throws the CancelledError into t: at its suspension point, or
\* before its first step, in which case run_coro is never entered.
ThrowCancelled(t) ==
  /\ t \in cancelling
  /\ cancelling' = cancelling \ {t}
  /\ asleep' = asleep \ {t}
  /\ IF pc[t] = "created"
       THEN /\ pc' = [pc EXCEPT ![t] = "done"]
            /\ UNCHANGED unwinding
       ELSE /\ unwinding' = unwinding \cup {t}
            /\ UNCHANGED pc
  /\ UNCHANGED <<registry, reaperVars, called, cb_size, claimed>>

\* A return statement in a finally block drops the CancelledError.
Swallow(t) ==
  /\ Active(t)
  /\ t \in unwinding \cap Swallower
  /\ unwinding' = unwinding \ {t}
  /\ UNCHANGED <<registry, reaperVars, pc, cancelling, asleep, called,
                 cb_size, claimed>>

-----------------------------------------------------------------------------
(* The reaper task *)

\* Mutated form of ReaperCancels: the task is cancelled and not awaited.
ReaperCancelsWithoutWaiting ==
  /\ task_reaper \in {"up", "stopping"}
  /\ task_reaper_q # <<>>
  /\ Head(task_reaper_q) # Exit
  /\ task_reaper_q' = Tail(task_reaper_q)
  /\ reaping' = Head(task_reaper_q)
  /\ cancelling' = IF pc[reaping'] = "done" THEN cancelling
                   ELSE cancelling \cup {reaping'}
  /\ UNCHANGED <<registry, task_reaper, pc, unwinding, asleep, called, cb_size,
                 claimed>>

\* It takes a cancel command, cancels the task and starts to await it.
ReaperCancels ==
  /\ task_reaper \in {"up", "stopping"}
  /\ reaping = NoTask
  /\ task_reaper_q # <<>>
  /\ Head(task_reaper_q) # Exit
  /\ task_reaper_q' = Tail(task_reaper_q)
  /\ reaping' = Head(task_reaper_q)
  /\ cancelling' = IF pc[reaping'] = "done" THEN cancelling
                   ELSE cancelling \cup {reaping'}
  /\ UNCHANGED <<registry, task_reaper, pc, unwinding, asleep, called, cb_size,
                 claimed>>

\* Mutated form of ReaperAwaited: the CancelledError of the awaited task is
\* not caught and ends the reaper.
ReaperAwaitedAndGone ==
  /\ reaping # NoTask
  /\ pc[reaping] = "done"
  /\ reaping' = NoTask
  /\ task_reaper' = "exited"
  /\ UNCHANGED <<registry, task_reaper_q, flow, claimed>>

\* The awaited task is done, whatever its result.
ReaperAwaited ==
  /\ reaping # NoTask
  /\ pc[reaping] = "done"
  /\ reaping' = NoTask
  /\ UNCHANGED <<registry, task_reaper_q, task_reaper, flow, claimed>>

\* It takes the exit command.
ReaperExits ==
  /\ task_reaper = "stopping"
  /\ reaping = NoTask
  /\ task_reaper_q # <<>>
  /\ Head(task_reaper_q) = Exit
  /\ task_reaper_q' = Tail(task_reaper_q)
  /\ task_reaper' = "exited"
  /\ UNCHANGED <<registry, reaping, flow, claimed>>

\* Function.reaper_stop, up to its await of the reaper and after it.
ReaperStop ==
  \/ /\ task_reaper = "up"
     /\ Len(task_reaper_q) < MaxQueue
     /\ task_reaper_q' = Append(task_reaper_q, Exit)
     /\ task_reaper' = "stopping"
     /\ UNCHANGED <<registry, reaping, flow, claimed>>
  \/ /\ task_reaper = "exited"
     /\ task_reaper' = "gone"
     /\ UNCHANGED <<registry, task_reaper_q, reaping, flow, claimed>>

-----------------------------------------------------------------------------
UserStep(t) ==
  \/ \E n \in Name : TaskUnique(t, n) \/ TaskUniqueKillMe(t, n)
  \/ \E u \in UserTask : UserTaskCancel(t, u)
  \/ UserTaskCancelSelf(t)
  \/ \E u \in UserTask, cb \in Callback :
       \/ AddDoneCallback(t, u, cb)
       \/ cb \in Removable /\ RemoveDoneCallback(t, u, cb)
  \/ Swallow(t)

Next ==
  \/ \E t \in Task :
       UserStep(t) \/ BodyEnds(t) \/ BodyCancelled(t) \/ ThrowCancelled(t)
  \/ \E t \in UserTask :
       \/ \E withCtx \in BOOLEAN : CreateTask(t, withCtx)
       \/ StoreHassContext(t)
       \/ RunCoro(t)
       \/ CallbackReturns(t) \/ CallbackRaises(t) \/ CallbackCancelled(t)
  \/ ReaperCancels \/ ReaperAwaited \/ ReaperExits \/ ReaperStop

Spec == Init /\ [][Next]_vars

(* asyncio runs every task that can run.  User code is trusted to finish    *)
(* its finally blocks and its done callbacks, not its body: a body may loop *)
(* for ever, which is what task.unique and task.cancel are there to end.    *)
Fairness ==
  /\ WF_vars(ReaperCancels)
  /\ WF_vars(ReaperAwaited)
  /\ \A t \in Task :
       /\ WF_vars(ThrowCancelled(t))
       /\ WF_vars(BodyCancelled(t))
  /\ \A t \in UserTask :
       /\ WF_vars(RunCoro(t))
       /\ WF_vars(CallbackReturns(t))
       /\ WF_vars(CallbackCancelled(t))

FairSpec == Spec /\ Fairness
-----------------------------------------------------------------------------
(* Properties *)

\* A cancel of t has been handed to the reaper and t is not done yet, or the
\* reaper has stopped with the command still in its queue.
Condemned(t) ==
  \/ \E i \in DOMAIN task_reaper_q : task_reaper_q[i] = t
  \/ reaping = t

\* The two maps of task.unique are each other's inverse, so the `del` at
\* function.py:457-458 finds each name and removes no other task's name.
NameMapsAgree ==
  \A n \in Name, t \in UserTask :
    n \in unique_task2name[t] <=> unique_name2task[n] = t

\* Names belong to tasks in our_tasks: the `task in cls.our_tasks` test of
\* task.unique (function.py:249) never spares a running owner.
OwnersAreOurs ==
  \A n \in Name : unique_name2task[n] # NoTask =>
    unique_name2task[n] \in our_tasks

\* A task that lost a name it had claimed is on its way to be cancelled: two
\* tasks never go on side by side under one unique name, whatever the order
\* of their task.unique calls, of the reaper's cancels and of their ends.
OneLiveClaimant ==
  \A t \in UserTask : \A n \in claimed[t] :
    \/ unique_name2task[n] = t
    \/ pc[t] = "done"
    \/ Condemned(t)

\* The reaper cancels one task at a time and awaits its end, so a task gets no
\* second CancelledError while it is unwinding or running done callbacks.
CancelledOneAtATime == cancelling \cup unwinding \subseteq {reaping}

\* What a task registered is gone when it is done, if no done callback was
\* called at its end: run_coro is never left half way, nor cancelled before
\* its first step.
CleanWithoutCallbacks ==
  \A t \in UserTask : pc[t] = "done" /\ cb_size[t] = 0 =>
    /\ t \notin our_tasks \cup cb_tasks \cup task2context
    /\ \A n \in Name : unique_name2task[n] # t

\* The parts that make the invariants above inductive, with the counterparts
\* in the code: only tasks that run_coro has started (or outer tasks) are ever
\* given to the reaper, and a task in a done callback had one to call.
OnlyStartedCancelled ==
  \A t \in Task :
    /\ t \in our_tasks \/ Condemned(t) => pc[t] \notin {"none", "created"}
    /\ t \in cancelling \cup unwinding => pc[t] \in {"running", "callback"}

CallbackSized ==
  \A t \in UserTask : pc[t] = "callback" => cb_size[t] # 0

IInv ==
  /\ TypeOK
  /\ NameMapsAgree
  /\ OwnersAreOurs
  /\ OnlyStartedCancelled
  /\ CancelledOneAtATime
  /\ OneLiveClaimant
  /\ CallbackSized
  /\ CleanWithoutCallbacks

\* A name becomes free only by the end of the task that owns it.
NamesFreedByTheirOwner ==
  [][\A n \in Name :
       unique_name2task[n] # NoTask /\ unique_name2task'[n] = NoTask =>
         /\ pc[unique_name2task[n]] # "done"
         /\ pc'[unique_name2task[n]] = "done"]_vars

\* The reaper awaits a task that no one is going to end: it waits for a cancel
\* queued behind its own, or it has dropped the CancelledError.
ReaperBlocked ==
  /\ reaping # NoTask
  /\ reaping \notin cancelling
  /\ \/ reaping \in asleep
     \/ pc[reaping] = "running" /\ reaping \notin unwinding

\* The reaper gets round to every cancel it was given before reaper_stop: the
\* task ends, or an earlier one holds the reaper up for ever.
CancelIsServed ==
  \A t \in Task :
    Condemned(t) /\ task_reaper = "up" ~> pc[t] = "done" \/ ReaperBlocked

\* docs/reference.rst:1394-1396: with kill_me=True the current task is killed
\* "if another task that is running previously called task.unique".
KillMeNeedsRunningOwner ==
  [][\A t \in Task, n \in Name :
       TaskUniqueKillMe(t, n) => pc[unique_name2task[n]] # "done"]_vars

\* docs/reference.rst:1412-1414: outside a function, task.unique with
\* kill_me=True does nothing.
OuterKillMeDoesNothing == \A t \in OuterTask : ~Condemned(t)

\* The comments "wait to be canceled" at function.py:246 and 273: the sleep
\* that follows a cancel of the current task is ended by that cancel, as long
\* as nothing stops the reaper.
SleepEndsByCancel ==
  \A t \in Task : t \in asleep ~> t \notin asleep \/ task_reaper # "up"

=============================================================================
