----------------------- MODULE DecoratorManager_proofs -----------------------
(* Proofs about DecoratorManager, for any functions, contexts, decorators   *)
(* and names.                                                               *)
EXTENDS DecoratorManager, TLAPS

Label == {"idle", "ready", "next", "waiting", "undo", "undoing", "over"}

Status == {"none", "validated", "running", "stopped", "invalid"}

ResourcesOK ==
  /\ listeners \subseteq Dec
  /\ webhooks \in [Key -> Dec \cup {NoFunction}]
  /\ Registry!TypeOK

\* TypeOK, in the two halves that the lemmas below speak of.
ControlOK ==
  /\ status \in [Function -> Status]
  /\ scope \in [Function -> {"none", "local", "stored", "gone"}]
  /\ auto_start \in [Ctx -> BOOLEAN]
  /\ dms \in [Ctx -> SUBSET Function]
  /\ dms_delay_start \in [Ctx -> SUBSET Function]
  /\ stopped \subseteq Ctx
  /\ pc \in [Function -> [Co -> Label]]
  /\ pos \in [Function -> [Co -> Nat \ {0}]]
  /\ failed \in [Function -> Nat]
  /\ tainted \subseteq Function

\* TypeOK is both.
LEMMA TypeSplit ==
  /\ TypeOK <=> ControlOK /\ ResourcesOK
  /\ TypeOK' <=> ControlOK' /\ ResourcesOK'
BY DEF TypeOK, ControlOK, ResourcesOK, Label, Status

\* What a sequence holds at a place.
LEMMA InSeq ==
  ASSUME NEW S, NEW s \in Seq(S), NEW i \in DOMAIN s
  PROVE  s[i] \in S /\ i \in Nat /\ i >= 1
OBVIOUS

\* The decorator at a place of a function, and what the assumption says of it.
LEMMA Places ==
  ASSUME NEW f \in Function, NEW i \in DOMAIN Decorators[f]
  PROVE  /\ <<f, i>> \in Dec
         /\ Decorators[f][i].kind \in Kind
         /\ Decorators[f][i].key \in Key
         /\ i \in Nat /\ i >= 1
<1>1. Decorators[f] \in Seq([kind : Kind, key : Key])
  BY ManagerAssumption DEF ManagerAssumption
<1>2. Decorators[f][i] \in [kind : Kind, key : Key]
  BY <1>1, InSeq
<1>3. <<f, i>> \in {f} \X DOMAIN Decorators[f]
  OBVIOUS
<1>4. i \in Nat /\ i >= 1
  BY <1>1
<1>5. QED
  BY <1>2, <1>3, <1>4 DEF Dec

\* The places of a function are the numbers up to the length of its list.
LEMMA Domain ==
  ASSUME NEW f \in Function
  PROVE  /\ Len(Decorators[f]) \in Nat
         /\ DOMAIN Decorators[f] = 1 .. Len(Decorators[f])
BY ManagerAssumption DEF ManagerAssumption

\* A coroutine that has not come to the end of the list is at a decorator, and
\* the manager has not ended; one that has come to it has passed them all.
LEMMA Live ==
  ASSUME NEW f \in Function, NEW i \in Nat \ {0}
  PROVE  /\ i <= Len(LiveDecorators(f)) =>
              /\ i \in DOMAIN Decorators[f]
              /\ status[f] \notin {"stopped", "invalid"}
         /\ i > Len(LiveDecorators(f)) /\ status[f] = "running" =>
              \A j \in DOMAIN Decorators[f] : j < i
BY Domain DEF LiveDecorators

\* An element of Dec is a function and a place of it.
LEMMA DecElements ==
  ASSUME NEW d \in Dec
  PROVE  /\ d[1] \in Function
         /\ d[2] \in DOMAIN Decorators[d[1]]
         /\ d = <<d[1], d[2]>>
BY DEF Dec

\* The sets of labels and coroutines, kept folded in the proofs.
LEMMA Symbols ==
  /\ Co = {"start"} \cup Stop /\ Stop = {"context", "finalizer"}
  /\ {"idle", "ready", "next", "waiting", "undo", "undoing", "over"} = Label
  /\ {"none", "validated", "running", "stopped", "invalid"} = Status
BY DEF Co, Stop, Label, Status

\* A coroutine goes to a label; the others stay.
LEMMA GotoEffect ==
  ASSUME ControlOK, NEW f \in Function, NEW k \in Co, NEW label \in Label,
         Goto(f, k, label)
  PROVE  /\ pc' \in [Function -> [Co -> Label]]
         /\ pc'[f][k] = label
         /\ \A j \in Co \ {k} : pc'[f][j] = pc[f][j]
         /\ \A g \in Function \ {f} : pc'[g] = pc[g]
BY DEF ControlOK, Goto

\* A coroutine passes one decorator; the others stay.
LEMMA AdvanceEffect ==
  ASSUME ControlOK, NEW f \in Function, NEW k \in Co, Advance(f, k)
  PROVE  /\ pos' \in [Function -> [Co -> Nat \ {0}]]
         /\ pos'[f][k] = pos[f][k] + 1
         /\ \A j \in Co \ {k} : pos'[f][j] = pos[f][j]
         /\ \A g \in Function \ {f} : pos'[g] = pos[g]
BY DEF ControlOK, Advance

\* The finalizers of running functions become ready.
LEMMA FinalizedIs ==
  ASSUME ControlOK, NEW dead \in SUBSET Function
  PROVE  /\ Finalized(dead) \in [Function -> [Co -> Label]]
         /\ \A g \in Function :
              /\ Finalized(dead)[g]["start"] = pc[g]["start"]
              /\ Finalized(dead)[g]["context"] = pc[g]["context"]
              /\ Finalized(dead)[g]["finalizer"] =
                   IF g \in dead /\ status[g] = "running" THEN "ready"
                   ELSE pc[g]["finalizer"]
<1>1. \A g \in Function, k \in Co : pc[g][k] \in Label
  BY DEF ControlOK
<1>2. "ready" \in Label /\ {"start", "context", "finalizer"} = Co
  BY DEF Label, Co
<1>3. \A g \in Function : Finalized(dead)[g] = [k \in Co |->
         IF g \in dead /\ k = "finalizer" /\ status[g] = "running" THEN "ready"
         ELSE pc[g][k]]
  BY DEF Finalized
<1>4. QED
  BY <1>1, <1>2, <1>3 DEF Finalized

\* Only functions that are stored are replaced.
LEMMA ReplacedIs ==
  ASSUME NEW f \in Function
  PROVE  /\ Replaced(f) \subseteq Function \ {f}
         /\ \A g \in Replaced(f) : scope[g] = "stored"
BY DEF Replaced

\* The variable of f is assigned, those it replaces are dropped.
LEMMA StoreEffect ==
  ASSUME ControlOK, NEW f \in Function, Store(f)
  PROVE  /\ scope' \in [Function -> {"none", "local", "stored", "gone"}]
         /\ scope'[f] = "stored"
         /\ \A g \in Function \ {f} :
              scope'[g] = IF g \in Replaced(f) THEN "gone" ELSE scope[g]
BY DEF ControlOK, Store

\* service_register and service_remove, for the decorator of a function.
LEMMA RegisterEffect ==
  ASSUME NEW f \in Function, NEW i \in DOMAIN Decorators[f], NEW key \in Key,
         Registry!service_register(<<f, i>>, key)
  PROVE  /\ service2global_ctx[key] \in {NoContext, ContextOf[f]}
         /\ service2global_ctx' = [service2global_ctx EXCEPT ![key] = ContextOf[f]]
         /\ service_cnt' = [service_cnt EXCEPT ![key] = @ + 1]
         /\ services' = [services EXCEPT ![key] = <<f, i>>]
<1>1. [d \in Dec |-> ContextOf[d[1]]][<<f, i>>] = ContextOf[f]
  BY Places
<1>2. QED
  BY <1>1 DEF Registry!service_register, Registry!Refused

\* What a decorator has registered when it is started.
LEMMA AcquireEffect ==
  ASSUME ResourcesOK, NEW f \in Function, NEW i \in DOMAIN Decorators[f],
         NEW kinds \in SUBSET {"listener", "mqtt"}, Acquire(<<f, i>>, kinds)
  PROVE  /\ ResourcesOK'
         /\ \A d \in Dec : d # <<f, i>> /\ Holds(d)' => Holds(d)
         /\ CanStart(<<f, i>>) =>
              /\ \A d \in Dec : Holds(d) => Holds(d)'
              /\ Decorators[f][i].kind \in kinds \cup {"service", "webhook"} =>
                   Holds(<<f, i>>)'
         /\ Decorators[f][i].kind \notin kinds \cup {"service", "webhook"} =>
              (Holds(<<f, i>>)' => Holds(<<f, i>>))
<1> DEFINE dec == <<f, i>>
<1> DEFINE d0 == Decorators[f][i]
<1>1. dec \in Dec /\ d0.kind \in Kind /\ d0.key \in Key
  BY Places
<1>2. /\ listeners' \subseteq Dec
      /\ \A d \in Dec : d # dec /\ d \in listeners' => d \in listeners
  BY <1>1 DEF Acquire, ResourcesOK
<1>3. /\ webhooks' \in [Key -> Dec \cup {NoFunction}]
      /\ \A d \in Dec, key \in Key :
           d # dec /\ webhooks'[key] = d => webhooks[key] = d
  BY <1>1 DEF Acquire, ResourcesOK
<1>4. /\ Registry!TypeOK'
      /\ \A d \in Dec, key \in Key :
           d # dec /\ d \in holders'[key] => d \in holders[key]
  <2>1. CASE d0.kind = "service"
    <3>1. /\ Registry!service_register(dec, d0.key)
          /\ holders' = [holders EXCEPT ![d0.key] = @ \cup {dec}]
      BY <2>1 DEF Acquire
    <3>2. ContextOf[f] \in Context
      BY ManagerAssumption DEF ManagerAssumption
    <3>3. QED
      BY <1>1, <3>1, <3>2, RegisterEffect DEF ResourcesOK, Registry!TypeOK
  <2>2. CASE d0.kind # "service"
    <3>1. UNCHANGED serviceVars
      BY <2>2 DEF Acquire
    <3>2. Registry!TypeOK
      BY DEF ResourcesOK
    <3>3. QED
      BY <3>1, <3>2 DEF serviceVars, Registry!TypeOK
  <2>3. QED
    BY <2>1, <2>2
<1>5. \A d \in Dec : Decorators[d[1]][d[2]].key \in Key
  BY DecElements, Places
<1>6. ASSUME NEW d \in Dec, d # dec, Holds(d)' PROVE Holds(d)
  <2> DEFINE its == Decorators[d[1]][d[2]]
  <2>1. its.key \in Key
    BY <1>5
  <2>2. /\ d \in listeners' => d \in listeners
        /\ webhooks'[its.key] = d => webhooks[its.key] = d
        /\ d \in holders'[its.key] => d \in holders[its.key]
    BY <1>2, <1>3, <1>4, <1>6, <2>1
  <2>3. \/ its.kind \in {"listener", "mqtt"} /\ d \in listeners'
        \/ its.kind = "webhook" /\ webhooks'[its.key] = d
        \/ its.kind = "service" /\ d \in holders'[its.key]
    BY ONLY <1>6 DEF Holds
  <2>4. \/ its.kind \in {"listener", "mqtt"} /\ d \in listeners
        \/ its.kind = "webhook" /\ webhooks[its.key] = d
        \/ its.kind = "service" /\ d \in holders[its.key]
    BY ONLY <2>2, <2>3, Zenon
  <2>5. QED
    BY ONLY <2>4 DEF Holds
<1>7. ASSUME CanStart(dec), NEW d \in Dec, Holds(d) PROVE Holds(d)'
  <2>1. /\ listeners \subseteq listeners'
        /\ \A key \in Key : webhooks[key] = d => webhooks'[key] = d
    <3>1. NoFunction \notin Dec
      BY ManagerAssumption DEF ManagerAssumption
    <3>2. QED
      BY <1>1, <1>7, <3>1 DEF Acquire, CanStart, ResourcesOK
  <2>2. \A key \in Key : holders[key] \subseteq holders'[key]
    BY <1>1 DEF Acquire, serviceVars, ResourcesOK, Registry!TypeOK
  <2>3. QED
    BY <1>5, <1>7, <2>1, <2>2 DEF Holds
<1>8. ASSUME d0.kind \in kinds \cup {"service", "webhook"} PROVE Holds(dec)'
  <2>1. CASE d0.kind = "service"
    BY <1>1, <2>1 DEF Acquire, Holds, ResourcesOK, Registry!TypeOK
  <2>2. CASE d0.kind = "webhook"
    BY <1>1, <2>2 DEF Acquire, Holds, ResourcesOK
  <2>3. CASE d0.kind \in kinds /\ d0.kind \in {"listener", "mqtt"}
    BY <1>1, <2>3 DEF Acquire, Holds
  <2>4. QED
    BY <1>8, <2>1, <2>2, <2>3
<1>9. ASSUME d0.kind \notin kinds \cup {"service", "webhook"}, Holds(dec)'
      PROVE  Holds(dec)
  BY <1>1, <1>9 DEF Acquire, Holds
<1>10. QED
  BY <1>4, <1>2, <1>3, <1>6, <1>7, <1>8, <1>9 DEF ResourcesOK

\* What is left of a decorator when it is stopped, and of others: a webhook or
\* a service of the same name may lose more.
LEMMA DropEffect ==
  ASSUME ResourcesOK, NEW f \in Function, NEW i \in DOMAIN Decorators[f],
         Drop(<<f, i>>)
  PROVE  /\ ResourcesOK'
         /\ ~Holds(<<f, i>>)'
         /\ \A d \in Dec : Holds(d)' => Holds(d)
         /\ Holds(<<f, i>>) => \A d \in Dec \ {<<f, i>>} : Holds(d) => Holds(d)'
         /\ Decorators[f][i].kind = "shutdown" =>
              \A d \in Dec \ {<<f, i>>} : Holds(d) => Holds(d)'
<1> DEFINE dec == <<f, i>>
<1> DEFINE d0 == Decorators[f][i]
<1>1. dec \in Dec /\ d0.kind \in Kind /\ d0.key \in Key
  BY Places
<1>2. listeners' = listeners \ {dec}
  BY DEF Drop
<1>3. webhooks' = IF d0.kind = "webhook"
                    THEN [webhooks EXCEPT ![d0.key] = NoFunction] ELSE webhooks
  BY DEF Drop
<1>4. /\ Registry!TypeOK'
      /\ \A key \in Key : holders'[key] =
           IF d0.kind = "service" /\ key = d0.key THEN holders[key] \ {dec}
           ELSE holders[key]
  <2>1. CASE d0.kind = "service"
    <3>1. /\ Registry!service_remove(d0.key)
          /\ holders' = [holders EXCEPT ![d0.key] = @ \ {dec}]
      BY <2>1 DEF Drop
    <3>2. /\ service_cnt \in [Key -> Nat] /\ service_cnt[d0.key] \in Nat
          /\ holders \in [Key -> SUBSET Dec]
      BY <1>1 DEF Registry!TypeOK, ResourcesOK
    <3>3. holders' \in [Key -> SUBSET Dec]
      BY <1>1, <3>1, <3>2
    <3>4. \A key \in Key : holders'[key] =
             IF key = d0.key THEN holders[key] \ {dec} ELSE holders[key]
      BY <3>1, <3>2
    <3>5. CASE service_cnt[d0.key] > 1
      <4>1. /\ service_cnt' = [service_cnt EXCEPT ![d0.key] = @ - 1]
            /\ UNCHANGED <<service2global_ctx, services>>
        BY <3>1, <3>5 DEF Registry!service_remove
      <4>2. service_cnt' \in [Key -> Nat]
        BY <1>1, <3>2, <3>5, <4>1
      <4>3. QED
        BY <2>1, <3>3, <3>4, <4>1, <4>2 DEF Registry!TypeOK, ResourcesOK
    <3>6. CASE ~(service_cnt[d0.key] > 1)
      <4>1. /\ service_cnt' = [service_cnt EXCEPT ![d0.key] = 0]
            /\ services' = [services EXCEPT ![d0.key] = NoFunction]
            /\ service2global_ctx' = [service2global_ctx EXCEPT ![d0.key] = NoContext]
        BY <3>1, <3>6 DEF Registry!service_remove
      <4>2. QED
        BY <1>1, <2>1, <3>3, <3>4, <4>1 DEF Registry!TypeOK, ResourcesOK
    <3>7. QED
      BY <3>5, <3>6
  <2>2. CASE d0.kind # "service"
    BY <2>2, <1>1 DEF Drop, serviceVars, Registry!TypeOK, ResourcesOK
  <2>3. QED
    BY <2>1, <2>2
<1>5. ResourcesOK'
  BY <1>1, <1>2, <1>3, <1>4 DEF ResourcesOK
<1>6. \A d \in Dec : Decorators[d[1]][d[2]].key \in Key
  BY DecElements, Places
<1>7. NoFunction \notin Dec
  BY ManagerAssumption DEF ManagerAssumption
<1>8. ~Holds(dec)'
  BY <1>1, <1>2, <1>3, <1>4, <1>7 DEF Holds, ResourcesOK
<1>9. \A d \in Dec : Holds(d)' => Holds(d)
  BY <1>1, <1>2, <1>3, <1>4, <1>6, <1>7 DEF Holds, ResourcesOK
<1>10. ASSUME Holds(dec) \/ d0.kind = "shutdown", NEW d \in Dec \ {dec}, Holds(d)
       PROVE  Holds(d)'
  BY <1>1, <1>2, <1>3, <1>4, <1>6, <1>7, <1>10 DEF Holds, ResourcesOK
<1>11. QED
  BY <1>5, <1>8, <1>9, <1>10

-----------------------------------------------------------------------------
(* Type correctness *)

\* The initial state has the right types.
LEMMA TypeInit == Init => TypeOK
BY DEF Init, TypeOK, Registry!Init, Registry!TypeOK, Co

\* A step that leaves the resources alone leaves what is held alone.
LEMMA UnchangedResources ==
  ASSUME ResourcesOK, UNCHANGED resources
  PROVE  ResourcesOK' /\ \A d \in Dec : Holds(d)' <=> Holds(d)
BY DEF ResourcesOK, resources, serviceVars, Holds, Registry!TypeOK

\* The steps of a context about one function.
LEMMA TypeFunction ==
  ASSUME TypeOK, NEW f \in Function,
         DefineStarted(f) \/ DefineDelayed(f) \/ Forget(f)
  PROVE  TypeOK'
<1> USE TypeSplit
<1>0. CtxOf[f] \in Ctx
  BY ManagerAssumption DEF ManagerAssumption
<1>1. ResourcesOK'
  BY UnchangedResources DEF DefineStarted, DefineDelayed, Forget
<1>2. CASE DefineStarted(f)
  <2>1. pc' \in [Function -> [Co -> Label]]
    BY <1>2, GotoEffect, Symbols DEF DefineStarted
  <2>2. QED
    BY <1>0, <1>1, <1>2, <2>1, Symbols DEF DefineStarted, ControlOK
<1>3. CASE DefineDelayed(f)
  <2>1. pc' \in [Function -> [Co -> Label]]
    BY <1>3, FinalizedIs, ReplacedIs DEF DefineDelayed
  <2>2. QED
    BY <1>0, <1>1, <1>3, <2>1, Symbols DEF DefineDelayed, ControlOK, Store
<1>4. CASE Forget(f)
  <2>1. pc' \in [Function -> [Co -> Label]]
    BY <1>4, FinalizedIs DEF Forget
  <2>2. QED
    BY <1>1, <1>4, <2>1 DEF Forget, ControlOK, ctxVars
<1>5. QED
  BY <1>2, <1>3, <1>4

\* The start and the stop of a context.
LEMMA TypeContext ==
  ASSUME TypeOK, NEW c \in Ctx, StartContext(c) \/ StopContext(c)
  PROVE  TypeOK'
<1> USE TypeSplit
<1>1. ResourcesOK'
  BY UnchangedResources DEF StartContext, StopContext
<1>2. CASE StartContext(c)
  BY <1>1, <1>2, Symbols DEF StartContext, ControlOK
<1>3. CASE StopContext(c)
  BY <1>1, <1>3, Symbols DEF StopContext, ControlOK
<1>4. QED
  BY <1>2, <1>3

\* The steps of DecoratorManager.start.
LEMMA TypeStart ==
  ASSUME TypeOK, Lifecycle, NEW f \in Function, StartStep(f)
  PROVE  TypeOK'
<1> USE TypeSplit
<1> DEFINE i == pos[f]["start"]
<1>1. /\ i \in Nat \ {0} /\ i + 1 \in Nat \ {0}
      /\ "start" \in Co
      /\ ControlOK /\ ResourcesOK
  BY Symbols DEF ControlOK
<1>2. CASE BeginStart(f)
  <2>1. pc' \in [Function -> [Co -> Label]]
    BY <1>1, <1>2, GotoEffect, Symbols DEF BeginStart
  <2>2. QED
    BY <1>1, <1>2, <2>1, Symbols, UnchangedResources DEF BeginStart, ControlOK, ctxVars
<1>3. CASE StartDecorator(f)
  <2>1. i \in DOMAIN Decorators[f]
    BY <1>1, <1>3, Live DEF StartDecorator
  <2>2. {"listener", "mqtt"} \in SUBSET {"listener", "mqtt"}
    OBVIOUS
  <2>3. ResourcesOK'
    BY <1>1, <1>3, <2>1, <2>2, AcquireEffect DEF StartDecorator
  <2>4. pos' \in [Function -> [Co -> Nat \ {0}]]
    BY <1>1, <1>3, AdvanceEffect DEF StartDecorator
  <2>5. QED
    BY <1>1, <1>3, <2>3, <2>4 DEF StartDecorator, ControlOK, ctxVars
<1>4. CASE StartSuspends(f)
  <2>1. i \in DOMAIN Decorators[f]
    BY <1>1, <1>4, Live DEF StartSuspends
  <2>2. {"listener"} \in SUBSET {"listener", "mqtt"}
    OBVIOUS
  <2>3. ResourcesOK'
    BY <1>1, <1>4, <2>1, <2>2, AcquireEffect DEF StartSuspends
  <2>4. pc' \in [Function -> [Co -> Label]]
    BY <1>1, <1>4, GotoEffect, Symbols DEF StartSuspends
  <2>5. QED
    BY <1>1, <1>4, <2>3, <2>4 DEF StartSuspends, ControlOK, ctxVars
<1>5. CASE StartResumes(f)
  <2>1. <<f, i>> \in Dec
    BY <1>1, <1>5, Places DEF StartResumes, Lifecycle, LifeOf
  <2>2. ResourcesOK'
    BY <1>1, <1>5, <2>1 DEF StartResumes, ResourcesOK, serviceVars, Registry!TypeOK
  <2>3. pc' \in [Function -> [Co -> Label]] /\ pos' \in [Function -> [Co -> Nat \ {0}]]
    BY <1>1, <1>5, GotoEffect, AdvanceEffect, Symbols DEF StartResumes
  <2>4. QED
    BY <1>1, <1>5, <2>2, <2>3 DEF StartResumes, ControlOK, ctxVars
<1>6. CASE StartRaises(f) \/ StartAwaitRaises(f)
  <2>1. pc' \in [Function -> [Co -> Label]]
    BY <1>1, <1>6, GotoEffect, Symbols DEF StartRaises, StartAwaitRaises
  <2>2. /\ failed' = [failed EXCEPT ![f] = i]
        /\ pos' = [pos EXCEPT ![f]["start"] = 1]
        /\ UNCHANGED <<status, scope, ctxVars, resources>>
        /\ tainted' \subseteq tainted \cup {f}
    BY <1>6 DEF StartRaises, StartAwaitRaises
  <2>3. QED
    BY <1>1, <2>1, <2>2, UnchangedResources DEF ControlOK, ctxVars
<1>7. CASE StartCancelled(f)
  <2>1. pc' \in [Function -> [Co -> Label]]
    BY <1>1, <1>7, FinalizedIs, Symbols DEF StartCancelled
  <2>2. QED
    BY <1>1, <1>7, <2>1, UnchangedResources DEF StartCancelled, ControlOK, ctxVars
<1>8. CASE StartUndo(f)
  <2>1. i \in DOMAIN Decorators[f]
    <3>1. failed[f] \in DOMAIN Decorators[f] /\ i < failed[f]
      BY <1>8 DEF StartUndo, Lifecycle, LifeOf
    <3>2. QED
      BY <1>1, <3>1, Domain
  <2>2. ResourcesOK'
    BY <1>1, <1>8, <2>1, DropEffect DEF StartUndo
  <2>3. pc' \in [Function -> [Co -> Label]] /\ pos' \in [Function -> [Co -> Nat \ {0}]]
    BY <1>1, <1>8, GotoEffect, AdvanceEffect, Symbols DEF StartUndo, ControlOK
  <2>4. QED
    BY <1>1, <1>8, <2>2, <2>3 DEF StartUndo, ControlOK, ctxVars
<1>9. CASE StartUndoResumes(f)
  <2>1. pc' \in [Function -> [Co -> Label]] /\ pos' \in [Function -> [Co -> Nat \ {0}]]
    BY <1>1, <1>9, GotoEffect, AdvanceEffect, Symbols DEF StartUndoResumes
  <2>2. QED
    BY <1>1, <1>9, <2>1, UnchangedResources DEF StartUndoResumes, ControlOK, ctxVars
<1>10. CASE StartEnds(f)
  <2>1. pc' \in [Function -> [Co -> Label]]
    <3>1. CASE scope[f] = "local"
      <4>1. pc' = [Finalized(Replaced(f)) EXCEPT ![f]["start"] = "over"]
        BY <1>10, <3>1 DEF StartEnds
      <4>2. Finalized(Replaced(f)) \in [Function -> [Co -> Label]]
        BY <1>1, FinalizedIs, ReplacedIs
      <4>3. QED
        BY <1>1, <4>1, <4>2, Symbols
    <3>2. CASE scope[f] # "local"
      BY <1>1, <1>10, <3>2, GotoEffect, Symbols DEF StartEnds
    <3>3. QED
      BY <3>1, <3>2
  <2>2. status' \in [Function -> Status] /\ UNCHANGED <<ctxVars, pos, failed, resources, tainted>>
    BY <1>1, <1>10, Symbols DEF StartEnds, ControlOK
  <2>3. scope' \in [Function -> {"none", "local", "stored", "gone"}]
    <3>1. CASE scope[f] = "local"
      BY <1>1, <1>10, <3>1, StoreEffect DEF StartEnds
    <3>2. CASE scope[f] # "local"
      BY <1>1, <1>10, <3>2 DEF StartEnds, ControlOK
    <3>3. QED
      BY <3>1, <3>2
  <2>4. QED
    BY <1>1, <2>1, <2>2, <2>3, UnchangedResources DEF ControlOK, ctxVars
<1>11. QED
  BY <1>2, <1>3, <1>4, <1>5, <1>6, <1>7, <1>8, <1>9, <1>10 DEF StartStep

\* The steps of DecoratorManager.stop.
LEMMA TypeStop ==
  ASSUME TypeOK, NEW f \in Function, NEW k \in Stop, StopStep(f, k)
  PROVE  TypeOK'
<1> USE TypeSplit
<1> DEFINE i == pos[f][k]
<1>1. /\ i \in Nat \ {0} /\ i + 1 \in Nat \ {0}
      /\ k \in Co
      /\ ControlOK /\ ResourcesOK
  BY Symbols DEF ControlOK
<1>2. CASE BeginStop(f, k)
  <2>1. pc' \in [Function -> [Co -> Label]]
    BY <1>1, <1>2, GotoEffect, Symbols DEF BeginStop
  <2>2. tainted' \subseteq tainted \cup {f} /\ UNCHANGED <<status, scope, ctxVars, pos, failed, resources>>
    BY <1>2 DEF BeginStop
  <2>3. QED
    BY <1>1, <2>1, <2>2, UnchangedResources DEF ControlOK, ctxVars
<1>3. CASE StopDecorator(f, k)
  <2>1. i \in DOMAIN Decorators[f]
    BY <1>1, <1>3, Live DEF StopDecorator
  <2>2. ResourcesOK'
    BY <1>1, <1>3, <2>1, DropEffect DEF StopDecorator
  <2>3. pc' \in [Function -> [Co -> Label]] /\ pos' \in [Function -> [Co -> Nat \ {0}]]
    <3>1. CASE Goto(f, k, "waiting") /\ UNCHANGED pos
      BY <1>1, <3>1, GotoEffect, Symbols DEF ControlOK
    <3>2. CASE Advance(f, k) /\ UNCHANGED pc
      BY <1>1, <3>2, AdvanceEffect DEF ControlOK
    <3>3. QED
      BY <1>3, <3>1, <3>2 DEF StopDecorator
  <2>4. QED
    BY <1>1, <1>3, <2>2, <2>3 DEF StopDecorator, ControlOK, ctxVars
<1>4. CASE StopResumes(f, k)
  <2>1. pc' \in [Function -> [Co -> Label]] /\ pos' \in [Function -> [Co -> Nat \ {0}]]
    BY <1>1, <1>4, GotoEffect, AdvanceEffect, Symbols DEF StopResumes
  <2>2. QED
    BY <1>1, <1>4, <2>1, UnchangedResources DEF StopResumes, ControlOK, ctxVars
<1>5. CASE StopEnds(f, k)
  <2>1. pc' \in [Function -> [Co -> Label]]
    BY <1>1, <1>5, GotoEffect, Symbols DEF StopEnds
  <2>2. QED
    BY <1>1, <1>5, <2>1, Symbols, UnchangedResources DEF StopEnds, ControlOK, ctxVars
<1>6. QED
  BY <1>2, <1>3, <1>4, <1>5 DEF StopStep

-----------------------------------------------------------------------------
(* The life of a manager *)

\* Every function has its context.
LEMMA Owner ==
  ASSUME NEW f \in Function
  PROVE  CtxOf[f] \in Ctx
BY ManagerAssumption DEF ManagerAssumption

\* No life has begun in the initial state.
LEMMA LifeInit == Init => Lifecycle
BY Owner, Symbols DEF Init, Lifecycle, LifeOf, UnderWay

\* A manager whose state a step leaves alone.
LEMMA LifeFrame ==
  ASSUME NEW g \in Function, LifeOf(g),
         scope'[g] = scope[g], status'[g] = status[g], pos'[g] = pos[g],
         failed'[g] = failed[g], \A k \in Co : pc'[g][k] = pc[g][k],
         stopped \subseteq stopped',
         \A c \in Ctx : /\ g \in dms'[c] <=> g \in dms[c]
                        /\ g \in dms_delay_start'[c] <=> g \in dms_delay_start[c]
  PROVE  LifeOf(g)'
<1>1. CtxOf[g] \in Ctx
  BY Owner
<1>2. QED
  BY <1>1, Symbols DEF LifeOf, Quiet, UnderWay

\* f is defined in a context that is started.
LEMMA LifeDefineStarted ==
  ASSUME TypeOK, Lifecycle, NEW f \in Function, DefineStarted(f)
  PROVE  Lifecycle'
<1>0. ControlOK /\ CtxOf[f] \in Ctx /\ LifeOf(f)
  BY TypeSplit, Owner DEF Lifecycle
<1>1. /\ pc' \in [Function -> [Co -> Label]]
      /\ pc'[f]["start"] = "ready"
      /\ \A j \in Stop : pc'[f][j] = pc[f][j]
      /\ \A g \in Function \ {f} : pc'[g] = pc[g]
  BY <1>0, GotoEffect, Symbols DEF DefineStarted
<1>2. /\ scope[f] = "none" /\ status[f] = "none"
      /\ \A k \in Co : pc[f][k] = "idle"
      /\ scope'[f] = "local" /\ status'[f] = "validated"
      /\ \A g \in Function \ {f} : scope'[g] = scope[g] /\ status'[g] = status[g]
  BY <1>0 DEF DefineStarted, LifeOf, ControlOK
<1>3. /\ \A c \in Ctx : dms'[c] = IF c = CtxOf[f] THEN dms[c] \cup {f} ELSE dms[c]
      /\ UNCHANGED <<dms_delay_start, stopped, pos, failed>>
  BY <1>0 DEF DefineStarted, ControlOK
<1>4. LifeOf(f)'
  BY <1>0, <1>1, <1>2, <1>3, Symbols DEF LifeOf, UnderWay
<1>5. ASSUME NEW g \in Function \ {f} PROVE LifeOf(g)'
  BY <1>1, <1>2, <1>3, LifeFrame DEF Lifecycle
<1>6. QED
  BY <1>4, <1>5 DEF Lifecycle

\* A manager whose variable a step drops: its finalizer is spawned if it runs.
LEMMA LifeForgotten ==
  ASSUME ControlOK, NEW g \in Function, LifeOf(g),
         scope[g] \in {"stored", "local"}, scope'[g] = "gone",
         status'[g] = status[g], pos'[g] = pos[g], failed'[g] = failed[g],
         pc'[g]["start"] = pc[g]["start"], pc'[g]["context"] = pc[g]["context"],
         pc'[g]["finalizer"] = IF status[g] = "running" THEN "ready"
                               ELSE pc[g]["finalizer"],
         UNCHANGED stopped,
         \A c \in Ctx : /\ g \in dms'[c] <=> g \in dms[c]
                        /\ g \in dms_delay_start'[c] <=> g \in dms_delay_start[c]
  PROVE  LifeOf(g)'
<1>0. CtxOf[g] \in Ctx
  BY Owner
<1>1. pc[g]["finalizer"] = "idle" /\ pos[g]["finalizer"] = 1
  BY Symbols DEF LifeOf
<1>2. CASE status[g] = "running"
  BY <1>0, <1>1, <1>2, Symbols DEF LifeOf, Quiet, UnderWay
<1>3. CASE status[g] # "running"
  BY <1>0, <1>1, <1>3, Symbols DEF LifeOf, Quiet, UnderWay
<1>4. QED
  BY <1>2, <1>3

\* f is defined in a context that is not started, over others perhaps.
LEMMA LifeDefineDelayed ==
  ASSUME TypeOK, Lifecycle, NEW f \in Function, DefineDelayed(f)
  PROVE  Lifecycle'
<1>0. ControlOK /\ CtxOf[f] \in Ctx /\ LifeOf(f)
  BY TypeSplit, Owner DEF Lifecycle
<1>1. /\ pc' = Finalized(Replaced(f))
      /\ scope[f] = "none" /\ status[f] = "none"
      /\ \A k \in Co : pc[f][k] = "idle"
      /\ status'[f] = "validated"
      /\ \A g \in Function \ {f} : status'[g] = status[g]
      /\ UNCHANGED <<stopped, pos, failed>>
      /\ \A c \in Ctx :
           /\ dms'[c] = IF c = CtxOf[f] THEN dms[c] \cup {f} ELSE dms[c]
           /\ dms_delay_start'[c] = IF c = CtxOf[f]
                                      THEN dms_delay_start[c] \cup {f}
                                      ELSE dms_delay_start[c]
  BY <1>0 DEF DefineDelayed, LifeOf, ControlOK
<1>2. /\ \A g \in Function : /\ pc'[g]["start"] = pc[g]["start"]
                             /\ pc'[g]["context"] = pc[g]["context"]
      /\ \A g \in Replaced(f) : pc'[g]["finalizer"] =
           IF status[g] = "running" THEN "ready" ELSE pc[g]["finalizer"]
      /\ \A g \in Function \ Replaced(f) : pc'[g]["finalizer"] = pc[g]["finalizer"]
      /\ pc' \in [Function -> [Co -> Label]]
  BY <1>0, <1>1, FinalizedIs, ReplacedIs
<1>3. /\ scope'[f] = "stored"
      /\ \A g \in Function \ {f} :
           scope'[g] = IF g \in Replaced(f) THEN "gone" ELSE scope[g]
  BY <1>0, StoreEffect DEF DefineDelayed
<1>4. LifeOf(f)'
  <2>1. \A k \in Co : pc'[f][k] = "idle"
    BY <1>1, <1>2, ReplacedIs, Symbols
  <2>2. /\ \A k \in Co : pos[f][k] = 1
        /\ f \in dms'[CtxOf[f]]
        /\ \A c \in Ctx : f \in dms'[c] => c = CtxOf[f]
        /\ \A c \in Ctx : f \in dms_delay_start'[c] => c = CtxOf[f]
    BY <1>0, <1>1 DEF LifeOf
  <2>3. QED
    BY <1>0, <1>1, <1>3, <2>1, <2>2, Symbols DEF LifeOf, UnderWay
<1>5. ASSUME NEW g \in Replaced(f) PROVE LifeOf(g)'
  <2>1. g \in Function \ {f} /\ scope[g] = "stored" /\ LifeOf(g)
    BY ReplacedIs DEF Lifecycle
  <2>2. /\ \A c \in Ctx : /\ g \in dms'[c] <=> g \in dms[c]
                          /\ g \in dms_delay_start'[c] <=> g \in dms_delay_start[c]
        /\ status'[g] = status[g] /\ scope'[g] = "gone"
        /\ pos'[g] = pos[g] /\ failed'[g] = failed[g] /\ UNCHANGED stopped
    BY <1>1, <1>3, <2>1
  <2>3. QED
    BY <1>0, <1>2, <2>1, <2>2, LifeForgotten
<1>6. ASSUME NEW g \in Function \ {f}, g \notin Replaced(f) PROVE LifeOf(g)'
  <2>1. \A k \in Co : pc'[g][k] = pc[g][k]
    BY <1>2, <1>6, Symbols
  <2>2. QED
    BY <1>1, <1>3, <1>6, <2>1, LifeFrame DEF Lifecycle
<1>7. QED
  BY <1>4, <1>5, <1>6 DEF Lifecycle

\* The variable of f is dropped.
LEMMA LifeForget ==
  ASSUME TypeOK, Lifecycle, NEW f \in Function, Forget(f)
  PROVE  Lifecycle'
<1>0. ControlOK /\ LifeOf(f)
  BY TypeSplit DEF Lifecycle
<1>1. /\ pc' = Finalized({f})
      /\ scope[f] = "stored" /\ scope'[f] = "gone"
      /\ \A g \in Function \ {f} : scope'[g] = scope[g]
      /\ UNCHANGED <<status, dms, dms_delay_start, stopped, pos, failed>>
  BY <1>0 DEF Forget, ctxVars, ControlOK
<1>2. LifeOf(f)'
  BY <1>0, <1>1, FinalizedIs, LifeForgotten
<1>3. ASSUME NEW g \in Function \ {f} PROVE LifeOf(g)'
  <2>1. /\ pc'[g]["start"] = pc[g]["start"]
        /\ pc'[g]["context"] = pc[g]["context"]
        /\ pc'[g]["finalizer"] = pc[g]["finalizer"]
    BY <1>0, <1>1, FinalizedIs
  <2>2. \A k \in Co : pc'[g][k] = pc[g][k]
    BY <2>1, Symbols
  <2>3. QED
    BY <1>1, <2>2, LifeFrame DEF Lifecycle
<1>4. QED
  BY <1>2, <1>3 DEF Lifecycle

\* What was put off becomes ready to start.
LEMMA LifeStartContext ==
  ASSUME TypeOK, Lifecycle, NEW c \in Ctx, StartContext(c)
  PROVE  Lifecycle'
<1>0. ControlOK
  BY TypeSplit
<1>1. /\ pc' = [f \in Function |-> [k \in Co |->
                  IF f \in dms_delay_start[c] /\ k = "start" THEN "ready"
                  ELSE pc[f][k]]]
      /\ \A b \in Ctx : dms_delay_start'[b] =
           IF b = c THEN {} ELSE dms_delay_start[b]
      /\ UNCHANGED <<status, scope, dms, stopped, pos, failed>>
  BY <1>0 DEF StartContext, ControlOK
<1>2. SUFFICES ASSUME NEW g \in Function PROVE LifeOf(g)'
  BY DEF Lifecycle
<1>3. LifeOf(g)
  BY DEF Lifecycle
<1>4. \A k \in Stop : pc'[g][k] = pc[g][k]
  BY <1>0, <1>1, Symbols DEF ControlOK
<1>5. CASE g \in dms_delay_start[c]
  <2>1. pc'[g]["start"] = "ready" /\ status[g] = "validated" /\ g \in dms[c] /\ c = CtxOf[g]
    BY <1>1, <1>3, <1>5, Symbols DEF LifeOf
  <2>2. QED
    BY <1>0, <1>1, <1>3, <1>4, <2>1, Symbols DEF LifeOf, UnderWay, Quiet
<1>6. CASE g \notin dms_delay_start[c]
  <2>1. pc'[g] = pc[g]
    BY <1>0, <1>1, <1>6 DEF ControlOK
  <2>2. \A b \in Ctx : g \in dms_delay_start'[b] <=> g \in dms_delay_start[b]
    BY <1>1, <1>6
  <2>3. QED
    BY <1>1, <1>3, <2>1, <2>2, LifeFrame
<1>7. QED
  BY <1>5, <1>6

\* What the context knows becomes ready to be stopped.
LEMMA LifeStopContext ==
  ASSUME TypeOK, Lifecycle, NEW c \in Ctx, StopContext(c)
  PROVE  Lifecycle'
<1>0. ControlOK
  BY TypeSplit
<1>1. /\ c \notin stopped /\ stopped' = stopped \cup {c} /\ Idle
      /\ pc' = [f \in Function |-> [k \in Co |->
                  IF f \in dms[c] /\ k = "context" THEN "ready" ELSE pc[f][k]]]
      /\ \A b \in Ctx : /\ dms'[b] = IF b = c THEN {} ELSE dms[b]
                        /\ dms_delay_start'[b] =
                             IF b = c THEN {} ELSE dms_delay_start[b]
      /\ UNCHANGED <<status, scope, pos, failed>>
  BY <1>0 DEF StopContext, ControlOK
<1>2. SUFFICES ASSUME NEW g \in Function PROVE LifeOf(g)'
  BY DEF Lifecycle
<1>3. LifeOf(g) /\ pc[g]["start"] # "ready"
  BY <1>1, Symbols DEF Lifecycle, Idle
<1>4. CASE g \in dms[c]
  <2>1. /\ c = CtxOf[g] /\ status[g] # "none" /\ pc[g]["context"] = "idle"
        /\ pos[g]["context"] = 1
    BY <1>1, <1>3, <1>4, Symbols DEF LifeOf
  <2>2. /\ pc'[g]["context"] = "ready"
        /\ \A k \in Co \ {"context"} : pc'[g][k] = pc[g][k]
    BY <1>0, <1>1, <1>4, Symbols DEF ControlOK
  <2>3. /\ status'[g] = status[g] /\ scope'[g] = scope[g]
        /\ pos'[g] = pos[g] /\ failed'[g] = failed[g]
    BY <1>1
  <2>4. /\ "context" \in Stop /\ "context" \in Co /\ "start" \in Co \ {"context"}
        /\ Stop \subseteq Co
    BY Symbols
  <2>5. /\ \A k \in Co : UnderWay(g, k)' => UnderWay(g, k)
        /\ ~Quiet(g, "context")'
    BY <2>2, <2>3, <2>4 DEF UnderWay, Quiet
  <2>6. \A b \in Ctx : g \notin dms'[b] /\ g \notin dms_delay_start'[b]
    BY <1>1, <1>3, <1>4, <2>1 DEF LifeOf
  <2>7. CtxOf[g] \in stopped'
    BY <1>1, <2>1
  <2>8. /\ pc'[g]["start"] = pc[g]["start"] /\ pc[g]["start"] # "ready"
        /\ \A k \in Stop : pc'[g][k] \in {"ready", pc[g][k]}
        /\ pc'[g]["finalizer"] = pc[g]["finalizer"]
    BY <1>3, <2>2, <2>4, Symbols
  <2>9. QED
    BY <1>3, <2>1, <2>2, <2>3, <2>4, <2>5, <2>6, <2>7, <2>8 DEF LifeOf
<1>5. CASE g \notin dms[c]
  <2>1. pc'[g] = pc[g]
    BY <1>0, <1>1, <1>5 DEF ControlOK
  <2>2. g \notin dms_delay_start[c]
    BY <1>3, <1>5 DEF LifeOf
  <2>3. QED
    BY <1>1, <1>3, <1>5, <2>1, <2>2, LifeFrame
<1>6. QED
  BY <1>4, <1>5

\* A step of one coroutine leaves the other managers alone, as long as no
\* variable is assigned or dropped.
LEMMA LifeOthers ==
  ASSUME ControlOK, Lifecycle, NEW f \in Function,
         UNCHANGED <<scope, ctxVars>>,
         \A g \in Function \ {f} : /\ status'[g] = status[g]
                                   /\ pos'[g] = pos[g]
                                   /\ failed'[g] = failed[g]
                                   /\ pc'[g] = pc[g],
         LifeOf(f)'
  PROVE  Lifecycle'
<1>1. ASSUME NEW g \in Function \ {f} PROVE LifeOf(g)'
  BY LifeFrame DEF Lifecycle, ctxVars
<1>2. QED
  BY <1>1 DEF Lifecycle

\* What a step of start that assigns no variable must make sure of.
LEMMA LifeStarting ==
  ASSUME ControlOK, NEW f \in Function, LifeOf(f),
         pc[f]["start"] \notin {"idle", "over"},
         UNCHANGED <<scope, ctxVars>>,
         status'[f] \in {"running", "stopped", "invalid"},
         status'[f] = "running" =>
           f \in dms[CtxOf[f]] \/ \E k \in Stop : ~Quiet(f, k),
         status[f] \in {"none", "validated"} => \A k \in Stop : ~UnderWay(f, k),
         pc'[f]["start"] \notin {"idle", "ready"},
         \A k \in Stop : pc'[f][k] = pc[f][k] /\ pos'[f][k] = pos[f][k],
         pc'[f]["start"] = "waiting" =>
           /\ pos'[f]["start"] \in DOMAIN Decorators[f]
           /\ Decorators[f][pos'[f]["start"]].kind \in {"mqtt", "service"},
         pc'[f]["start"] \in {"undo", "undoing"} =>
           failed'[f] \in DOMAIN Decorators[f]
  PROVE  LifeOf(f)'
<1>1. /\ scope'[f] = scope[f] /\ stopped' = stopped
      /\ dms' = dms /\ dms_delay_start' = dms_delay_start
  BY DEF ctxVars
<1>2. status[f] # "none" /\ scope[f] # "none"
  BY Symbols DEF LifeOf
<1>3. \A c \in Ctx : f \notin dms_delay_start[c]
  BY Symbols DEF LifeOf
<1>4. QED
  BY <1>1, <1>2, <1>3, Symbols DEF LifeOf, Quiet, UnderWay

\* The steps of start in the middle of a def statement.
LEMMA LifeStart ==
  ASSUME TypeOK, Lifecycle, NEW f \in Function,
         \/ BeginStart(f) \/ StartDecorator(f) \/ StartSuspends(f)
         \/ StartResumes(f) \/ StartRaises(f) \/ StartAwaitRaises(f)
         \/ StartUndo(f) \/ StartUndoResumes(f)
  PROVE  Lifecycle'
<1> DEFINE i == pos[f]["start"]
<1>0. ControlOK /\ LifeOf(f) /\ "start" \in Co /\ i \in Nat \ {0}
  BY TypeSplit, Symbols DEF Lifecycle, ControlOK
<1>1. /\ pc[f]["start"] \notin {"idle", "over"}
      /\ status[f] \in {"none", "validated"} => \A k \in Stop : ~UnderWay(f, k)
      /\ pc[f]["start"] # "ready" => status[f] \in {"running", "stopped", "invalid"}
      /\ status[f] \in {"running", "validated"} =>
           f \in dms[CtxOf[f]] \/ \E k \in Stop : ~Quiet(f, k)
  <2>1. pc[f]["start"] \notin {"idle", "over"}
    BY DEF BeginStart, StartDecorator, StartSuspends, StartResumes, StartRaises,
           StartAwaitRaises, StartUndo, StartUndoResumes
  <2>2. pc[f]["start"] # "ready" => UnderWay(f, "start")
    BY <1>0, <2>1 DEF UnderWay, ControlOK, Label
  <2>3. QED
    BY <1>0, <2>1, <2>2, Symbols DEF LifeOf, ControlOK, Status
<1>2. CASE BeginStart(f)
  <2>1. /\ status' = [status EXCEPT ![f] = "running"]
        /\ Goto(f, "start", "next") /\ "next" \in Label
        /\ UNCHANGED <<scope, ctxVars, pos, failed>>
        /\ pc[f]["start"] = "ready" /\ status[f] = "validated"
    BY <1>0, <1>2, Symbols DEF BeginStart, LifeOf
  <2>2. /\ pc'[f]["start"] = "next"
        /\ \A k \in Stop : pc'[f][k] = pc[f][k] /\ pos'[f][k] = pos[f][k]
        /\ \A g \in Function \ {f} : pc'[g] = pc[g] /\ pos'[g] = pos[g]
        /\ \A g \in Function \ {f} : failed'[g] = failed[g]
    BY <1>0, <2>1, GotoEffect, Symbols
  <2>3. /\ status'[f] = "running" /\ UNCHANGED <<scope, ctxVars>>
        /\ \A g \in Function \ {f} : status'[g] = status[g]
    BY <1>0, <2>1 DEF ControlOK
  <2>4. LifeOf(f)'
    BY <1>0, <1>1, <2>1, <2>2, <2>3, LifeStarting
  <2>5. QED
    BY <1>0, <2>2, <2>3, <2>4, LifeOthers
<1>3. ASSUME UNCHANGED <<status, scope, ctxVars>>,
             pc[f]["start"] # "ready",
             \A g \in Function \ {f} : /\ pos'[g] = pos[g]
                                       /\ failed'[g] = failed[g]
                                       /\ pc'[g] = pc[g],
             pc'[f]["start"] \notin {"idle", "ready"},
             \A k \in Stop : pc'[f][k] = pc[f][k] /\ pos'[f][k] = pos[f][k],
             pc'[f]["start"] = "waiting" =>
           /\ pos'[f]["start"] \in DOMAIN Decorators[f]
           /\ Decorators[f][pos'[f]["start"]].kind \in {"mqtt", "service"},
             pc'[f]["start"] \in {"undo", "undoing"} =>
               failed'[f] \in DOMAIN Decorators[f]
      PROVE  Lifecycle'
  <2>1. LifeOf(f)'
    BY <1>0, <1>1, <1>3, LifeStarting
  <2>2. QED
    BY <1>0, <1>3, <2>1, LifeOthers
<1>4. CASE StartDecorator(f)
  <2>1. /\ Advance(f, "start") /\ UNCHANGED <<status, scope, ctxVars, pc, failed>>
        /\ pc[f]["start"] = "next"
    BY <1>4 DEF StartDecorator
  <2>2. QED
    BY <1>0, <1>3, <2>1, AdvanceEffect, Symbols
<1>5. CASE StartSuspends(f)
  <2>1. /\ Goto(f, "start", "waiting") /\ "waiting" \in Label
        /\ UNCHANGED <<status, scope, ctxVars, pos, failed>>
        /\ pc[f]["start"] = "next" /\ i \in DOMAIN Decorators[f]
        /\ Decorators[f][i].kind \in {"mqtt", "service"}
    BY <1>0, <1>5, Live, Symbols DEF StartSuspends
  <2>2. pos'[f]["start"] = i
    BY <2>1
  <2>3. QED
    BY <1>0, <1>3, <2>1, <2>2, GotoEffect, Symbols
<1>6. CASE StartResumes(f) \/ StartUndoResumes(f)
  <2>1. PICK label \in {"next", "undo"} :
          /\ Goto(f, "start", label) /\ label \in Label /\ Advance(f, "start")
          /\ UNCHANGED <<status, scope, ctxVars, failed>>
          /\ pc[f]["start"] \in {"waiting", "undoing"}
          /\ label = "undo" => pc[f]["start"] = "undoing"
    BY <1>6, Symbols DEF StartResumes, StartUndoResumes
  <2>2. pc[f]["start"] = "undoing" => failed[f] \in DOMAIN Decorators[f]
    BY <1>0 DEF LifeOf
  <2>3. QED
    BY <1>0, <1>3, <2>1, <2>2, GotoEffect, AdvanceEffect, Symbols
<1>7. CASE StartRaises(f) \/ StartAwaitRaises(f)
  <2>1. /\ Goto(f, "start", "undo") /\ "undo" \in Label
        /\ failed' = [failed EXCEPT ![f] = i]
        /\ pos' = [pos EXCEPT ![f]["start"] = 1]
        /\ UNCHANGED <<status, scope, ctxVars>>
        /\ pc[f]["start"] \in {"next", "waiting"}
    BY <1>7, Symbols DEF StartRaises, StartAwaitRaises
  <2>2. i \in DOMAIN Decorators[f]
    <3>1. CASE StartRaises(f)
      BY <1>0, <3>1, Live DEF StartRaises
    <3>2. CASE StartAwaitRaises(f)
      BY <1>0, <3>2 DEF StartAwaitRaises, LifeOf
    <3>3. QED
      BY <1>7, <3>1, <3>2
  <2>3. /\ failed'[f] = i
        /\ \A g \in Function \ {f} : failed'[g] = failed[g] /\ pos'[g] = pos[g]
        /\ \A k \in Stop : pos'[f][k] = pos[f][k]
    BY <1>0, <2>1, Symbols DEF ControlOK
  <2>4. QED
    BY <1>0, <1>3, <2>1, <2>2, <2>3, GotoEffect, Symbols
<1>8. CASE StartUndo(f)
  <2>1. /\ \/ Goto(f, "start", "undoing") /\ "undoing" \in Label /\ UNCHANGED pos
           \/ Advance(f, "start") /\ UNCHANGED pc
        /\ UNCHANGED <<status, scope, ctxVars, failed>>
        /\ pc[f]["start"] = "undo" /\ failed[f] \in DOMAIN Decorators[f]
    BY <1>0, <1>8, Symbols DEF StartUndo, LifeOf
  <2>2. CASE Goto(f, "start", "undoing") /\ "undoing" \in Label /\ UNCHANGED pos
    BY <1>0, <1>3, <2>1, <2>2, GotoEffect, Symbols
  <2>3. CASE Advance(f, "start") /\ UNCHANGED pc
    BY <1>0, <1>3, <2>1, <2>3, AdvanceEffect, Symbols
  <2>4. QED
    BY <2>1, <2>2, <2>3
<1>9. QED
  BY <1>2, <1>4, <1>5, <1>6, <1>7, <1>8

\* A manager whose start ends: its variable is stored if the def statement was
\* under way, and dropped if that was cancelled.
LEMMA LifeEnding ==
  ASSUME ControlOK, NEW f \in Function, LifeOf(f),
         pc[f]["start"] \in {"next", "waiting", "undo", "undoing"},
         UNCHANGED <<ctxVars, pos, failed>>,
         status'[f] \in {status[f], "invalid"},
         pc'[f]["start"] = "over", pc'[f]["context"] = pc[f]["context"],
         \/ /\ \/ scope'[f] = scope[f]
               \/ scope[f] = "local" /\ scope'[f] = "stored"
            /\ pc'[f]["finalizer"] = pc[f]["finalizer"]
         \/ /\ scope[f] = "local" /\ scope'[f] = "gone" /\ status'[f] = status[f]
            /\ pc'[f]["finalizer"] = IF status[f] = "running" THEN "ready"
                                     ELSE pc[f]["finalizer"]
  PROVE  LifeOf(f)'
<1>1. /\ stopped' = stopped /\ pos' = pos /\ failed' = failed
      /\ dms' = dms /\ dms_delay_start' = dms_delay_start
  BY DEF ctxVars
<1>2. status[f] \notin {"none", "validated"} /\ scope[f] # "none"
  BY Symbols DEF LifeOf, UnderWay
<1>3. \A c \in Ctx : f \notin dms_delay_start[c]
  BY <1>2 DEF LifeOf
<1>4. CASE /\ \/ scope'[f] = scope[f]
              \/ scope[f] = "local" /\ scope'[f] = "stored"
           /\ pc'[f]["finalizer"] = pc[f]["finalizer"]
  <2>1. pc[f]["finalizer"] # "idle" => scope'[f] = "gone"
    BY <1>4 DEF LifeOf
  <2>2. scope'[f] # "none"
    BY <1>2, <1>4
  <2>3. QED
    BY <1>1, <1>2, <1>3, <1>4, <2>1, <2>2, Symbols DEF LifeOf, Quiet, UnderWay
<1>5. CASE /\ scope[f] = "local" /\ scope'[f] = "gone" /\ status'[f] = status[f]
           /\ pc'[f]["finalizer"] = IF status[f] = "running" THEN "ready"
                                    ELSE pc[f]["finalizer"]
  <2>1. pc[f]["finalizer"] = "idle" /\ pos[f]["finalizer"] = 1
    BY <1>5, Symbols DEF LifeOf
  <2>2. QED
    BY <1>1, <1>2, <1>3, <1>5, <2>1, Symbols DEF LifeOf, Quiet, UnderWay
<1>6. QED
  BY <1>4, <1>5

\* The def statement is cancelled while start is under way.
LEMMA LifeStartCancelled ==
  ASSUME TypeOK, Lifecycle, NEW f \in Function, StartCancelled(f)
  PROVE  Lifecycle'
<1>0. ControlOK /\ LifeOf(f)
  BY TypeSplit DEF Lifecycle
<1>1. /\ pc' = [Finalized({f}) EXCEPT ![f]["start"] = "over"]
      /\ scope[f] = "local" /\ scope'[f] = "gone"
      /\ pc[f]["start"] \in {"waiting", "undoing"}
      /\ \A g \in Function \ {f} : scope'[g] = scope[g]
      /\ UNCHANGED <<status, ctxVars, pos, failed>>
  BY <1>0 DEF StartCancelled, ControlOK
<1>2. /\ \A g \in Function \ {f} :
           /\ pc'[g]["start"] = pc[g]["start"]
           /\ pc'[g]["context"] = pc[g]["context"]
           /\ pc'[g]["finalizer"] = pc[g]["finalizer"]
      /\ pc'[f]["start"] = "over"
      /\ pc'[f]["context"] = pc[f]["context"]
      /\ pc'[f]["finalizer"] = IF status[f] = "running" THEN "ready"
                               ELSE pc[f]["finalizer"]
  <2>1. {f} \in SUBSET Function
    OBVIOUS
  <2>2. QED
    BY <1>0, <1>1, <2>1, FinalizedIs, Symbols
<1>3. LifeOf(f)'
  BY <1>0, <1>1, <1>2, LifeEnding
<1>4. ASSUME NEW g \in Function \ {f} PROVE LifeOf(g)'
  <2>1. \A k \in Co : pc'[g][k] = pc[g][k]
    BY <1>2, Symbols
  <2>2. QED
    BY <1>1, <2>1, LifeFrame DEF Lifecycle, ctxVars
<1>5. QED
  BY <1>3, <1>4 DEF Lifecycle

\* The start is over and the variable assigned.
LEMMA LifeStartEnds ==
  ASSUME TypeOK, Lifecycle, NEW f \in Function, StartEnds(f)
  PROVE  Lifecycle'
<1>0. ControlOK /\ LifeOf(f)
  BY TypeSplit DEF Lifecycle
<1>1. /\ pc[f]["start"] \in {"next", "undo"}
      /\ status'[f] \in {status[f], "invalid"}
      /\ \A g \in Function \ {f} : status'[g] = status[g]
      /\ UNCHANGED <<ctxVars, pos, failed>>
  BY <1>0 DEF StartEnds, ControlOK
<1>2. /\ dms' = dms /\ dms_delay_start' = dms_delay_start /\ stopped' = stopped
      /\ pos' = pos /\ failed' = failed
  BY <1>1 DEF ctxVars
<1>3. CASE scope[f] # "local"
  <2>1. /\ Goto(f, "start", "over") /\ UNCHANGED scope
        /\ "over" \in Label /\ "start" \in Co
    BY <1>3, Symbols DEF StartEnds
  <2>2. /\ pc'[f]["start"] = "over" /\ pc'[f]["context"] = pc[f]["context"]
        /\ pc'[f]["finalizer"] = pc[f]["finalizer"]
        /\ \A g \in Function \ {f} : pc'[g] = pc[g]
        /\ scope'[f] = scope[f]
        /\ pc[f]["start"] \in {"next", "waiting", "undo", "undoing"}
    BY <1>0, <1>1, <2>1, GotoEffect, Symbols
  <2>3. LifeOf(f)'
    BY <1>0, <1>1, <2>2, LifeEnding
  <2>4. ASSUME NEW g \in Function \ {f} PROVE LifeOf(g)'
    BY <1>1, <1>2, <2>1, <2>2, LifeFrame DEF Lifecycle
  <2>5. QED
    BY <2>3, <2>4 DEF Lifecycle
<1>4. CASE scope[f] = "local"
  <2>1. Store(f) /\ pc' = [Finalized(Replaced(f)) EXCEPT ![f]["start"] = "over"]
    BY <1>4 DEF StartEnds
  <2>2. Replaced(f) \in SUBSET Function /\ f \notin Replaced(f)
    BY ReplacedIs
  <2>3. /\ pc'[f]["start"] = "over" /\ pc'[f]["context"] = pc[f]["context"]
        /\ pc'[f]["finalizer"] = pc[f]["finalizer"]
        /\ \A g \in Function \ {f} :
             /\ pc'[g]["start"] = pc[g]["start"]
             /\ pc'[g]["context"] = pc[g]["context"]
             /\ pc'[g]["finalizer"] =
                  IF g \in Replaced(f) /\ status[g] = "running" THEN "ready"
                  ELSE pc[g]["finalizer"]
    BY <1>0, <2>1, <2>2, FinalizedIs, Symbols
  <2>4. /\ scope'[f] = "stored"
        /\ \A g \in Function \ {f} :
             scope'[g] = IF g \in Replaced(f) THEN "gone" ELSE scope[g]
    BY <1>0, <2>1, StoreEffect
  <2>5. LifeOf(f)'
    BY <1>0, <1>1, <1>4, <2>3, <2>4, LifeEnding
  <2>6. ASSUME NEW g \in Replaced(f) PROVE LifeOf(g)'
    <3>1. g \in Function \ {f} /\ scope[g] = "stored" /\ LifeOf(g)
      BY ReplacedIs DEF Lifecycle
    <3>2. QED
      BY <1>0, <1>1, <1>2, <2>3, <2>4, <3>1, LifeForgotten
  <2>7. ASSUME NEW g \in Function \ {f}, g \notin Replaced(f) PROVE LifeOf(g)'
    <3>1. \A k \in Co : pc'[g][k] = pc[g][k]
      BY <2>3, <2>7, Symbols
    <3>2. QED
      BY <1>1, <1>2, <2>4, <2>7, <3>1, LifeFrame DEF Lifecycle
  <2>8. QED
    BY <2>5, <2>6, <2>7 DEF Lifecycle
<1>5. QED
  BY <1>3, <1>4

\* The steps of stop.
LEMMA LifeStop ==
  ASSUME TypeOK, Lifecycle, NEW f \in Function, NEW k \in Stop, StopStep(f, k)
  PROVE  Lifecycle'
<1> DEFINE i == pos[f][k]
<1>0. ControlOK /\ LifeOf(f) /\ k \in Co
  BY TypeSplit, Symbols DEF Lifecycle
<1>1. /\ pc[f][k] \in {"ready", "next", "waiting"}
      /\ UNCHANGED <<scope, ctxVars, failed>>
  BY DEF StopStep, BeginStop, StopDecorator, StopResumes, StopEnds
<1>2. /\ k = "finalizer" => scope[f] = "gone"
      /\ k = "context" => CtxOf[f] \in stopped
      /\ status[f] # "none"
  BY <1>0, <1>1, Symbols DEF LifeOf
<1>3. ASSUME \A g \in Function \ {f} : /\ status'[g] = status[g]
                                       /\ pos'[g] = pos[g]
                                       /\ pc'[g] = pc[g],
             \A j \in Co \ {k} : pc'[f][j] = pc[f][j] /\ pos'[f][j] = pos[f][j],
             \/ /\ pc'[f][k] \in {"next", "waiting"}
                /\ status'[f] = status[f]
                /\ status[f] \notin {"none", "validated"}
             \/ /\ pc'[f][k] = "over"
                /\ status'[f] = status[f]
                /\ status[f] # "running"
             \/ /\ pc'[f][k] = "over"
                /\ status'[f] = "stopped"
                /\ status[f] \notin {"none", "validated"}
      PROVE  Lifecycle'
  <2>1. /\ scope'[f] = scope[f] /\ stopped' = stopped /\ failed' = failed
        /\ dms' = dms /\ dms_delay_start' = dms_delay_start
    BY <1>1 DEF ctxVars
  <2>2. pc'[f]["start"] = pc[f]["start"] /\ pos'[f]["start"] = pos[f]["start"]
    BY <1>3, Symbols
  <2>3. LifeOf(f)'
    <3>1. CASE /\ pc'[f][k] \in {"next", "waiting"}
               /\ status'[f] = status[f]
               /\ status[f] \notin {"none", "validated"}
      BY <1>0, <1>2, <1>3, <2>1, <2>2, <3>1, Symbols DEF LifeOf, Quiet, UnderWay
    <3>2. CASE /\ pc'[f][k] = "over"
               /\ status'[f] = status[f]
               /\ status[f] # "running"
      BY <1>0, <1>2, <1>3, <2>1, <2>2, <3>2, Symbols DEF LifeOf, Quiet, UnderWay
    <3>3. CASE /\ pc'[f][k] = "over"
               /\ status'[f] = "stopped"
               /\ status[f] \notin {"none", "validated"}
      BY <1>0, <1>2, <1>3, <2>1, <2>2, <3>3, Symbols DEF LifeOf, Quiet, UnderWay
    <3>4. QED
      BY <1>3, <3>1, <3>2, <3>3
  <2>4. QED
    BY <1>0, <1>1, <1>3, <2>1, <2>3, LifeOthers
<1>4. CASE BeginStop(f, k)
  <2>1. CASE status[f] = "running"
    <3>1. Goto(f, k, "next") /\ "next" \in Label /\ UNCHANGED <<status, pos>>
      BY <1>4, <2>1, Symbols DEF BeginStop
    <3>2. QED
      BY <1>0, <1>3, <2>1, <3>1, GotoEffect
  <2>2. CASE status[f] # "running"
    <3>1. Goto(f, k, "over") /\ "over" \in Label /\ UNCHANGED <<status, pos>>
      BY <1>4, <2>2, Symbols DEF BeginStop
    <3>2. QED
      BY <1>0, <1>3, <2>2, <3>1, GotoEffect
  <2>3. QED
    BY <2>1, <2>2
<1>5. ASSUME pc[f][k] \in {"next", "waiting"}
      PROVE  status[f] \notin {"none", "validated"}
  BY <1>0, <1>5 DEF LifeOf, UnderWay
<1>6. CASE StopDecorator(f, k)
  <2>1. CASE Goto(f, k, "waiting") /\ UNCHANGED pos
    <3>1. "waiting" \in Label /\ UNCHANGED status /\ pc[f][k] = "next"
      BY <1>6, Symbols DEF StopDecorator
    <3>2. QED
      BY <1>0, <1>3, <1>5, <2>1, <3>1, GotoEffect
  <2>2. CASE Advance(f, k) /\ UNCHANGED pc
    <3>1. UNCHANGED status /\ pc[f][k] = "next"
      BY <1>6 DEF StopDecorator
    <3>2. QED
      BY <1>0, <1>3, <1>5, <2>2, <3>1, AdvanceEffect
  <2>3. QED
    BY <1>6, <2>1, <2>2 DEF StopDecorator
<1>7. CASE StopResumes(f, k)
  <2>1. /\ Goto(f, k, "next") /\ "next" \in Label /\ Advance(f, k)
        /\ UNCHANGED status /\ pc[f][k] = "waiting"
    BY <1>7, Symbols DEF StopResumes
  <2>2. QED
    BY <1>0, <1>3, <1>5, <2>1, GotoEffect, AdvanceEffect
<1>8. CASE StopEnds(f, k)
  <2>1. /\ Goto(f, k, "over") /\ "over" \in Label /\ UNCHANGED pos
        /\ status' = [status EXCEPT ![f] = "stopped"] /\ pc[f][k] = "next"
    BY <1>8, Symbols DEF StopEnds
  <2>2. status'[f] = "stopped" /\ \A g \in Function \ {f} : status'[g] = status[g]
    BY <1>0, <2>1 DEF ControlOK
  <2>3. QED
    BY <1>0, <1>3, <1>5, <2>1, <2>2, GotoEffect
<1>9. QED
  BY <1>4, <1>6, <1>7, <1>8 DEF StopStep

\* Types and lives are preserved by every step.
LEMMA LifeNext ==
  ASSUME TypeOK, Lifecycle, [Next]_vars
  PROVE  TypeOK' /\ Lifecycle'
<1>1. ASSUME NEW f \in Function,
             \/ DefineStarted(f) \/ DefineDelayed(f) \/ Forget(f)
      PROVE  TypeOK' /\ Lifecycle'
  BY <1>1, TypeFunction, LifeDefineStarted, LifeDefineDelayed, LifeForget
<1>2. ASSUME NEW f \in Function, StartStep(f) PROVE TypeOK' /\ Lifecycle'
  <2>1. TypeOK'
    BY <1>2, TypeStart
  <2>2. Lifecycle'
    BY <1>2, LifeStart, LifeStartCancelled, LifeStartEnds DEF StartStep
  <2>3. QED
    BY <2>1, <2>2
<1>3. ASSUME NEW f \in Function, NEW k \in Stop, StopStep(f, k)
      PROVE  TypeOK' /\ Lifecycle'
  BY <1>3, TypeStop, LifeStop
<1>4. ASSUME NEW c \in Ctx, StartContext(c) \/ StopContext(c)
      PROVE  TypeOK' /\ Lifecycle'
  BY <1>4, TypeContext, LifeStartContext, LifeStopContext
<1>5. CASE UNCHANGED vars
  <2>1. ResourcesOK' /\ ControlOK /\ ControlOK'
    BY <1>5, TypeSplit, UnchangedResources DEF vars, ctxVars, coVars, ControlOK
  <2>2. ASSUME NEW g \in Function PROVE LifeOf(g)'
    BY <1>5, LifeFrame DEF vars, ctxVars, coVars, Lifecycle
  <2>3. QED
    BY <2>1, <2>2, TypeSplit DEF Lifecycle
<1>6. QED
  BY <1>1, <1>2, <1>3, <1>4, <1>5 DEF Next

\* Types, and with them where each manager is in its life: its coroutines are
\* spawned once, by its own start, its context's stop and its finalizer.
THEOREM TypeCorrect == Spec => [](TypeOK /\ Lifecycle)
<1>1. Init => TypeOK /\ Lifecycle
  BY TypeInit, LifeInit
<1>2. TypeOK /\ Lifecycle /\ [Next]_vars => TypeOK' /\ Lifecycle'
  BY LifeNext
<1>3. QED
  BY <1>1, <1>2, PTL DEF Spec

\* dm.start() never meets a manager that is not validated, nor one twice, so
\* that its RuntimeError (decorator_abc.py:171-172) is dead code.
THEOREM StartsValid == Spec => []StartedOnlyValid
<1>1. TypeOK /\ Lifecycle => StartedOnlyValid
  BY Symbols DEF TypeOK, Lifecycle, LifeOf, StartedOnlyValid
<1>2. QED
  BY <1>1, TypeCorrect, PTL

\* A running manager is known to its context or about to be stopped: when the
\* context stops, no manager of it is left to run for ever.
THEOREM RunningOwned == Spec => []OwnedOrStopping
<1>1. TypeOK /\ Lifecycle => OwnedOrStopping
  BY DEF TypeOK, Lifecycle, LifeOf, OwnedOrStopping
<1>2. QED
  BY <1>1, TypeCorrect, PTL

-----------------------------------------------------------------------------
(* The tables of services *)

\* A step starts a decorator, stops one or only stores the remover of a
\* subscription; everything else leaves what is registered alone.
LEMMA ResourceStep ==
  ASSUME TypeOK, Lifecycle, [Next]_vars
  PROVE  \/ UNCHANGED <<webhooks, serviceVars>>
         \/ \E f \in Function : \E i \in DOMAIN Decorators[f] :
              \/ StartDecorator(f) /\ i = pos[f]["start"] /\ CanStart(<<f, i>>)
                 /\ Acquire(<<f, i>>, {"listener", "mqtt"})
              \/ StartSuspends(f) /\ i = pos[f]["start"] /\ CanStart(<<f, i>>)
                 /\ Acquire(<<f, i>>, {"listener"})
              \/ StartUndo(f) /\ i = pos[f]["start"] /\ Drop(<<f, i>>)
              \/ \E k \in Stop : /\ StopDecorator(f, k) /\ i = pos[f][k]
                                 /\ Drop(<<f, i>>)
<1>0. /\ \A f \in Function, k \in Co : pos[f][k] \in Nat \ {0}
      /\ "start" \in Co /\ Stop \subseteq Co
  BY Symbols DEF TypeOK
<1>1. ASSUME NEW f \in Function, StartDecorator(f)
      PROVE  /\ pos[f]["start"] \in DOMAIN Decorators[f]
             /\ CanStart(<<f, pos[f]["start"]>>)
             /\ Acquire(<<f, pos[f]["start"]>>, {"listener", "mqtt"})
  BY <1>0, <1>1, Live DEF StartDecorator
<1>2. ASSUME NEW f \in Function, StartSuspends(f)
      PROVE  /\ pos[f]["start"] \in DOMAIN Decorators[f]
             /\ CanStart(<<f, pos[f]["start"]>>)
             /\ Acquire(<<f, pos[f]["start"]>>, {"listener"})
  BY <1>0, <1>2, Live DEF StartSuspends
<1>3. ASSUME NEW f \in Function, StartUndo(f)
      PROVE  /\ pos[f]["start"] \in DOMAIN Decorators[f]
             /\ Drop(<<f, pos[f]["start"]>>)
  <2>1. failed[f] \in DOMAIN Decorators[f] /\ pos[f]["start"] < failed[f]
    BY <1>3 DEF StartUndo, Lifecycle, LifeOf
  <2>2. QED
    BY <1>0, <1>3, <2>1, Domain DEF StartUndo
<1>4. ASSUME NEW f \in Function, NEW k \in Stop, StopDecorator(f, k)
      PROVE  pos[f][k] \in DOMAIN Decorators[f] /\ Drop(<<f, pos[f][k]>>)
  BY <1>0, <1>4, Live DEF StopDecorator
<1>5. ASSUME NEW f \in Function,
             \/ DefineStarted(f) \/ DefineDelayed(f) \/ Forget(f)
             \/ BeginStart(f) \/ StartResumes(f) \/ StartRaises(f)
             \/ StartAwaitRaises(f) \/ StartCancelled(f) \/ StartUndoResumes(f)
             \/ StartEnds(f)
      PROVE  UNCHANGED <<webhooks, serviceVars>>
  BY <1>5 DEF DefineStarted, DefineDelayed, Forget, BeginStart, StartResumes,
              StartRaises, StartAwaitRaises, StartCancelled, StartUndoResumes,
              StartEnds, resources
<1>6. ASSUME NEW f \in Function, NEW k \in Stop,
             BeginStop(f, k) \/ StopResumes(f, k) \/ StopEnds(f, k)
      PROVE  UNCHANGED <<webhooks, serviceVars>>
  BY <1>6 DEF BeginStop, StopResumes, StopEnds, resources
<1>7. ASSUME NEW c \in Ctx, StartContext(c) \/ StopContext(c)
      PROVE  UNCHANGED <<webhooks, serviceVars>>
  BY <1>7 DEF StartContext, StopContext, resources
<1>8. CASE UNCHANGED vars
  BY <1>8 DEF vars, resources
<1>9. QED
  BY <1>1, <1>2, <1>3, <1>4, <1>5, <1>6, <1>7, <1>8 DEF Next, StartStep, StopStep

\* Starting or stopping a decorator keeps the three tables in step.
LEMMA TablesStep ==
  ASSUME TypeOK, Lifecycle, ServiceTablesAgree, [Next]_vars
  PROVE  ServiceTablesAgree'
<1>1. CASE UNCHANGED <<webhooks, serviceVars>>
  BY <1>1 DEF ServiceTablesAgree, serviceVars
<1>2. ASSUME NEW f \in Function, NEW i \in DOMAIN Decorators[f],
             NEW kinds, Acquire(<<f, i>>, kinds)
      PROVE  ServiceTablesAgree'
  <2> DEFINE key == Decorators[f][i].key
  <2>1. CASE Decorators[f][i].kind = "service"
    <3>1. Registry!service_register(<<f, i>>, key) /\ key \in Key /\ <<f, i>> \in Dec
      BY <1>2, <2>1, Places DEF Acquire
    <3>2. ContextOf[f] # NoContext /\ <<f, i>> # NoFunction
      BY <3>1, ManagerAssumption DEF ManagerAssumption
    <3>3. /\ service2global_ctx' = [service2global_ctx EXCEPT ![key] = ContextOf[f]]
          /\ service_cnt' = [service_cnt EXCEPT ![key] = @ + 1]
          /\ services' = [services EXCEPT ![key] = <<f, i>>]
      BY <3>1, RegisterEffect
    <3>4. service_cnt[key] \in Nat
      BY <3>1 DEF TypeOK, Registry!TypeOK
    <3>5. QED
      BY <3>1, <3>2, <3>3, <3>4 DEF ServiceTablesAgree, TypeOK, Registry!TypeOK
  <2>2. CASE Decorators[f][i].kind # "service"
    BY <1>2, <2>2 DEF Acquire, serviceVars, ServiceTablesAgree
  <2>3. QED
    BY <2>1, <2>2
<1>3. ASSUME NEW f \in Function, NEW i \in DOMAIN Decorators[f], Drop(<<f, i>>)
      PROVE  ServiceTablesAgree'
  <2> DEFINE key == Decorators[f][i].key
  <2>1. CASE Decorators[f][i].kind = "service"
    <3>1. Registry!service_remove(key) /\ key \in Key
      BY <1>3, <2>1, Places DEF Drop
    <3>2. /\ service_cnt \in [Key -> Nat] /\ service_cnt[key] \in Nat
          /\ service2global_ctx \in [Key -> Context \cup {NoContext}]
          /\ services \in [Key -> Dec \cup {NoFunction}]
      BY <3>1 DEF TypeOK, Registry!TypeOK
    <3>3. CASE service_cnt[key] > 1
      <4>1. /\ service_cnt' = [service_cnt EXCEPT ![key] = @ - 1]
            /\ UNCHANGED <<service2global_ctx, services>>
        BY <3>1, <3>3 DEF Registry!service_remove
      <4>2. QED
        BY <3>1, <3>2, <3>3, <4>1 DEF ServiceTablesAgree
    <3>4. CASE ~(service_cnt[key] > 1)
      <4>1. /\ service_cnt' = [service_cnt EXCEPT ![key] = 0]
            /\ services' = [services EXCEPT ![key] = NoFunction]
            /\ service2global_ctx' = [service2global_ctx EXCEPT ![key] = NoContext]
        BY <3>1, <3>4 DEF Registry!service_remove
      <4>2. QED
        BY <3>1, <3>2, <4>1 DEF ServiceTablesAgree
    <3>5. QED
      BY <3>3, <3>4
  <2>2. CASE Decorators[f][i].kind # "service"
    BY <1>3, <2>2 DEF Drop, serviceVars, ServiceTablesAgree
  <2>3. QED
    BY <2>1, <2>2
<1>4. QED
  BY <1>1, <1>2, <1>3, ResourceStep

\* The count, the owner and the callback of a service always tell one story,
\* whatever the managers do.
THEOREM TablesAgree == Spec => []ServiceTablesAgree
<1>1. Init => TypeOK /\ Lifecycle /\ ServiceTablesAgree
  BY TypeInit, LifeInit DEF Init, Registry!Init, ServiceTablesAgree
<1>2. TypeOK /\ Lifecycle /\ ServiceTablesAgree /\ [Next]_vars
        => (TypeOK /\ Lifecycle /\ ServiceTablesAgree)'
  BY LifeNext, TablesStep
<1>3. QED
  BY <1>1, <1>2, PTL DEF Spec

-----------------------------------------------------------------------------
(* One coroutine at a time *)

\* A manager none of whose coroutines gets under way.
LEMMA AloneFrame ==
  ASSUME NEW g \in Function, Alone(g), status'[g] = status[g] \/ status[g] = "none",
         LifeOf(g),
         \A k \in Co : UnderWay(g, k)' => UnderWay(g, k)
  PROVE  Alone(g)'
BY DEF Alone, LifeOf

\* A step of one coroutine of f, with the other managers left alone.
LEMMA AloneOthers ==
  ASSUME OneAtATime, Lifecycle, NEW f \in Function, tainted \subseteq tainted',
         \A g \in Function \ {f} :
           /\ status'[g] = status[g]
           /\ \A k \in Co : UnderWay(g, k)' => UnderWay(g, k),
         f \notin tainted' => Alone(f)'
  PROVE  OneAtATime'
<1>1. ASSUME NEW g \in Function \ {f}, g \notin tainted' PROVE Alone(g)'
  BY <1>1, AloneFrame DEF OneAtATime, Lifecycle
<1>2. QED
  BY <1>1 DEF OneAtATime

\* The steps of a context.
LEMMA AloneContext ==
  ASSUME TypeOK, Lifecycle, OneAtATime,
         \/ \E f \in Function : DefineStarted(f) \/ DefineDelayed(f) \/ Forget(f)
         \/ \E c \in Ctx : StartContext(c) \/ StopContext(c)
  PROVE  OneAtATime'
<1>0. ControlOK
  BY TypeSplit
<1>1. \A g \in Function, k \in Co : pc'[g][k] \in {pc[g][k], "ready"}
  <2>1. CASE \E f \in Function : DefineStarted(f)
    <3>1. PICK f \in Function : DefineStarted(f)
      BY <2>1
    <3>2. Goto(f, "start", "ready") /\ "start" \in Co /\ "ready" \in Label
      BY <3>1, Symbols DEF DefineStarted
    <3>3. QED
      BY <1>0, <3>2, GotoEffect
  <2>2. CASE \E f \in Function : DefineDelayed(f) \/ Forget(f)
    <3>1. PICK dead \in SUBSET Function : pc' = Finalized(dead)
      BY <2>2, ReplacedIs DEF DefineDelayed, Forget
    <3>2. QED
      BY <1>0, <3>1, FinalizedIs, Symbols
  <2>3. CASE \E c \in Ctx : StartContext(c) \/ StopContext(c)
    BY <1>0, <2>3 DEF StartContext, StopContext, ControlOK
  <2>4. QED
    BY <2>1, <2>2, <2>3
<1>2. /\ tainted' = tainted
      /\ \A g \in Function : status'[g] = status[g] \/ status[g] = "none"
  <2>1. ASSUME NEW f \in Function,
               DefineStarted(f) \/ DefineDelayed(f) \/ Forget(f)
        PROVE  /\ tainted' = tainted
               /\ \A g \in Function : status'[g] = status[g] \/ status[g] = "none"
    BY <1>0, <2>1 DEF DefineStarted, DefineDelayed, Forget, ControlOK, Lifecycle, LifeOf
  <2>2. QED
    BY <2>1 DEF StartContext, StopContext
<1>3. ASSUME NEW g \in Function, g \notin tainted PROVE Alone(g)'
  BY <1>1, <1>2, <1>3, AloneFrame DEF OneAtATime, Lifecycle, UnderWay
<1>4. QED
  BY <1>2, <1>3 DEF OneAtATime

\* A start gets under way when nothing else does, or in a tainted manager.
LEMMA AloneStart ==
  ASSUME TypeOK, Lifecycle, OneAtATime, NEW f \in Function, StartStep(f)
  PROVE  OneAtATime'
<1>0. ControlOK /\ LifeOf(f) /\ "start" \in Co /\ (f \notin tainted => Alone(f))
  BY TypeSplit, Symbols DEF Lifecycle, OneAtATime
<1>1. CASE BeginStart(f)
  <2>1. /\ Goto(f, "start", "next") /\ "next" \in Label
        /\ status' = [status EXCEPT ![f] = "running"] /\ tainted' = tainted
        /\ pc[f]["start"] = "ready" /\ status[f] = "validated"
    BY <1>0, <1>1, Symbols DEF BeginStart, LifeOf
  <2>2. \A k \in Co \ {"start"} : ~UnderWay(f, k)'
    BY <1>0, <2>1, GotoEffect DEF LifeOf, UnderWay
  <2>3. status'[f] = "running" /\ \A g \in Function \ {f} : status'[g] = status[g]
    BY <1>0, <2>1 DEF ControlOK
  <2>4. QED
    BY <1>0, <2>1, <2>2, <2>3, GotoEffect, AloneOthers DEF Alone, UnderWay
<1>2. ASSUME tainted \subseteq tainted', pc[f]["start"] # "ready",
             pc[f]["start"] # "over",
             \A g \in Function \ {f} : status'[g] = status[g],
             \A k \in Stop : pc'[f][k] \in {pc[f][k], "ready"},
             status'[f] = status[f] \/ pc'[f]["start"] = "over",
             \A g \in Function \ {f}, k \in Co : pc'[g][k] \in {pc[g][k], "ready"},
             pc[f]["start"] # "idle"
      PROVE  OneAtATime'
  <2>1. UnderWay(f, "start")
    BY <1>0, <1>2 DEF ControlOK, Label, UnderWay
  <2>2. f \notin tainted' => Alone(f)'
    BY <1>0, <1>2, <2>1, Symbols DEF Alone, UnderWay
  <2>3. \A g \in Function \ {f}, k \in Co : UnderWay(g, k)' => UnderWay(g, k)
    BY <1>2 DEF UnderWay
  <2>4. QED
    BY <1>2, <2>2, <2>3, AloneOthers
<1>3. CASE \/ StartDecorator(f) \/ StartSuspends(f) \/ StartResumes(f)
           \/ StartRaises(f) \/ StartAwaitRaises(f) \/ StartUndo(f)
           \/ StartUndoResumes(f)
  <2>1. /\ UNCHANGED status /\ tainted \subseteq tainted'
        /\ pc[f]["start"] \in {"next", "waiting", "undo", "undoing"}
        /\ \/ UNCHANGED pc
           \/ \E label \in Label : Goto(f, "start", label)
    BY <1>3, Symbols DEF StartDecorator, StartSuspends, StartResumes, StartRaises,
       StartAwaitRaises, StartUndo, StartUndoResumes
  <2>2. /\ \A k \in Stop : pc'[f][k] = pc[f][k]
        /\ \A g \in Function \ {f}, k \in Co : pc'[g][k] = pc[g][k]
    BY <1>0, <2>1, GotoEffect, Symbols
  <2>3. QED
    BY <1>2, <2>1, <2>2
<1>4. CASE StartCancelled(f) \/ StartEnds(f)
  <2>1. PICK dead \in SUBSET Function :
          pc' \in {[Finalized(dead) EXCEPT ![f]["start"] = "over"],
                   [pc EXCEPT ![f]["start"] = "over"]}
    BY <1>4, ReplacedIs DEF StartCancelled, StartEnds, Goto
  <2>2. /\ \A k \in Stop : pc'[f][k] \in {pc[f][k], "ready"}
        /\ \A g \in Function \ {f}, k \in Co : pc'[g][k] \in {pc[g][k], "ready"}
        /\ pc'[f]["start"] = "over"
    <3>1. CASE pc' = [Finalized(dead) EXCEPT ![f]["start"] = "over"]
      BY <1>0, <3>1, FinalizedIs, Symbols
    <3>2. CASE pc' = [pc EXCEPT ![f]["start"] = "over"]
      BY <1>0, <3>2, Symbols DEF ControlOK
    <3>3. QED
      BY <2>1, <3>1, <3>2
  <2>3. /\ \A g \in Function \ {f} : status'[g] = status[g]
        /\ tainted \subseteq tainted'
        /\ pc[f]["start"] \in {"next", "waiting", "undo", "undoing"}
    BY <1>0, <1>4 DEF StartCancelled, StartEnds, ControlOK
  <2>4. QED
    BY <1>2, <2>2, <2>3
<1>5. QED
  BY <1>1, <1>3, <1>4 DEF StartStep

\* So does a stop.
LEMMA AloneStop ==
  ASSUME TypeOK, Lifecycle, OneAtATime, NEW f \in Function, NEW k \in Stop,
         StopStep(f, k)
  PROVE  OneAtATime'
<1>0. ControlOK /\ LifeOf(f) /\ k \in Co /\ (f \notin tainted => Alone(f))
  BY TypeSplit, Symbols DEF Lifecycle, OneAtATime
<1>1. PICK label \in Label : Goto(f, k, label) \/ UNCHANGED pc
  BY Symbols DEF StopStep, BeginStop, StopDecorator, StopResumes, StopEnds
<1>2. /\ \A j \in Co \ {k} : pc'[f][j] = pc[f][j]
      /\ \A g \in Function \ {f}, j \in Co : pc'[g][j] = pc[g][j]
  BY <1>0, <1>1, GotoEffect
<1>3. /\ tainted \subseteq tainted'
      /\ \A g \in Function \ {f} : status'[g] = status[g]
  BY <1>0 DEF StopStep, BeginStop, StopDecorator, StopResumes, StopEnds, ControlOK
<1>4. f \notin tainted' => Alone(f)'
  <2>1. CASE BeginStop(f, k) /\ status[f] = "running"
    BY <1>0, <1>2, <2>1 DEF BeginStop, Alone, Quiet, UnderWay
  <2>2. CASE BeginStop(f, k) /\ status[f] # "running"
    <3>1. Goto(f, k, "over") /\ "over" \in Label /\ UNCHANGED <<status, tainted>>
      BY <2>2, Symbols DEF BeginStop
    <3>2. pc'[f][k] = "over"
      BY <1>0, <3>1, GotoEffect
    <3>3. QED
      BY <1>0, <1>2, <3>1, <3>2 DEF Alone, UnderWay
  <2>3. CASE StopDecorator(f, k) \/ StopResumes(f, k) \/ StopEnds(f, k)
    <3>1. UnderWay(f, k) /\ tainted' = tainted
      BY <2>3 DEF StopDecorator, StopResumes, StopEnds, UnderWay
    <3>2. \/ status'[f] = status[f]
          \/ pc'[f][k] = "over"
      <4>1. CASE StopEnds(f, k)
        <5>1. Goto(f, k, "over") /\ "over" \in Label
          BY <4>1, Symbols DEF StopEnds
        <5>2. QED
          BY <1>0, <5>1, GotoEffect
      <4>2. QED
        BY <2>3, <4>1 DEF StopDecorator, StopResumes
    <3>3. QED
      BY <1>0, <1>2, <3>1, <3>2 DEF Alone, UnderWay
  <2>4. QED
    BY <2>1, <2>2, <2>3 DEF StopStep
<1>5. QED
  BY <1>2, <1>3, <1>4, AloneOthers DEF UnderWay

\* Every step keeps the coroutines of untainted managers apart.
LEMMA AloneNext ==
  ASSUME TypeOK, Lifecycle, OneAtATime, [Next]_vars
  PROVE  OneAtATime'
<1>1. CASE UNCHANGED vars
  BY <1>1 DEF vars, coVars, OneAtATime, Alone, UnderWay
<1>2. QED
  BY <1>1, AloneContext, AloneStart, AloneStop DEF Next

-----------------------------------------------------------------------------
(* What is registered *)

\* A step that puts no coroutine of g under way or further on.
LEMMA RegisteredFrame ==
  ASSUME NEW g \in Function,
         \/ status'[g] = status[g]
         \/ status[g] # "running" /\ status'[g] # "running",
         pos'[g] = pos[g], failed'[g] = failed[g],
         \A k \in Co : \/ pc'[g][k] = pc[g][k]
                       \/ ~UnderWay(g, k) /\ ~UnderWay(g, k)'
  PROVE  Registered(g)' = Registered(g)
<1>1. Stop \subseteq Co /\ "start" \in Co
  BY Symbols
<1>2. \A k \in Co, label \in {"next", "waiting", "undo", "undoing"} :
        pc'[g][k] = label <=> pc[g][k] = label
  BY DEF UnderWay
<1>3. \A i \in DOMAIN Decorators[g] : i \in Registered(g)' <=> i \in Registered(g)
  BY <1>1, <1>2 DEF Registered
<1>4. Registered(g) \subseteq DOMAIN Decorators[g] /\ Registered(g)' \subseteq DOMAIN Decorators[g]
  BY DEF Registered
<1>5. QED
  BY <1>3, <1>4

\* The finalizers that get ready were idle.
LEMMA FinalizedQuiet ==
  ASSUME ControlOK, Lifecycle, NEW dead \in SUBSET Function,
         \A g \in dead : scope[g] \in {"stored", "local"}
  PROVE  \A g \in Function, k \in Co :
           \/ Finalized(dead)[g][k] = pc[g][k]
           \/ ~UnderWay(g, k) /\ Finalized(dead)[g][k] = "ready"
BY FinalizedIs, Symbols DEF Lifecycle, LifeOf, UnderWay

\* The steps of a context register nothing and start nothing.
LEMMA RegisteredContext ==
  ASSUME TypeOK, Lifecycle, NEW g \in Function,
         \/ \E f \in Function : DefineStarted(f) \/ DefineDelayed(f) \/ Forget(f)
         \/ \E c \in Ctx : StartContext(c) \/ StopContext(c)
  PROVE  Registered(g)' = Registered(g)
<1>0. ControlOK /\ LifeOf(g)
  BY TypeSplit DEF Lifecycle
<1>1. \A k \in Co : \/ pc'[g][k] = pc[g][k]
                    \/ ~UnderWay(g, k) /\ pc'[g][k] = "ready"
  <2>1. CASE \E f \in Function : DefineStarted(f)
    <3>1. PICK f \in Function : DefineStarted(f)
      BY <2>1
    <3>2. /\ Goto(f, "start", "ready") /\ "start" \in Co /\ "ready" \in Label
          /\ pc[f]["start"] = "idle"
      BY <3>1, Symbols DEF DefineStarted, Lifecycle, LifeOf
    <3>3. QED
      BY <1>0, <3>2, GotoEffect DEF UnderWay
  <2>2. CASE \E f \in Function : DefineDelayed(f) \/ Forget(f)
    <3>1. PICK dead \in SUBSET Function :
            pc' = Finalized(dead) /\ \A h \in dead : scope[h] \in {"stored", "local"}
      BY <2>2, ReplacedIs DEF DefineDelayed, Forget
    <3>2. QED
      BY <1>0, <3>1, FinalizedQuiet
  <2>3. CASE \E c \in Ctx : StartContext(c)
    BY <1>0, <2>3 DEF StartContext, ControlOK, LifeOf, UnderWay
  <2>4. CASE \E c \in Ctx : StopContext(c)
    BY <1>0, <2>4 DEF StopContext, ControlOK, LifeOf, UnderWay
  <2>5. QED
    BY <2>1, <2>2, <2>3, <2>4
<1>2. /\ \/ status'[g] = status[g]
         \/ status[g] # "running" /\ status'[g] # "running"
      /\ pos'[g] = pos[g] /\ failed'[g] = failed[g]
  <2>1. ASSUME NEW f \in Function,
               DefineStarted(f) \/ DefineDelayed(f) \/ Forget(f)
        PROVE  /\ \/ status'[g] = status[g]
                  \/ status[g] # "running" /\ status'[g] # "running"
               /\ pos'[g] = pos[g] /\ failed'[g] = failed[g]
    <3>1. CASE DefineStarted(f)
      BY <1>0, <3>1 DEF DefineStarted, ControlOK, Lifecycle, LifeOf
    <3>2. CASE DefineDelayed(f)
      <4>1. status[f] = "none"
        BY <3>2 DEF DefineDelayed, Lifecycle, LifeOf
      <4>2. /\ status' = [status EXCEPT ![f] = "validated"]
            /\ UNCHANGED <<pos, failed>>
        BY <3>2 DEF DefineDelayed
      <4>3. QED
        BY <1>0, <4>1, <4>2 DEF ControlOK
    <3>3. CASE Forget(f)
      BY <3>3 DEF Forget
    <3>4. QED
      BY <2>1, <3>1, <3>2, <3>3
  <2>2. QED
    BY <2>1 DEF StartContext, StopContext
<1>3. QED
  BY <1>1, <1>2, RegisteredFrame DEF UnderWay

\* A step of start says nothing of other managers.
LEMMA RegisteredOthersStart ==
  ASSUME TypeOK, Lifecycle, NEW f \in Function, StartStep(f),
         NEW g \in Function \ {f}
  PROVE  Registered(g)' = Registered(g)
<1>0. ControlOK
  BY TypeSplit
<1>1. /\ status'[g] = status[g] /\ pos'[g] = pos[g] /\ failed'[g] = failed[g]
  <2>1. status'[g] = status[g]
    BY <1>0 DEF StartStep, BeginStart, StartDecorator, StartSuspends, StartResumes,
      StartRaises, StartAwaitRaises, StartCancelled, StartUndo, StartUndoResumes,
      StartEnds, ControlOK
  <2>2. pos'[g] = pos[g]
    BY <1>0 DEF StartStep, BeginStart, StartDecorator, StartSuspends, StartResumes,
      StartRaises, StartAwaitRaises, StartCancelled, StartUndo, StartUndoResumes,
      StartEnds, ControlOK, Advance
  <2>3. failed'[g] = failed[g]
    BY <1>0 DEF StartStep, BeginStart, StartDecorator, StartSuspends, StartResumes,
      StartRaises, StartAwaitRaises, StartCancelled, StartUndo, StartUndoResumes,
      StartEnds, ControlOK
  <2>4. QED
    BY <2>1, <2>2, <2>3
<1>2. \A k \in Co : \/ pc'[g][k] = pc[g][k]
                    \/ ~UnderWay(g, k) /\ pc'[g][k] = "ready"
  <2>1. CASE \/ BeginStart(f) \/ StartDecorator(f) \/ StartSuspends(f)
             \/ StartResumes(f) \/ StartRaises(f) \/ StartAwaitRaises(f)
             \/ StartUndo(f) \/ StartUndoResumes(f)
    BY <1>0, <2>1 DEF BeginStart, StartDecorator, StartSuspends, StartResumes,
      StartRaises, StartAwaitRaises, StartUndo, StartUndoResumes, Goto, ControlOK
  <2>2. CASE StartCancelled(f) \/ StartEnds(f)
    <3>1. PICK dead \in SUBSET Function :
            /\ pc' \in {[Finalized(dead) EXCEPT ![f]["start"] = "over"],
                        [pc EXCEPT ![f]["start"] = "over"]}
            /\ \A h \in dead : scope[h] \in {"stored", "local"}
      BY <2>2, ReplacedIs DEF StartCancelled, StartEnds, Goto
    <3>2. CASE pc' = [Finalized(dead) EXCEPT ![f]["start"] = "over"]
      BY <1>0, <3>1, <3>2, FinalizedQuiet, FinalizedIs
    <3>3. CASE pc' = [pc EXCEPT ![f]["start"] = "over"]
      BY <1>0, <3>3 DEF ControlOK
    <3>4. QED
      BY <3>1, <3>2, <3>3
  <2>3. QED
    BY <2>1, <2>2 DEF StartStep
<1>3. QED
  BY <1>1, <1>2, RegisteredFrame DEF UnderWay

\* A step of stop says nothing of other managers.
LEMMA RegisteredOthersStop ==
  ASSUME TypeOK, NEW f \in Function, NEW k \in Stop, StopStep(f, k),
         NEW g \in Function \ {f}
  PROVE  Registered(g)' = Registered(g)
<1>1. ControlOK
  BY TypeSplit
<1>2. /\ status'[g] = status[g] /\ pos'[g] = pos[g] /\ failed'[g] = failed[g]
      /\ pc'[g] = pc[g]
  BY <1>1 DEF StopStep, BeginStop, StopDecorator, StopResumes, StopEnds, ControlOK,
              Goto, Advance
<1>3. QED
  BY <1>2, RegisteredFrame

\* A coroutine of f that is under way is the only one.
LEMMA UnderWayAlone ==
  ASSUME TypeOK, Lifecycle, OneAtATime, NEW f \in Function, f \notin tainted,
         NEW k \in Co, UnderWay(f, k)
  PROVE  /\ ControlOK /\ LifeOf(f)
         /\ status[f] = "running"
         /\ \A j \in Co \ {k} : ~UnderWay(f, j)
         /\ pos[f][k] \in Nat \ {0}
         /\ DOMAIN Decorators[f] = 1 .. Len(Decorators[f])
         /\ Len(Decorators[f]) \in Nat
BY TypeSplit, Domain DEF Lifecycle, OneAtATime, Alone, ControlOK

\* While start is under way, alone, it alone says what is registered.
LEMMA ByStart ==
  ASSUME NEW f \in Function,
         status[f] = "running", \A j \in Co \ {"start"} : ~UnderWay(f, j),
         status'[f] = "running", \A j \in Co \ {"start"} : pc'[f][j] = pc[f][j]
  PROVE  /\ \A i \in DOMAIN Decorators[f] : i \in Registered(f) <=>
              /\ pc[f]["start"] = "next" => i < pos[f]["start"]
              /\ pc[f]["start"] = "waiting" =>
                   \/ i < pos[f]["start"]
                   \/ i = pos[f]["start"] /\ Decorators[f][i].kind = "service"
              /\ pc[f]["start"] = "undo" => pos[f]["start"] <= i /\ i < failed[f]
              /\ pc[f]["start"] = "undoing" => pos[f]["start"] < i /\ i < failed[f]
         /\ \A i \in DOMAIN Decorators[f] : i \in Registered(f)' <=>
              /\ pc'[f]["start"] = "next" => i < pos'[f]["start"]
              /\ pc'[f]["start"] = "waiting" =>
                   \/ i < pos'[f]["start"]
                   \/ i = pos'[f]["start"] /\ Decorators[f][i].kind = "service"
              /\ pc'[f]["start"] = "undo" => pos'[f]["start"] <= i /\ i < failed'[f]
              /\ pc'[f]["start"] = "undoing" => pos'[f]["start"] < i /\ i < failed'[f]
         /\ Registered(f) \subseteq DOMAIN Decorators[f]
         /\ Registered(f)' \subseteq DOMAIN Decorators[f]
BY Symbols DEF Registered, UnderWay

\* What f has registered as its start goes on.
LEMMA RegisteredBegin ==
  ASSUME TypeOK, Lifecycle, NEW f \in Function, BeginStart(f)
  PROVE  Registered(f)' = Registered(f)
<1>1. /\ pc[f]["start"] = "ready" /\ status[f] = "validated"
      /\ pos'[f]["start"] = 1 /\ ControlOK
  BY TypeSplit, Symbols DEF BeginStart, Lifecycle, LifeOf
<1>2. pc'[f]["start"] = "next"
  BY <1>1, GotoEffect, Symbols DEF BeginStart
<1>3. Registered(f) = {}
  BY <1>1 DEF Registered
<1>4. ~ \E i \in DOMAIN Decorators[f] : i \in Registered(f)'
  BY <1>1, <1>2, Domain DEF Registered
<1>5. Registered(f)' \subseteq DOMAIN Decorators[f]
  BY DEF Registered
<1>6. QED
  BY <1>3, <1>4, <1>5

\* The decorator that starts joins those registered.
LEMMA RegisteredStartDecorator ==
  ASSUME TypeOK, Lifecycle, OneAtATime, NEW f \in Function, f \notin tainted,
         NEW i, i = pos[f]["start"], StartDecorator(f)
  PROVE  i \notin Registered(f) /\ Registered(f)' = Registered(f) \cup {i}
<1>1. UnderWay(f, "start") /\ "start" \in Co
  BY Symbols DEF StartDecorator, UnderWay
<1>2. /\ pc[f]["start"] = "next" /\ pc' = pc /\ status' = status
      /\ i \in DOMAIN Decorators[f]
      /\ pos'[f]["start"] = i + 1
  BY <1>1, UnderWayAlone, AdvanceEffect, Live, TypeSplit DEF StartDecorator, ControlOK
<1>3. \A j \in DOMAIN Decorators[f] :
        /\ j \in Registered(f) <=> j < i
        /\ j \in Registered(f)' <=> j < i + 1
  BY <1>1, <1>2, UnderWayAlone, ByStart
<1>4. i \in Nat /\ \A j \in DOMAIN Decorators[f] : j \in Nat
  BY <1>2, Places
<1>5. Registered(f) \subseteq DOMAIN Decorators[f] /\ Registered(f)' \subseteq DOMAIN Decorators[f]
  BY DEF Registered
<1>6. QED
  BY <1>2, <1>3, <1>4, <1>5

\* One that suspends joins them if it is a service.
LEMMA RegisteredStartSuspends ==
  ASSUME TypeOK, Lifecycle, OneAtATime, NEW f \in Function, f \notin tainted,
         NEW i, i = pos[f]["start"], StartSuspends(f)
  PROVE  /\ i \notin Registered(f)
         /\ Registered(f)' = IF Decorators[f][i].kind = "service"
                               THEN Registered(f) \cup {i} ELSE Registered(f)
<1>1. UnderWay(f, "start") /\ "start" \in Co
  BY Symbols DEF StartSuspends, UnderWay
<1>2. /\ pc[f]["start"] = "next" /\ status' = status /\ pos' = pos
      /\ i \in DOMAIN Decorators[f]
      /\ pc'[f]["start"] = "waiting"
      /\ \A j \in Co \ {"start"} : pc'[f][j] = pc[f][j]
  BY <1>1, UnderWayAlone, GotoEffect, Live, Symbols DEF StartSuspends
<1>3. \A j \in DOMAIN Decorators[f] :
        /\ j \in Registered(f) <=> j < i
        /\ j \in Registered(f)' <=>
             (j < i \/ (j = i /\ Decorators[f][j].kind = "service"))
  <2>1. /\ status[f] = "running" /\ status'[f] = "running" /\ pos'[f]["start"] = i
        /\ \A j \in Co \ {"start"} : ~UnderWay(f, j)
    BY <1>1, <1>2, UnderWayAlone
  <2>2. QED
    BY <1>2, <2>1, ByStart
<1>4. i \in Nat /\ \A j \in DOMAIN Decorators[f] : j \in Nat
  BY <1>2, Places
<1>5. Registered(f) \subseteq DOMAIN Decorators[f] /\ Registered(f)' \subseteq DOMAIN Decorators[f]
  BY DEF Registered
<1>6. CASE Decorators[f][i].kind = "service"
  BY <1>2, <1>3, <1>4, <1>5, <1>6
<1>7. CASE Decorators[f][i].kind # "service"
  BY <1>2, <1>3, <1>4, <1>5, <1>7
<1>8. QED
  BY <1>6, <1>7

\* One that resumes is among them afterwards.
LEMMA RegisteredStartResumes ==
  ASSUME TypeOK, Lifecycle, OneAtATime, NEW f \in Function, f \notin tainted,
         NEW i, i = pos[f]["start"], StartResumes(f)
  PROVE  /\ Registered(f)' = Registered(f) \cup {i}
         /\ i \in DOMAIN Decorators[f]
         /\ Decorators[f][i].kind \in {"mqtt", "service"}
         /\ Decorators[f][i].kind = "service" => i \in Registered(f)
<1>1. UnderWay(f, "start") /\ "start" \in Co
  BY Symbols DEF StartResumes, UnderWay
<1>2. /\ pc[f]["start"] = "waiting" /\ status' = status
      /\ i \in DOMAIN Decorators[f]
      /\ Decorators[f][i].kind \in {"mqtt", "service"}
      /\ pc'[f]["start"] = "next" /\ pos'[f]["start"] = i + 1
      /\ \A j \in Co \ {"start"} : pc'[f][j] = pc[f][j]
  <2>1. ControlOK /\ LifeOf(f)
    BY <1>1, UnderWayAlone
  <2>2. /\ pc[f]["start"] = "waiting" /\ status' = status
        /\ Goto(f, "start", "next") /\ Advance(f, "start") /\ "next" \in Label
    BY Symbols DEF StartResumes
  <2>3. /\ i \in DOMAIN Decorators[f]
        /\ Decorators[f][i].kind \in {"mqtt", "service"}
    BY <2>1, <2>2 DEF LifeOf
  <2>4. QED
    BY <1>1, <2>1, <2>2, <2>3, GotoEffect, AdvanceEffect
<1>3. \A j \in DOMAIN Decorators[f] :
        /\ j \in Registered(f) <=>
             (j < i \/ (j = i /\ Decorators[f][j].kind = "service"))
        /\ j \in Registered(f)' <=> j < i + 1
  <2>1. /\ status[f] = "running" /\ status'[f] = "running"
        /\ \A j \in Co \ {"start"} : ~UnderWay(f, j)
    BY <1>1, <1>2, UnderWayAlone
  <2>2. QED
    BY <1>2, <2>1, ByStart
<1>4. i \in Nat /\ \A j \in DOMAIN Decorators[f] : j \in Nat
  BY <1>2, Places
<1>5. Registered(f) \subseteq DOMAIN Decorators[f] /\ Registered(f)' \subseteq DOMAIN Decorators[f]
  BY DEF Registered
<1>6. QED
  BY <1>2, <1>3, <1>4, <1>5

\* A failed start keeps what had started for the undo.
LEMMA RegisteredStartRaises ==
  ASSUME TypeOK, Lifecycle, OneAtATime, NEW f \in Function, f \notin tainted',
         StartRaises(f) \/ StartAwaitRaises(f)
  PROVE  Registered(f)' = Registered(f)
<1> DEFINE i == pos[f]["start"]
<1>1. UnderWay(f, "start") /\ "start" \in Co /\ f \notin tainted
  BY Symbols DEF StartRaises, StartAwaitRaises, UnderWay
<1>2. /\ pc[f]["start"] \in {"next", "waiting"} /\ status' = status
      /\ pc[f]["start"] = "waiting" => Decorators[f][i].kind # "service"
      /\ failed' = [failed EXCEPT ![f] = i]
      /\ pos' = [pos EXCEPT ![f]["start"] = 1]
      /\ Goto(f, "start", "undo") /\ "undo" \in Label
  BY Symbols DEF StartRaises, StartAwaitRaises
<1>3. /\ pc'[f]["start"] = "undo" /\ pos'[f]["start"] = 1 /\ failed'[f] = i
      /\ \A j \in Co \ {"start"} : pc'[f][j] = pc[f][j]
      /\ i \in Nat
  BY <1>1, <1>2, UnderWayAlone, GotoEffect DEF ControlOK
<1>4. \A j \in DOMAIN Decorators[f] :
        /\ j \in Registered(f) <=> j < i
        /\ j \in Registered(f)' <=> 1 <= j /\ j < i
  BY <1>1, <1>2, <1>3, UnderWayAlone, ByStart
<1>5. \A j \in DOMAIN Decorators[f] : j \in Nat /\ 1 <= j
  BY Places
<1>6. Registered(f) \subseteq DOMAIN Decorators[f] /\ Registered(f)' \subseteq DOMAIN Decorators[f]
  BY DEF Registered
<1>7. QED
  BY <1>4, <1>5, <1>6

\* The decorator that the undo stops leaves them.
LEMMA RegisteredStartUndo ==
  ASSUME TypeOK, Lifecycle, OneAtATime, NEW f \in Function, f \notin tainted,
         NEW i, i = pos[f]["start"], StartUndo(f)
  PROVE  i \in Registered(f) /\ Registered(f)' = Registered(f) \ {i}
<1>1. UnderWay(f, "start") /\ "start" \in Co
  BY Symbols DEF StartUndo, UnderWay
<1>2. /\ pc[f]["start"] = "undo" /\ status' = status /\ failed' = failed
      /\ i < failed[f] /\ failed[f] \in DOMAIN Decorators[f]
      /\ i \in Nat \ {0}
  BY <1>1, UnderWayAlone, Symbols DEF StartUndo, LifeOf
<1>3. i \in DOMAIN Decorators[f]
  BY <1>1, <1>2, UnderWayAlone
<1>4. /\ \A j \in Co \ {"start"} : pc'[f][j] = pc[f][j]
      /\ \/ pc'[f]["start"] = "undoing" /\ pos'[f]["start"] = i
         \/ pc'[f]["start"] = "undo" /\ pos'[f]["start"] = i + 1
  <2>1. CASE Goto(f, "start", "undoing") /\ UNCHANGED pos
    BY <1>1, <2>1, UnderWayAlone, GotoEffect, Symbols
  <2>2. CASE Advance(f, "start") /\ UNCHANGED pc
    BY <1>1, <1>2, <2>2, UnderWayAlone, AdvanceEffect
  <2>3. QED
    BY <2>1, <2>2 DEF StartUndo
<1>5. \A j \in DOMAIN Decorators[f] : j \in Nat
  BY Places
<1>6. \A j \in DOMAIN Decorators[f] :
        /\ j \in Registered(f) <=> i <= j /\ j < failed[f]
        /\ j \in Registered(f)' <=> i < j /\ j < failed[f]
  BY <1>1, <1>2, <1>4, <1>5, UnderWayAlone, ByStart
<1>7. Registered(f) \subseteq DOMAIN Decorators[f] /\ Registered(f)' \subseteq DOMAIN Decorators[f]
  BY DEF Registered
<1>8. QED
  BY <1>2, <1>3, <1>5, <1>6, <1>7

\* The undo goes on with what it has left.
LEMMA RegisteredUndoResumes ==
  ASSUME TypeOK, Lifecycle, OneAtATime, NEW f \in Function, f \notin tainted,
         StartUndoResumes(f)
  PROVE  Registered(f)' = Registered(f)
<1> DEFINE i == pos[f]["start"]
<1>1. UnderWay(f, "start") /\ "start" \in Co
  BY Symbols DEF StartUndoResumes, UnderWay
<1>2. /\ pc[f]["start"] = "undoing" /\ status' = status /\ failed' = failed
      /\ pc'[f]["start"] = "undo" /\ pos'[f]["start"] = i + 1
      /\ \A j \in Co \ {"start"} : pc'[f][j] = pc[f][j]
      /\ i \in Nat
  BY <1>1, UnderWayAlone, GotoEffect, AdvanceEffect, Symbols DEF StartUndoResumes
<1>3. \A j \in DOMAIN Decorators[f] : j \in Nat
  BY Places
<1>4. \A j \in DOMAIN Decorators[f] : j \in Registered(f) <=> j \in Registered(f)'
  BY <1>1, <1>2, <1>3, UnderWayAlone, ByStart
<1>5. Registered(f) \subseteq DOMAIN Decorators[f] /\ Registered(f)' \subseteq DOMAIN Decorators[f]
  BY DEF Registered
<1>6. QED
  BY <1>4, <1>5

\* The end of start neither adds nor removes any.
LEMMA RegisteredEnds ==
  ASSUME TypeOK, Lifecycle, OneAtATime, NEW f \in Function, f \notin tainted,
         StartEnds(f)
  PROVE  Registered(f)' = Registered(f)
<1> DEFINE i == pos[f]["start"]
<1>1. UnderWay(f, "start") /\ "start" \in Co
  BY Symbols DEF StartEnds, UnderWay
<1>2. /\ pc'[f]["start"] = "over"
      /\ \A j \in Co \ {"start"} : pc'[f][j] = pc[f][j]
  <2>1. CASE scope[f] = "local"
    <3>1. /\ pc' = [Finalized(Replaced(f)) EXCEPT ![f]["start"] = "over"]
          /\ f \notin Replaced(f) /\ Replaced(f) \in SUBSET Function
      BY <2>1, ReplacedIs DEF StartEnds
    <3>2. QED
      BY <1>1, <3>1, UnderWayAlone, FinalizedIs, Symbols
  <2>2. CASE scope[f] # "local"
    BY <1>1, <2>2, UnderWayAlone, GotoEffect, Symbols DEF StartEnds
  <2>3. QED
    BY <2>1, <2>2
<1>3. Registered(f) \subseteq DOMAIN Decorators[f] /\ Registered(f)' \subseteq DOMAIN Decorators[f]
  BY DEF Registered
<1>4. CASE pc[f]["start"] = "next"
  <2>1. status'[f] = "running" /\ \A j \in DOMAIN Decorators[f] : j < i
    BY <1>1, <1>4, UnderWayAlone, Live DEF StartEnds
  <2>2. \A j \in DOMAIN Decorators[f] : j \in Registered(f) /\ j \in Registered(f)'
    BY <1>1, <1>2, <1>4, <2>1, UnderWayAlone, ByStart
  <2>3. QED
    BY <1>3, <2>2
<1>5. CASE pc[f]["start"] = "undo"
  <2>1. status'[f] = "invalid" /\ i >= failed[f] /\ i \in Nat /\ failed[f] \in Nat
    BY <1>1, <1>5, UnderWayAlone DEF StartEnds, ControlOK
  <2>2. \A j \in DOMAIN Decorators[f] : j \in Nat
    BY Places
  <2>3. \A j \in DOMAIN Decorators[f] : j \notin Registered(f)
    BY <1>5, <2>1, <2>2 DEF Registered
  <2>4. \A j \in DOMAIN Decorators[f] : j \notin Registered(f)'
    BY <2>1 DEF Registered
  <2>5. QED
    BY <1>3, <2>3, <2>4
<1>6. QED
  BY <1>4, <1>5 DEF StartEnds

\* While a stop is under way, alone, it alone says what is registered.
LEMMA ByStop ==
  ASSUME NEW f \in Function, NEW k \in Stop,
         status[f] = "running", \A j \in Co \ {k} : ~UnderWay(f, j),
         status'[f] = "running", \A j \in Co \ {k} : pc'[f][j] = pc[f][j]
  PROVE  /\ \A i \in DOMAIN Decorators[f] : i \in Registered(f) <=>
              /\ pc[f][k] = "next" => pos[f][k] <= i
              /\ pc[f][k] = "waiting" => pos[f][k] < i
         /\ \A i \in DOMAIN Decorators[f] : i \in Registered(f)' <=>
              /\ pc'[f][k] = "next" => pos'[f][k] <= i
              /\ pc'[f][k] = "waiting" => pos'[f][k] < i
         /\ Registered(f) \subseteq DOMAIN Decorators[f]
         /\ Registered(f)' \subseteq DOMAIN Decorators[f]
BY Symbols DEF Registered, UnderWay

\* What f has registered as it is stopped.
LEMMA RegisteredBeginStop ==
  ASSUME TypeOK, Lifecycle, NEW f \in Function, NEW k \in Stop, f \notin tainted',
         BeginStop(f, k)
  PROVE  Registered(f)' = Registered(f)
<1>0. ControlOK /\ LifeOf(f) /\ k \in Co /\ status' = status
  BY TypeSplit, Symbols DEF BeginStop, Lifecycle
<1>1. CASE status[f] = "running"
  <2>1. /\ Goto(f, k, "next") /\ "next" \in Label
        /\ \A j \in Co \ {k} : Quiet(f, j)
        /\ pos'[f][k] = 1 /\ pc[f][k] = "ready"
    BY <1>0, <1>1, Symbols DEF BeginStop, LifeOf
  <2>2. pc'[f][k] = "next" /\ \A j \in Co \ {k} : pc'[f][j] = pc[f][j]
    BY <1>0, <2>1, GotoEffect
  <2>3. \A j \in Co \ {k} : ~UnderWay(f, j)
    BY <2>1 DEF Quiet, UnderWay
  <2>4. \A j \in DOMAIN Decorators[f] : j \in Nat /\ 1 <= j
    BY Places
  <2>5. \A j \in DOMAIN Decorators[f] : j \in Registered(f) /\ j \in Registered(f)'
    BY <1>0, <1>1, <2>1, <2>2, <2>3, <2>4, ByStop
  <2>6. Registered(f) \subseteq DOMAIN Decorators[f] /\ Registered(f)' \subseteq DOMAIN Decorators[f]
    BY DEF Registered
  <2>7. QED
    BY <2>5, <2>6
<1>2. CASE status[f] # "running"
  BY <1>0, <1>2 DEF Registered
<1>3. QED
  BY <1>1, <1>2

\* The decorator that is stopped leaves them.
LEMMA RegisteredStopDecorator ==
  ASSUME TypeOK, Lifecycle, OneAtATime, NEW f \in Function, f \notin tainted,
         NEW k \in Stop, NEW i, i = pos[f][k], StopDecorator(f, k)
  PROVE  i \in Registered(f) /\ Registered(f)' = Registered(f) \ {i}
<1>1. UnderWay(f, k) /\ k \in Co
  BY Symbols DEF StopDecorator, UnderWay
<1>2. /\ pc[f][k] = "next" /\ status' = status /\ i \in Nat \ {0}
      /\ i \in DOMAIN Decorators[f]
  BY <1>1, UnderWayAlone, Live DEF StopDecorator
<1>3. /\ \A j \in Co \ {k} : pc'[f][j] = pc[f][j]
      /\ \/ pc'[f][k] = "waiting" /\ pos'[f][k] = i
         \/ pc'[f][k] = "next" /\ pos'[f][k] = i + 1
  <2>1. CASE Goto(f, k, "waiting") /\ UNCHANGED pos
    BY <1>1, <2>1, UnderWayAlone, GotoEffect, Symbols
  <2>2. CASE Advance(f, k) /\ UNCHANGED pc
    BY <1>1, <1>2, <2>2, UnderWayAlone, AdvanceEffect
  <2>3. QED
    BY <2>1, <2>2 DEF StopDecorator
<1>4. \A j \in DOMAIN Decorators[f] : j \in Nat
  BY Places
<1>5. \A j \in DOMAIN Decorators[f] :
        /\ j \in Registered(f) <=> i <= j
        /\ j \in Registered(f)' <=> i < j
  BY <1>1, <1>2, <1>3, <1>4, UnderWayAlone, ByStop
<1>6. Registered(f) \subseteq DOMAIN Decorators[f] /\ Registered(f)' \subseteq DOMAIN Decorators[f]
  BY DEF Registered
<1>7. QED
  BY <1>2, <1>4, <1>5, <1>6

\* The stop goes on with what it has left.
LEMMA RegisteredStopResumes ==
  ASSUME TypeOK, Lifecycle, OneAtATime, NEW f \in Function, f \notin tainted,
         NEW k \in Stop, StopResumes(f, k)
  PROVE  Registered(f)' = Registered(f)
<1> DEFINE i == pos[f][k]
<1>1. UnderWay(f, k) /\ k \in Co
  BY Symbols DEF StopResumes, UnderWay
<1>2. /\ pc[f][k] = "waiting" /\ status' = status /\ i \in Nat
      /\ pc'[f][k] = "next" /\ pos'[f][k] = i + 1
      /\ \A j \in Co \ {k} : pc'[f][j] = pc[f][j]
  <2>1. ControlOK /\ i \in Nat
    BY <1>1, UnderWayAlone
  <2>2. /\ pc[f][k] = "waiting" /\ status' = status
        /\ Goto(f, k, "next") /\ Advance(f, k) /\ "next" \in Label
    BY Symbols DEF StopResumes
  <2>3. QED
    BY <1>1, <2>1, <2>2, GotoEffect, AdvanceEffect
<1>3. \A j \in DOMAIN Decorators[f] : j \in Nat
  BY Places
<1>4. \A j \in DOMAIN Decorators[f] : j \in Registered(f) <=> j \in Registered(f)'
  <2>1. status[f] = "running" /\ \A j \in Co \ {k} : ~UnderWay(f, j)
    BY <1>1, UnderWayAlone
  <2>2. status'[f] = "running"
    BY <1>2, <2>1
  <2>3. /\ \A j \in DOMAIN Decorators[f] : j \in Registered(f) <=> i < j
        /\ \A j \in DOMAIN Decorators[f] : j \in Registered(f)' <=> i + 1 <= j
    BY <1>2, <2>1, <2>2, ByStop
  <2>4. QED
    BY <1>2, <1>3, <2>3
<1>5. Registered(f) \subseteq DOMAIN Decorators[f] /\ Registered(f)' \subseteq DOMAIN Decorators[f]
  BY DEF Registered
<1>6. QED
  BY <1>4, <1>5

\* When stop ends nothing is left.
LEMMA RegisteredStopEnds ==
  ASSUME TypeOK, Lifecycle, OneAtATime, NEW f \in Function, f \notin tainted,
         NEW k \in Stop, StopEnds(f, k)
  PROVE  Registered(f)' = Registered(f)
<1> DEFINE i == pos[f][k]
<1>1. UnderWay(f, k) /\ k \in Co
  BY Symbols DEF StopEnds, UnderWay
<1>2. /\ pc[f][k] = "next" /\ i \in Nat /\ status'[f] = "stopped"
      /\ \A j \in DOMAIN Decorators[f] : j \in Nat /\ j < i
  BY <1>1, UnderWayAlone, Live, Places DEF StopEnds, ControlOK
<1>3. \A j \in DOMAIN Decorators[f] : j \notin Registered(f)
  BY <1>2 DEF Registered
<1>4. \A j \in DOMAIN Decorators[f] : j \notin Registered(f)'
  BY <1>2 DEF Registered
<1>5. Registered(f) \subseteq DOMAIN Decorators[f] /\ Registered(f)' \subseteq DOMAIN Decorators[f]
  BY DEF Registered
<1>6. QED
  BY <1>3, <1>4, <1>5

-----------------------------------------------------------------------------
(* Registered and held are the same *)

\* A step that changes neither what is held nor what is registered.
LEMMA HeldFrame ==
  ASSUME NoMore, NoLess, tainted \subseteq tainted',
         \A d \in Dec : Holds(d)' <=> Holds(d),
         \A g \in Function : g \notin tainted' => Registered(g)' = Registered(g)
  PROVE  NoMore' /\ NoLess'
<1>1. ASSUME NEW g \in Function, g \notin tainted',
             NEW i \in DOMAIN Decorators[g], Holds(<<g, i>>)'
      PROVE  i \in Registered(g)'
  BY <1>1, Places DEF NoMore
<1>2. ASSUME tainted' = {}, NEW g \in Function, NEW i \in Registered(g)',
             Decorators[g][i].kind # "shutdown"
      PROVE  Holds(<<g, i>>)'
  <2>1. i \in Registered(g) /\ i \in DOMAIN Decorators[g] /\ tainted = {}
    BY <1>2 DEF Registered
  <2>2. QED
    BY <1>2, <2>1, Places DEF NoLess
<1>3. QED
  BY <1>1, <1>2 DEF NoMore, NoLess

\* A step that registers the decorator at a place.
LEMMA HeldMore ==
  ASSUME NoMore, NoLess, NEW f \in Function, NEW i \in DOMAIN Decorators[f],
         tainted' = tainted,
         \A d \in Dec : d # <<f, i>> => (Holds(d)' <=> Holds(d)),
         \A g \in Function \ {f} : Registered(g)' = Registered(g),
         f \notin tainted => /\ Registered(f)' = Registered(f) \cup {i}
                             /\ \/ Holds(<<f, i>>)'
                                \/ Decorators[f][i].kind = "shutdown"
  PROVE  NoMore' /\ NoLess'
<1>1. ASSUME NEW g \in Function, g \notin tainted',
             NEW j \in DOMAIN Decorators[g], Holds(<<g, j>>)'
      PROVE  j \in Registered(g)'
  <2>1. CASE <<g, j>> = <<f, i>>
    BY <1>1, <2>1
  <2>2. CASE <<g, j>> # <<f, i>>
    <3>1. j \in Registered(g)
      BY <1>1, <2>2, Places DEF NoMore
    <3>2. QED
      BY <1>1, <3>1
  <2>3. QED
    BY <2>1, <2>2
<1>2. ASSUME tainted' = {}, NEW g \in Function, NEW j \in Registered(g)',
             Decorators[g][j].kind # "shutdown"
      PROVE  Holds(<<g, j>>)'
  <2>1. j \in DOMAIN Decorators[g] /\ tainted = {}
    BY <1>2 DEF Registered
  <2>2. CASE <<g, j>> = <<f, i>>
    BY <1>2, <2>1, <2>2
  <2>3. CASE <<g, j>> # <<f, i>>
    <3>1. j \in Registered(g)
      BY <1>2, <2>1, <2>3
    <3>2. QED
      BY <1>2, <2>1, <2>3, <3>1, Places DEF NoLess
  <2>4. QED
    BY <2>2, <2>3
<1>3. QED
  BY <1>1, <1>2 DEF NoMore, NoLess

\* A step that stops the decorator at a place.
LEMMA HeldLess ==
  ASSUME TypeOK, NoMore, NoLess,
         NEW f \in Function, NEW i \in DOMAIN Decorators[f],
         tainted' = tainted, Drop(<<f, i>>),
         \A g \in Function \ {f} : Registered(g)' = Registered(g),
         f \notin tainted => /\ i \in Registered(f)
                             /\ Registered(f)' = Registered(f) \ {i}
  PROVE  NoMore' /\ NoLess'
<1>0. /\ ~Holds(<<f, i>>)'
      /\ \A d \in Dec : Holds(d)' => Holds(d)
      /\ Holds(<<f, i>>) \/ Decorators[f][i].kind = "shutdown" =>
           \A d \in Dec \ {<<f, i>>} : Holds(d) => Holds(d)'
  BY TypeSplit, DropEffect
<1>1. ASSUME NEW g \in Function, g \notin tainted',
             NEW j \in DOMAIN Decorators[g], Holds(<<g, j>>)'
      PROVE  j \in Registered(g)'
  <2>1. <<g, j>> # <<f, i>> /\ Holds(<<g, j>>)
    BY <1>0, <1>1, Places
  <2>2. j \in Registered(g)
    BY <1>1, <2>1 DEF NoMore
  <2>3. QED
    BY <1>1, <2>1, <2>2
<1>2. ASSUME tainted' = {}, NEW g \in Function, NEW j \in Registered(g)',
             Decorators[g][j].kind # "shutdown"
      PROVE  Holds(<<g, j>>)'
  <2>1. /\ j \in DOMAIN Decorators[g] /\ tainted = {} /\ f \notin tainted
        /\ i \in Registered(f) /\ Registered(f)' = Registered(f) \ {i}
    BY <1>2 DEF Registered
  <2>2. j \in Registered(g) /\ <<g, j>> # <<f, i>>
    BY <1>2, <2>1
  <2>3. Holds(<<g, j>>)
    BY <1>2, <2>1, <2>2 DEF NoLess
  <2>4. Holds(<<f, i>>) \/ Decorators[f][i].kind = "shutdown"
    BY <2>1 DEF NoLess
  <2>5. QED
    BY <1>0, <2>1, <2>2, <2>3, <2>4, Places
<1>3. QED
  BY <1>1, <1>2 DEF NoMore, NoLess

\* Steps of start keep what is held and what is registered the same.
LEMMA HeldStart ==
  ASSUME TypeOK, Lifecycle, OneAtATime, NoMore, NoLess,
         NEW f \in Function, StartStep(f)
  PROVE  NoMore' /\ NoLess'
<1>0. PICK i \in Nat \ {0} :
        /\ i = pos[f]["start"]
        /\ \A g \in Function \ {f} : Registered(g)' = Registered(g)
        /\ ResourcesOK /\ "start" \in Co
  BY TypeSplit, Symbols, RegisteredOthersStart DEF TypeOK
<1>1. CASE \/ BeginStart(f) \/ StartRaises(f) \/ StartAwaitRaises(f)
           \/ StartUndoResumes(f) \/ StartEnds(f) \/ StartCancelled(f)
  <2>1. /\ UNCHANGED resources /\ tainted \subseteq tainted'
    BY <1>1 DEF BeginStart, StartRaises, StartAwaitRaises, StartUndoResumes,
                StartEnds, StartCancelled
  <2>2. f \notin tainted' => Registered(f)' = Registered(f)
    <3>1. CASE StartCancelled(f)
      BY <3>1 DEF StartCancelled
    <3>2. QED
      BY <1>1, <2>1, <3>1, RegisteredBegin, RegisteredStartRaises,
         RegisteredUndoResumes, RegisteredEnds
  <2>3. \A d \in Dec : Holds(d)' <=> Holds(d)
    BY <1>0, <2>1, UnchangedResources
  <2>4. QED
    BY <1>0, <2>1, <2>2, <2>3, HeldFrame
<1>2. CASE StartDecorator(f)
  <2>1. /\ i \in DOMAIN Decorators[f] /\ CanStart(<<f, i>>) /\ tainted' = tainted
        /\ Acquire(<<f, i>>, {"listener", "mqtt"})
    BY <1>0, <1>2, Live DEF StartDecorator
  <2>2. Decorators[f][i].kind \in Kind
    BY <2>1, Places
  <2>3. /\ \A d \in Dec : d # <<f, i>> => (Holds(d)' <=> Holds(d))
        /\ Holds(<<f, i>>)' \/ Decorators[f][i].kind = "shutdown"
    BY <1>0, <2>1, <2>2, AcquireEffect DEF Kind
  <2>4. f \notin tainted => Registered(f)' = Registered(f) \cup {i}
    BY <1>0, <1>2, RegisteredStartDecorator
  <2>5. QED
    BY <1>0, <2>1, <2>3, <2>4, HeldMore
<1>3. CASE StartSuspends(f)
  <2>1. /\ i \in DOMAIN Decorators[f] /\ CanStart(<<f, i>>) /\ tainted' = tainted
        /\ Decorators[f][i].kind \in {"mqtt", "service"}
        /\ Acquire(<<f, i>>, {"listener"})
    BY <1>0, <1>3, Live DEF StartSuspends
  <2>2. /\ <<f, i>> \in Dec
        /\ \A d \in Dec : d # <<f, i>> => (Holds(d)' <=> Holds(d))
        /\ Decorators[f][i].kind = "service" => Holds(<<f, i>>)'
        /\ Decorators[f][i].kind = "mqtt" => (Holds(<<f, i>>)' <=> Holds(<<f, i>>))
    BY <1>0, <2>1, Places, AcquireEffect
  <2>3. f \notin tainted =>
          Registered(f)' = IF Decorators[f][i].kind = "service"
                             THEN Registered(f) \cup {i} ELSE Registered(f)
    BY <1>0, <1>3, RegisteredStartSuspends
  <2>4. CASE Decorators[f][i].kind = "service"
    BY <1>0, <2>1, <2>2, <2>3, <2>4, HeldMore
  <2>5. CASE Decorators[f][i].kind = "mqtt"
    <3>1. \A d \in Dec : Holds(d)' <=> Holds(d)
      BY <2>2, <2>5
    <3>2. f \notin tainted' => Registered(f)' = Registered(f)
      BY <2>1, <2>3, <2>5
    <3>3. QED
      BY <1>0, <2>1, <3>1, <3>2, HeldFrame
  <2>6. QED
    BY <2>1, <2>4, <2>5
<1>4. CASE StartResumes(f)
  <2>1. /\ i \in DOMAIN Decorators[f]
        /\ Decorators[f][i].kind \in {"mqtt", "service"}
    BY <1>0, <1>4 DEF StartResumes, Lifecycle, LifeOf
  <2>2. /\ tainted' = tainted
        /\ listeners' = IF Decorators[f][i].kind = "mqtt"
                          THEN listeners \cup {<<f, i>>} ELSE listeners
        /\ UNCHANGED <<webhooks, serviceVars>>
    BY <1>0, <1>4 DEF StartResumes
  <2>3. <<f, i>> \in Dec /\ \A d \in Dec : d # <<f, i>> => (Holds(d)' <=> Holds(d))
    BY <2>1, <2>2, Places DEF Holds, serviceVars
  <2>4. f \notin tainted =>
          /\ Registered(f)' = Registered(f) \cup {i}
          /\ Decorators[f][i].kind = "service" => i \in Registered(f)
    BY <1>0, <1>4, RegisteredStartResumes
  <2>5. CASE Decorators[f][i].kind = "mqtt"
    <3>1. Holds(<<f, i>>)'
      BY <2>2, <2>5 DEF Holds
    <3>2. QED
      BY <1>0, <2>1, <2>2, <2>3, <2>4, <3>1, HeldMore
  <2>6. CASE Decorators[f][i].kind = "service"
    <3>1. \A d \in Dec : Holds(d)' <=> Holds(d)
      BY <2>2, <2>6 DEF Holds, serviceVars
    <3>2. f \notin tainted' => Registered(f)' = Registered(f)
      BY <2>2, <2>4, <2>6
    <3>3. QED
      BY <1>0, <2>2, <3>1, <3>2, HeldFrame
  <2>7. QED
    BY <2>1, <2>5, <2>6
<1>5. CASE StartUndo(f)
  <2>1. i \in DOMAIN Decorators[f]
    <3>1. failed[f] \in DOMAIN Decorators[f] /\ i < failed[f]
      BY <1>0, <1>5 DEF StartUndo, Lifecycle, LifeOf
    <3>2. QED
      BY <1>0, <3>1, Domain
  <2>2. tainted' = tainted /\ Drop(<<f, i>>)
    BY <1>0, <1>5 DEF StartUndo
  <2>3. f \notin tainted => i \in Registered(f) /\ Registered(f)' = Registered(f) \ {i}
    BY <1>0, <1>5, RegisteredStartUndo
  <2>4. QED
    BY <1>0, <2>1, <2>2, <2>3, HeldLess
<1>6. QED
  BY <1>1, <1>2, <1>3, <1>4, <1>5 DEF StartStep

\* So do the steps of stop.
LEMMA HeldStop ==
  ASSUME TypeOK, Lifecycle, OneAtATime, NoMore, NoLess,
         NEW f \in Function, NEW k \in Stop, StopStep(f, k)
  PROVE  NoMore' /\ NoLess'
<1>0. PICK i \in Nat \ {0} :
        /\ i = pos[f][k]
        /\ \A g \in Function \ {f} : Registered(g)' = Registered(g)
        /\ ResourcesOK /\ k \in Co
  BY TypeSplit, Symbols, RegisteredOthersStop DEF TypeOK
<1>1. CASE BeginStop(f, k) \/ StopResumes(f, k) \/ StopEnds(f, k)
  <2>1. UNCHANGED resources /\ tainted \subseteq tainted'
    BY <1>1 DEF BeginStop, StopResumes, StopEnds
  <2>2. f \notin tainted' => Registered(f)' = Registered(f)
    BY <1>1, <2>1, RegisteredBeginStop, RegisteredStopResumes, RegisteredStopEnds
  <2>3. \A d \in Dec : Holds(d)' <=> Holds(d)
    BY <1>0, <2>1, UnchangedResources
  <2>4. QED
    BY <1>0, <2>1, <2>2, <2>3, HeldFrame
<1>2. CASE StopDecorator(f, k)
  <2>1. /\ i \in DOMAIN Decorators[f] /\ tainted' = tainted /\ Drop(<<f, i>>)
    BY <1>0, <1>2, Live DEF StopDecorator
  <2>2. f \notin tainted => i \in Registered(f) /\ Registered(f)' = Registered(f) \ {i}
    BY <1>0, <1>2, RegisteredStopDecorator
  <2>3. QED
    BY <1>0, <2>1, <2>2, HeldLess
<1>3. QED
  BY <1>1, <1>2 DEF StopStep

\* So does every step.
LEMMA HeldNext ==
  ASSUME TypeOK, Lifecycle, OneAtATime, NoMore, NoLess, [Next]_vars
  PROVE  NoMore' /\ NoLess'
<1>1. ResourcesOK
  BY TypeSplit
<1>2. CASE \/ \E f \in Function : DefineStarted(f) \/ DefineDelayed(f) \/ Forget(f)
           \/ \E c \in Ctx : StartContext(c) \/ StopContext(c)
  <2>1. UNCHANGED <<resources, tainted>>
    BY <1>2 DEF DefineStarted, DefineDelayed, Forget, StartContext, StopContext
  <2>2. \A g \in Function : Registered(g)' = Registered(g)
    BY <1>2, RegisteredContext
  <2>3. QED
    BY <1>1, <2>1, <2>2, UnchangedResources, HeldFrame
<1>3. CASE UNCHANGED vars
  <2>1. UNCHANGED <<resources, tainted, status, pc, pos, failed>>
    BY <1>3 DEF vars, coVars
  <2>2. \A g \in Function : Registered(g)' = Registered(g)
    BY <2>1, RegisteredFrame
  <2>3. QED
    BY <1>1, <2>1, <2>2, UnchangedResources, HeldFrame
<1>4. QED
  BY <1>2, <1>3, HeldStart, HeldStop DEF Next

-----------------------------------------------------------------------------
(* The safety properties *)

\* The inductive invariant: where each manager is in its life, one coroutine
\* at a time, and the places its coroutines have passed are those registered.
THEOREM Invariant == Spec => []IInv
<1>1. Init => IInv
  <2>1. ASSUME Init PROVE NoMore /\ NoLess /\ OneAtATime
    <3>1. NoFunction \notin Dec
      BY ManagerAssumption DEF ManagerAssumption
    <3>2. \A f \in Function : Registered(f) = {} /\ Alone(f)
      BY <2>1, Symbols DEF Init, Registered, Alone, UnderWay
    <3>3. \A d \in Dec : ~Holds(d)
      <4>1. \A d \in Dec : Decorators[d[1]][d[2]].key \in Key
        BY DecElements, Places
      <4>2. QED
        BY <2>1, <3>1, <4>1 DEF Init, Registry!Init, Holds
    <3>4. QED
      BY <3>2, <3>3, Places DEF NoMore, NoLess, OneAtATime
  <2>2. Init => ServiceTablesAgree
    BY DEF Init, Registry!Init, ServiceTablesAgree
  <2>3. QED
    BY <2>1, <2>2, TypeInit, LifeInit DEF IInv
<1>2. IInv /\ [Next]_vars => IInv'
  BY LifeNext, AloneNext, TablesStep, HeldNext DEF IInv
<1>3. QED
  BY <1>1, <1>2, PTL DEF Spec

\* What a manager registers is gone when its status says that it has ended,
\* unless it went astray.
THEOREM HeldRunning == Spec => []HeldOnlyWhileRunning
<1>1. IInv => HeldOnlyWhileRunning
  <2>1. SUFFICES ASSUME IInv, NEW d \in Dec, Holds(d), d[1] \notin tainted
                 PROVE  status[d[1]] = "running"
    BY DEF HeldOnlyWhileRunning
  <2>2. /\ d[1] \in Function /\ d[2] \in DOMAIN Decorators[d[1]]
        /\ d = <<d[1], d[2]>>
    BY DecElements
  <2>3. d[2] \in Registered(d[1])
    BY <2>1, <2>2 DEF IInv, NoMore
  <2>4. QED
    BY <2>3 DEF Registered
<1>2. QED
  BY <1>1, Invariant, PTL

\* A manager that runs and that nobody stops has all its registrations, as
\* long as no manager goes astray: a name that several functions register is
\* taken away from none of them.
THEOREM RunningComplete == Spec => []RunningIsComplete
<1>1. IInv => RunningIsComplete
  <2>1. SUFFICES ASSUME IInv, tainted = {}, NEW d \in Dec,
                        status[d[1]] = "running", pc[d[1]]["start"] = "over",
                        \A k \in Stop : Quiet(d[1], k),
                        Decorators[d[1]][d[2]].kind # "shutdown"
                 PROVE  Holds(d)
    BY DEF RunningIsComplete
  <2>2. /\ d[1] \in Function /\ d[2] \in DOMAIN Decorators[d[1]]
        /\ d = <<d[1], d[2]>>
    BY DecElements
  <2>3. d[2] \in Registered(d[1])
    BY <2>1, <2>2 DEF Registered, Quiet
  <2>4. QED
    BY <2>1, <2>2, <2>3 DEF IInv, NoLess
<1>2. QED
  BY <1>1, Invariant, PTL

\* As long as no manager goes astray, the managers use the registry of
\* services as ServiceRegistry assumes: they remove what they have registered
\* and nothing twice, so that what is proved of it holds of their services.
THEOREM UsesRegistry == Spec => ImplementsRegistry
<1>1. IInv /\ [Next]_vars => (tainted' = {} => [Registry!Next]_serviceVars)
  <2>1. SUFFICES ASSUME IInv, [Next]_vars, tainted' = {}
                 PROVE  [Registry!Next]_serviceVars
    OBVIOUS
  <2>2. ASSUME NEW f \in Function, NEW i \in DOMAIN Decorators[f],
               NEW kinds, Acquire(<<f, i>>, kinds),
               tainted = {}, i \notin Registered(f)
        PROVE  [Registry!Next]_serviceVars
    <3> DEFINE key == Decorators[f][i].key
    <3>1. CASE Decorators[f][i].kind = "service"
      <4>1. <<f, i>> \in Dec /\ key \in Key
        BY Places
      <4>2. <<f, i>> \notin holders[key]
        BY <2>1, <2>2, <3>1 DEF IInv, NoMore, Holds
      <4>3. Registry!Register(<<f, i>>, key)
        BY <2>2, <3>1, <4>2 DEF Acquire, Registry!Register
      <4>4. QED
        BY <4>1, <4>3 DEF Registry!Next
    <3>2. CASE Decorators[f][i].kind # "service"
      BY <2>2, <3>2 DEF Acquire
    <3>3. QED
      BY <3>1, <3>2
  <2>3. ASSUME NEW f \in Function, NEW i \in DOMAIN Decorators[f],
               Drop(<<f, i>>), tainted = {}, i \in Registered(f)
        PROVE  [Registry!Next]_serviceVars
    <3> DEFINE key == Decorators[f][i].key
    <3>1. CASE Decorators[f][i].kind = "service"
      <4>1. <<f, i>> \in Dec /\ key \in Key
        BY Places
      <4>2. <<f, i>> \in holders[key]
        BY <2>1, <2>3, <3>1 DEF IInv, NoLess, Holds
      <4>3. Registry!Remove(<<f, i>>, key)
        BY <2>3, <3>1, <4>2 DEF Drop, Registry!Remove
      <4>4. QED
        BY <4>1, <4>3 DEF Registry!Next
    <3>2. CASE Decorators[f][i].kind # "service"
      BY <2>3, <3>2 DEF Drop
    <3>3. QED
      BY <3>1, <3>2
  <2>4. ASSUME NEW f \in Function, NEW i, i = pos[f]["start"],
               i \in DOMAIN Decorators[f], StartDecorator(f),
               Acquire(<<f, i>>, {"listener", "mqtt"})
        PROVE  [Registry!Next]_serviceVars
    <3>1. tainted = {} /\ i \notin Registered(f)
      BY <2>1, <2>4, RegisteredStartDecorator DEF StartDecorator, IInv
    <3>2. QED
      BY <2>2, <2>4, <3>1
  <2>5. ASSUME NEW f \in Function, NEW i, i = pos[f]["start"],
               i \in DOMAIN Decorators[f], StartSuspends(f),
               Acquire(<<f, i>>, {"listener"})
        PROVE  [Registry!Next]_serviceVars
    <3>1. tainted = {} /\ i \notin Registered(f)
      BY <2>1, <2>5, RegisteredStartSuspends DEF StartSuspends, IInv
    <3>2. QED
      BY <2>2, <2>5, <3>1
  <2>6. ASSUME NEW f \in Function, NEW i, i = pos[f]["start"],
               i \in DOMAIN Decorators[f], StartUndo(f), Drop(<<f, i>>)
        PROVE  [Registry!Next]_serviceVars
    <3>1. tainted = {} /\ i \in Registered(f)
      BY <2>1, <2>6, RegisteredStartUndo DEF StartUndo, IInv
    <3>2. QED
      BY <2>3, <2>6, <3>1
  <2>7. ASSUME NEW f \in Function, NEW k \in Stop, NEW i, i = pos[f][k],
               i \in DOMAIN Decorators[f], StopDecorator(f, k), Drop(<<f, i>>)
        PROVE  [Registry!Next]_serviceVars
    <3>1. tainted = {} /\ i \in Registered(f)
      BY <2>1, <2>7, RegisteredStopDecorator DEF StopDecorator, IInv
    <3>2. QED
      BY <2>3, <2>7, <3>1
  <2>8. CASE UNCHANGED <<webhooks, serviceVars>>
    BY <2>8
  <2>9. QED
    BY <2>1, <2>4, <2>5, <2>6, <2>7, <2>8, ResourceStep DEF IInv
<1>2. QED
  BY <1>1, Invariant, PTL DEF Spec, ImplementsRegistry
=============================================================================
