----------------------- MODULE ServiceRegistry_proofs -----------------------
(* Proofs about ServiceRegistry, for any providers, services and contexts. *)
EXTENDS ServiceRegistry, FiniteSetTheorems, TLAPS

\* What IInv says of one service: the counts, owners and callbacks agree with
\* the set of its providers.
LEMMA Decide ==
  ASSUME IInv, NEW s \in Service
  PROVE  /\ IsFiniteSet(holders[s])
         /\ service_cnt[s] = 0 <=> holders[s] = {}
         /\ service_cnt[s] = 1 <=> \E p \in Provider : holders[s] = {p}
<1>1. holders[s] \subseteq Provider
  BY DEF IInv, TypeOK
<1>2. IsFiniteSet(holders[s])
  BY <1>1, ServiceAssumption, FS_Subset DEF ServiceAssumption
<1>3. service_cnt[s] = Cardinality(holders[s])
  BY DEF IInv, CountExact
<1>4. service_cnt[s] = 0 <=> holders[s] = {}
  BY <1>2, <1>3, FS_EmptySet
<1>5. service_cnt[s] = 1 <=> \E p : holders[s] = {p}
  BY <1>2, <1>3, FS_Singleton
<1>6. QED
  BY <1>1, <1>2, <1>4, <1>5

\* A provider that registers is counted, owned and called (function.py:471-485).
LEMMA RegisterStep ==
  ASSUME IInv, NEW p \in Provider, NEW s \in Service, Register(p, s)
  PROVE  IInv'
<1> DEFINE H == holders[s] \cup {p}
<1>1. holders' = [holders EXCEPT ![s] = H] /\ p \notin holders[s]
  BY DEF Register
<1>2. /\ service2global_ctx' = [service2global_ctx EXCEPT ![s] = ContextOf[p]]
      /\ service_cnt' = [service_cnt EXCEPT ![s] = @ + 1]
      /\ services' = [services EXCEPT ![s] = p]
      /\ service2global_ctx[s] \in {NoContext, ContextOf[p]}
  BY DEF Register, service_register, Refused
<1>3. ContextOf[p] \in Context /\ NoContext \notin Context /\ NoProvider # p
  BY ServiceAssumption DEF ServiceAssumption
<1>4. TypeOK'
  BY <1>1, <1>2, <1>3 DEF IInv, TypeOK
<1>5. CountExact'
  <2>1. Cardinality(H) = Cardinality(holders[s]) + 1
    BY <1>1, Decide, FS_AddElement
  <2>2. SUFFICES ASSUME NEW t \in Service
                 PROVE service_cnt'[t] = Cardinality(holders'[t])
    BY DEF CountExact
  <2>3. service_cnt[t] = Cardinality(holders[t])
    BY DEF IInv, CountExact
  <2>4. CASE t = s
    <3>1. service_cnt'[s] = service_cnt[s] + 1 /\ holders'[s] = H
      BY <1>1, <1>2 DEF IInv, TypeOK
    <3>2. QED
      BY <2>1, <2>3, <2>4, <3>1
  <2>5. CASE t # s
    BY <1>1, <1>2, <2>3, <2>5 DEF IInv, TypeOK
  <2>6. QED
    BY <2>4, <2>5
<1>6. OwnerAgrees'
  <2>1. SUFFICES ASSUME NEW t \in Service
                 PROVE /\ service2global_ctx'[t] = NoContext <=> holders'[t] = {}
                       /\ \A q \in holders'[t] : ContextOf[q] = service2global_ctx'[t]
    BY DEF OwnerAgrees
  <2>2. /\ service2global_ctx[t] = NoContext <=> holders[t] = {}
        /\ \A q \in holders[t] : ContextOf[q] = service2global_ctx[t]
    BY DEF IInv, OwnerAgrees
  <2>3. CASE t = s
    <3>1. service2global_ctx'[s] = ContextOf[p] /\ holders'[s] = H
      BY <1>1, <1>2 DEF IInv, TypeOK
    <3>2. QED
      BY <1>2, <1>3, <2>2, <2>3, <3>1
  <2>4. CASE t # s
    BY <1>1, <1>2, <2>2, <2>4 DEF IInv, TypeOK
  <2>5. QED
    BY <2>3, <2>4
<1>7. CallableWhileProvided'
  <2>1. SUFFICES ASSUME NEW t \in Service
                 PROVE services'[t] = NoProvider <=> holders'[t] = {}
    BY DEF CallableWhileProvided
  <2>2. services[t] = NoProvider <=> holders[t] = {}
    BY DEF IInv, CallableWhileProvided
  <2>3. CASE t = s
    BY <1>1, <1>2, <1>3, <2>3 DEF IInv, TypeOK
  <2>4. CASE t # s
    BY <1>1, <1>2, <2>2, <2>4 DEF IInv, TypeOK
  <2>5. QED
    BY <2>3, <2>4
<1>8. QED
  BY <1>4, <1>5, <1>6, <1>7 DEF IInv

\* Removing one of several providers only counts down; removing the last one
\* frees the name (function.py:488-496).
LEMMA RemoveStep ==
  ASSUME IInv, NEW p \in Provider, NEW s \in Service, Remove(p, s)
  PROVE  IInv'
<1> DEFINE H == holders[s] \ {p}
<1>1. holders' = [holders EXCEPT ![s] = H] /\ p \in holders[s]
  BY DEF Remove
<1>2. service_cnt[s] \in Nat /\ IsFiniteSet(holders[s])
  BY Decide DEF IInv, TypeOK
<1>3. Cardinality(H) = Cardinality(holders[s]) - 1
  BY <1>1, <1>2, FS_RemoveElement
<1>4. service_cnt[s] = Cardinality(holders[s])
  BY DEF IInv, CountExact
<1>5. \A t \in Service : t # s => holders'[t] = holders[t]
  BY <1>1 DEF IInv, TypeOK
<1>6. holders'[s] = H
  BY <1>1 DEF IInv, TypeOK
<1>7. CASE service_cnt[s] > 1
  <2>1. /\ service_cnt' = [service_cnt EXCEPT ![s] = @ - 1]
        /\ UNCHANGED <<service2global_ctx, services>>
    BY <1>7 DEF Remove, service_remove
  <2>2. H # {}
    BY <1>1, <1>2, <1>7, Decide DEF IInv, TypeOK
  <2>3. TypeOK'
    BY <1>1, <1>2, <1>7, <2>1 DEF IInv, TypeOK
  <2>4. CountExact'
    BY <1>2, <1>3, <1>4, <1>5, <1>6, <2>1 DEF IInv, TypeOK, CountExact
  <2>5. OwnerAgrees'
    BY <1>1, <1>5, <1>6, <2>1, <2>2 DEF IInv, OwnerAgrees
  <2>6. CallableWhileProvided'
    BY <1>1, <1>5, <1>6, <2>1, <2>2 DEF IInv, CallableWhileProvided
  <2>7. QED
    BY <2>3, <2>4, <2>5, <2>6 DEF IInv
<1>8. CASE ~(service_cnt[s] > 1)
  <2>1. /\ service_cnt' = [service_cnt EXCEPT ![s] = 0]
        /\ services' = [services EXCEPT ![s] = NoProvider]
        /\ service2global_ctx' = [service2global_ctx EXCEPT ![s] = NoContext]
    BY <1>8 DEF Remove, service_remove
  <2>2. H = {}
    BY <1>1, <1>2, <1>8, Decide
  <2>3. TypeOK'
    BY <1>1, <2>1 DEF IInv, TypeOK
  <2>4. CountExact'
    BY <1>5, <1>6, <2>1, <2>2, FS_EmptySet DEF IInv, TypeOK, CountExact
  <2>5. OwnerAgrees'
    BY <1>5, <1>6, <2>1, <2>2 DEF IInv, TypeOK, OwnerAgrees
  <2>6. CallableWhileProvided'
    BY <1>5, <1>6, <2>1, <2>2 DEF IInv, TypeOK, CallableWhileProvided
  <2>7. QED
    BY <2>3, <2>4, <2>5, <2>6 DEF IInv
<1>9. QED
  BY <1>7, <1>8

\* The count, the owner and HASS's entry of each service agree with the set of
\* functions that provide it, in every state.
THEOREM Agreement == Spec => []IInv
<1>1. Init => IInv
  BY FS_EmptySet, ServiceAssumption
     DEF Init, IInv, TypeOK, CountExact, OwnerAgrees, CallableWhileProvided,
         ServiceAssumption
<1>2. IInv /\ [Next]_vars => IInv'
  <2>1. SUFFICES ASSUME IInv, [Next]_vars PROVE IInv'
    OBVIOUS
  <2>2. CASE UNCHANGED vars
    BY <2>1, <2>2
       DEF vars, tables, IInv, TypeOK, CountExact, OwnerAgrees,
           CallableWhileProvided
  <2>3. ASSUME NEW p \in Provider, NEW s \in Service, Register(p, s)
        PROVE IInv'
    BY <2>1, <2>3, RegisterStep
  <2>4. ASSUME NEW p \in Provider, NEW s \in Service, Remove(p, s)
        PROVE IInv'
    BY <2>1, <2>4, RemoveStep
  <2>5. QED
    BY <2>1, <2>2, <2>3, <2>4 DEF Next
<1>3. QED
  BY <1>1, <1>2, PTL DEF Spec

\* The reference count of a service is the number of its providers.
THEOREM CountsAreExact == Spec => []CountExact
<1>1. IInv => CountExact
  BY DEF IInv
<1>2. QED
  BY <1>1, Agreement, PTL

\* A service belongs to the context of all its providers and is free after the
\* last of them (function.py:477-485, 491-496).
THEOREM OwnersAgree == Spec => []OwnerAgrees
<1>1. IInv => OwnerAgrees
  BY DEF IInv
<1>2. QED
  BY <1>1, Agreement, PTL

\* HASS can call a service exactly as long as a function provides it.
THEOREM Callable == Spec => []CallableWhileProvided
<1>1. IInv => CallableWhileProvided
  BY DEF IInv
<1>2. QED
  BY <1>1, Agreement, PTL

\* The registry implements the promise of ServiceNames.
THEOREM Refinement == Spec => ImplementsNames
<1>1. Init => Names!Init
  BY DEF Init, Names!Init
<1>2. IInv /\ IInv' /\ [Next]_vars => [Names!Next]_Names!vars
  <2>1. SUFFICES ASSUME IInv, IInv', [Next]_vars PROVE [Names!Next]_Names!vars
    OBVIOUS
  <2>2. CASE UNCHANGED vars
    BY <2>2 DEF vars, tables, Names!vars
  <2>3. ASSUME NEW p \in Provider, NEW s \in Service, Register(p, s)
        PROVE Names!Provide(p, s)
    <3>1. \A q \in holders[s] : ContextOf[q] = ContextOf[p]
      BY <2>1, <2>3
         DEF Register, service_register, Refused, IInv, OwnerAgrees
    <3>2. services' = [services EXCEPT ![s] = p] /\ p # NoProvider
      BY <2>3, ServiceAssumption
         DEF Register, service_register, ServiceAssumption
    <3>3. {t \in Service : services'[t] # NoProvider}
            = {t \in Service : services[t] # NoProvider} \cup {s}
      BY <2>1, <3>2 DEF IInv, TypeOK
    <3>4. QED
      BY <2>3, <3>1, <3>3 DEF Register, Names!Provide
  <2>4. ASSUME NEW p \in Provider, NEW s \in Service, Remove(p, s)
        PROVE Names!Withdraw(p, s)
    <3>1. p \in holders[s] /\ holders' = [holders EXCEPT ![s] = @ \ {p}]
      BY <2>4 DEF Remove
    <3>2. CASE holders[s] = {p}
      <4>1. holders'[s] = {}
        BY <2>1, <3>1, <3>2 DEF IInv, TypeOK
      <4>2. services'[s] = NoProvider
        BY <2>1, <4>1 DEF IInv, CallableWhileProvided
      <4>3. \A t \in Service \ {s} : services'[t] = services[t]
        BY <2>1, <2>4 DEF Remove, service_remove, IInv, TypeOK
      <4>4. {t \in Service : services'[t] # NoProvider}
              = {t \in Service : services[t] # NoProvider} \ {s}
        BY <4>2, <4>3
      <4>5. QED
        BY <3>1, <3>2, <4>4 DEF Names!Withdraw
    <3>3. CASE holders[s] # {p}
      <4>1. holders'[s] # {} /\ holders[s] # {}
        BY <2>1, <3>1, <3>3 DEF IInv, TypeOK
      <4>2. services'[s] # NoProvider /\ services[s] # NoProvider
        BY <2>1, <4>1 DEF IInv, CallableWhileProvided
      <4>3. \A t \in Service \ {s} : services'[t] = services[t]
        BY <2>1, <2>4 DEF Remove, service_remove, IInv, TypeOK
      <4>4. {t \in Service : services'[t] # NoProvider}
              = {t \in Service : services[t] # NoProvider}
        BY <4>2, <4>3
      <4>5. QED
        BY <3>1, <3>3, <4>4 DEF Names!Withdraw
    <3>4. QED
      BY <3>2, <3>3
  <2>5. QED
    BY <2>1, <2>2, <2>3, <2>4 DEF Next, Names!Next
<1>3. QED
  BY <1>1, <1>2, Agreement, PTL DEF Spec, ImplementsNames, Names!Spec
=============================================================================
