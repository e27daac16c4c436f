--------------------------- MODULE Reload_proofs ---------------------------
(* Proofs about Reload, for any names, imports, packages and reloads. *)
EXTENDS Reload, SequenceTheorems, TLAPS

(* The inductive invariant *)

Places == {"idle", "reading", "syncing", "loading", "importing", "done"}
Frame == [name : Name, k : 1..MaxLoads, left : Seq(Name)]
Proc == [pc : Places, only : Name \cup {None, All, Unload},
         all : [Name -> 0..MaxLoads], files : [Name -> Nat], todo : SUBSET Autoload,
         stack : Seq(Frame), waits : SUBSET Context, failed : BOOLEAN]
Object == [version : Nat, auto_start : BOOLEAN, stopped : BOOLEAN, module : BOOLEAN,
           imports : SUBSET Context]

\* Every part of the state has its type.
TypeInv ==
  /\ disk \in [Name -> Nat] /\ edits \in Nat
  /\ contexts \in [Name -> 0..MaxLoads] /\ made \in [Name -> 1..MaxLoads]
  /\ object \in [Context -> Object] /\ proc \in [Process -> Proc]
  /\ acting \subseteq Context /\ killed \subseteq Context
  /\ overlap \in BOOLEAN /\ overwritten \subseteq Context
  /\ removed \subseteq Name /\ dragged \subseteq Name

stackOf(p) == proc[p].stack
elems(s) == {s[i] : i \in DOMAIN s}

\* A load waits for the one above it, and has yet to import some of its imports.
Stacks ==
  \A p \in Process :
    /\ stackOf(p) # <<>> => proc[p].pc \in {"loading", "importing"}
    /\ proc[p].pc = "importing" => stackOf(p) # <<>> /\ top(p).left # <<>>
    /\ \A i \in DOMAIN stackOf(p) :
         /\ elems(stackOf(p)[i].left) \subseteq elems(Imports[stackOf(p)[i].name])
         /\ i < Len(stackOf(p)) =>
              /\ stackOf(p)[i].left # <<>>
              /\ Head(stackOf(p)[i].left) = stackOf(p)[i + 1].name

\* Contexts are numbered as they are made.
Numbered ==
  /\ \A n \in Name : contexts[n] <= made[n]
  /\ \A p \in Process, n \in Name : proc[p].all[n] <= made[n]

\* A context that is being loaded is not stopped, and no table has had it.
Fresh ==
  \A p \in Process, o \in Context : Underway(p, o) =>
    /\ ~object[o].stopped /\ o[2] <= made[o[1]] /\ contexts[o[1]] # o[2]
    /\ \A q \in Process : proc[q].all[o[1]] # o[2]

\* Each load is of a context of its own.
OneLoad ==
  \A p, q \in Process : \A i \in DOMAIN stackOf(p), j \in DOMAIN stackOf(q) :
    contextOf(stackOf(p)[i]) = contextOf(stackOf(q)[j]) => p = q /\ i = j

\* What is in the table runs.
Runs == \A o \in InTable(contexts) : ~object[o].stopped

\* Without overlap at most one reload is under way.
Alone == ~overlap => \A p, q \in Process : Active(p) /\ Active(q) => p = q

\* It loads no name that is in the table.
Unlisted ==
  ~overlap => \A p \in Process : \A i \in DOMAIN stackOf(p) :
    contexts[stackOf(p)[i].name] = 0

\* When it loads a name twice, the upper load has yet to import what the lower
\* one waits for, so it never ends.
Nested ==
  ~overlap => \A p \in Process : \A i, j \in DOMAIN stackOf(p) :
    i < j /\ stackOf(p)[i].name = stackOf(p)[j].name =>
      Head(stackOf(p)[i].left) \in elems(stackOf(p)[j].left)

\* So a context takes the place of another only when reloads overlap.
Replaced == overwritten # {} => overlap

\* What it has looked up is what there is.
Known ==
  ~overlap => \A p \in Process : proc[p].pc = "reading" => proc[p].all = contexts

\* Modules are loaded by imports only, and not when they are there.
ByImport ==
  /\ \A o \in Context : o[2] <= made[o[1]] /\ o[1] \in Modules => object[o].module
  /\ ~overlap => \A p \in Process : proc[p].pc = "importing" => ~Module(toImport(p))

\* A context that counts: it is in the table or being loaded.
Live(o) == o \in InTable(contexts) \/ \E p \in Process : Underway(p, o)

\* Its imports are no stale modules, but for those that were dragged along.
Imported ==
  ~overlap => \A o \in Context : Live(o) =>
    \A i \in object[o].imports : Stale(i) => i[1] \in dragged

\* Versions grow, and what is to be loaded has one.
Versions ==
  /\ \A n \in Name : disk[n] <= edits + 1
  /\ \A p \in Process, n \in Name :
       proc[p].files[n] <= edits + 1 /\ (disk[n] = 0 \/ proc[p].files[n] <= disk[n])
  /\ \A p \in Process :
       /\ proc[p].todo \subseteq Present(proc[p].files)
       /\ proc[p].pc \in {"idle", "reading"} => proc[p].todo = {}
  /\ \A o \in Context : o[2] <= made[o[1]] => object[o].version # 0

\* How far a reload of what has changed, or of everything, has come.
Whole(p) ==
  /\ proc[p].pc \in {"syncing", "loading", "importing"}
  /\ proc[p].only \in {None, All} /\ ~proc[p].failed

Fetched ==
  ~overlap => \A p \in Process : Whole(p) =>
    /\ \A n \in Autoload \cap Present(proc[p].files) :
         \/ n \in proc[p].todo \/ contexts[n] # 0
         \/ \E i \in DOMAIN stackOf(p) : stackOf(p)[i].name = n
    /\ \A o \in Context : o \in InTable(contexts) \/ Underway(p, o) =>
         /\ object[o].version >= proc[p].files[o[1]]
         /\ proc[p].files[o[1]] = 0 => proc[p].all[o[1]] # o[2]

ReloadInv == /\ TypeInv /\ Stacks /\ Numbered /\ Fresh /\ OneLoad /\ Runs /\ NoOrphan
             /\ Alone /\ Unlisted /\ Nested /\ Replaced /\ Known /\ ByImport
             /\ Imported /\ Versions /\ Fetched

-----------------------------------------------------------------------------
(* The state *)

\* The table holds the contexts it gives the number of.
LEMMA InTableIs ==
  ASSUME NEW t \in [Name -> 0..MaxLoads]
  PROVE  /\ InTable(t) \subseteq Context
         /\ \A o \in Context : o \in InTable(t) <=> t[o[1]] = o[2]
<1>1. MaxLoads \in Nat
  BY ReloadAssumption DEF ReloadAssumption
<1>2. ASSUME NEW n \in Name, t[n] # 0
      PROVE  <<n, t[n]>> \in Context
  BY <1>1, <1>2 DEF Context
<1>3. ASSUME NEW o \in Context
      PROVE  o \in InTable(t) <=> t[o[1]] = o[2]
  <2>1. o = <<o[1], o[2]>> /\ o[1] \in Name /\ o[2] \in 1..MaxLoads
    BY DEF Context
  <2>2. o[2] # 0
    BY <1>1, <2>1
  <2>3. CASE t[o[1]] = o[2]
    BY <2>1, <2>2, <2>3 DEF InTable
  <2>4. CASE o \in InTable(t)
    BY <2>1, <2>4 DEF InTable
  <2>5. QED
    BY <2>3, <2>4
<1>4. QED
  BY <1>2, <1>3 DEF InTable

\* What a reload that is set leaves of the others.
LEMMA ProcSet ==
  ASSUME proc \in [Process -> Proc], NEW p \in Process, NEW r \in Proc, SetProc(p, r)
  PROVE  /\ proc' \in [Process -> Proc] /\ proc'[p] = r
         /\ \A q \in Process : q # p => proc'[q] = proc[q]
BY DEF SetProc

\* A load under way is of a context.
LEMMA UnderwayIs ==
  ASSUME TypeInv, NEW p \in Process
  PROVE  /\ stackOf(p) \in Seq(Frame) /\ proc[p] \in Proc
         /\ \A i \in DOMAIN stackOf(p) :
              LET f == stackOf(p)[i] IN
              /\ f \in Frame /\ contextOf(f) \in Context /\ Underway(p, contextOf(f))
              /\ contextOf(f)[1] = f.name /\ contextOf(f)[2] = f.k
         /\ \A o : Underway(p, o) => o \in Context
<1>1. stackOf(p) \in Seq(Frame) /\ proc[p] \in Proc
  BY DEF TypeInv, Proc, stackOf
<1>2. ASSUME NEW i \in DOMAIN stackOf(p)
      PROVE  LET f == stackOf(p)[i] IN
              /\ f \in Frame /\ contextOf(f) \in Context /\ Underway(p, contextOf(f))
              /\ contextOf(f)[1] = f.name /\ contextOf(f)[2] = f.k
  <2>1. stackOf(p)[i] \in Frame
    BY <1>1
  <2>2. QED
    BY <2>1 DEF Frame, contextOf, Context, Underway, stackOf
<1>3. QED
  BY <1>1, <1>2 DEF Underway, stackOf

-----------------------------------------------------------------------------
(* Steps that leave the contexts alone *)

\* A step that touches no context but for auto_start, and no stack.
LEMMA Plain ==
  ASSUME ReloadInv, TypeInv', Stacks', Versions', Alone', Known', Fetched',
         UNCHANGED <<contexts, made, overwritten, removed, dragged>>,
         overlap => overlap',
         \A o \in Context :
           /\ object'[o].stopped = object[o].stopped
           /\ object'[o].module = object[o].module
           /\ object'[o].imports = object[o].imports,
         \A q \in Process : stackOf(q)' = stackOf(q),
         \A q \in Process, n \in Name : proc'[q].all[n] \in {proc[q].all[n], contexts[n], 0},
         ~overlap' => \A q \in Process : proc'[q].pc = "importing" => ~Module(toImport(q))'
  PROVE  ReloadInv'
<1>1. TypeInv /\ MaxLoads \in Nat
  BY ReloadAssumption DEF ReloadInv, ReloadAssumption
<1>2. \A q \in Process, o \in Context : Underway(q, o)' <=> Underway(q, o)
  BY DEF Underway, stackOf
<1>3. \A o \in Context : o[1] \in Name /\ o[2] # 0
  BY <1>1 DEF Context
<1>4. Numbered'
  BY <1>1 DEF ReloadInv, Numbered, TypeInv
<1>5. Fresh'
  BY <1>2, <1>3 DEF ReloadInv, Fresh
<1>6. OneLoad' /\ Unlisted' /\ Nested'
  BY DEF ReloadInv, OneLoad, Unlisted, Nested
<1>7. \A o \in InTable(contexts) : o \in Context
  BY <1>1, InTableIs DEF TypeInv
<1>8. Runs' /\ Replaced'
  BY <1>7 DEF ReloadInv, Runs, Replaced
<1>9. NoOrphan'
  BY <1>2 DEF ReloadInv, NoOrphan
<1>10. ByImport'
  BY DEF ReloadInv, ByImport
<1>11. Imported'
  <2>1. \A i : Stale(i)' <=> Stale(i)
    BY DEF Stale
  <2>2. \A o \in Context : Live(o)' => Live(o)
    BY <1>2 DEF Live
  <2>3. QED
    BY <2>1, <2>2 DEF ReloadInv, Imported
<1>12. QED
  BY <1>4, <1>5, <1>6, <1>8, <1>9, <1>10, <1>11 DEF ReloadInv

\* Files change.
LEMMA EditStep ==
  ASSUME ReloadInv, NEW n \in Name, Edit(n)
  PROVE  ReloadInv'
<1>1. /\ UNCHANGED <<contexts, made, object, proc, acting, killed, overlap, overwritten,
                     removed, dragged>>
      /\ edits' = edits + 1 /\ edits \in Nat /\ disk \in [Name -> Nat]
      /\ \E v \in {0, edits + 2} : disk' = [disk EXCEPT ![n] = v]
  BY DEF Edit, history, ReloadInv, TypeInv
<1>2. PICK v \in {0, edits + 2} : disk' = [disk EXCEPT ![n] = v]
  BY <1>1
<1>3. TypeInv'
  BY <1>1, <1>2 DEF ReloadInv, TypeInv
<1>4. \A p \in Process : stackOf(p)' = stackOf(p)
  BY <1>1 DEF stackOf
<1>5. \A p \in Process : top(p)' = top(p) /\ (Active(p)' <=> Active(p))
  BY <1>1 DEF top, Active
<1>6. Stacks'
  <2>1. Stacks' <=> Stacks
    BY <1>1 DEF Stacks, stackOf, top
  <2>2. QED
    BY <2>1 DEF ReloadInv
<1>7. Versions'
  <2>1. \A m \in Name : disk'[m] \in {disk[m], 0, edits + 2} /\ disk[m] \in Nat
    BY <1>1, <1>2
  <2>2. \A p \in Process, m \in Name : proc[p].files[m] \in Nat
    BY UnderwayIs DEF ReloadInv, Proc
  <2>3. QED
    BY <1>1, <2>1, <2>2 DEF ReloadInv, Versions, Present
<1>8. Alone' /\ Known'
  BY <1>1, <1>5 DEF ReloadInv, Alone, Known
<1>9. Fetched'
  <2>1. \A p \in Process : \A o : Underway(p, o)' <=> Underway(p, o)
    BY <1>1 DEF Underway
  <2>2. \A p \in Process : Whole(p)' <=> Whole(p)
    BY <1>1 DEF Whole
  <2>3. QED
    BY <1>1, <1>4, <2>1, <2>2 DEF ReloadInv, Fetched
<1>10. ~overlap' => \A q \in Process : proc'[q].pc = "importing" => ~Module(toImport(q))'
  <2>1. \A m : Module(m)' <=> Module(m)
    BY <1>1 DEF Module
  <2>2. \A q \in Process : toImport(q)' = toImport(q)
    BY <1>5 DEF toImport
  <2>3. QED
    BY <1>1, <2>1, <2>2 DEF ReloadInv, ByImport
<1>11. QED
  BY <1>1, <1>3, <1>4, <1>6, <1>7, <1>8, <1>9, <1>10, Plain

\* Nothing but the shutdown actions changes.
LEMMA ActionStep ==
  ASSUME ReloadInv, acting' \subseteq Context, killed' \subseteq Context,
         UNCHANGED <<disk, edits, contexts, made, object, proc, history>>
  PROVE  ReloadInv'
<1>1. \A p \in Process :
        /\ stackOf(p)' = stackOf(p) /\ top(p)' = top(p) /\ (Active(p)' <=> Active(p))
        /\ \A o : Underway(p, o)' <=> Underway(p, o)
        /\ Whole(p)' <=> Whole(p)
  BY DEF stackOf, top, Active, Underway, Whole
<1>2. \A m : Module(m)' <=> Module(m)
  BY DEF Module
<1>3. TypeInv'
  BY DEF ReloadInv, TypeInv, history
<1>4. Stacks' /\ Versions' /\ Alone' /\ Known' /\ Fetched'
  <2>1. Stacks'
    BY <1>1 DEF ReloadInv, Stacks
  <2>2. Versions'
    BY DEF ReloadInv, Versions, Present
  <2>3. Alone' /\ Known'
    BY <1>1 DEF ReloadInv, Alone, Known, history
  <2>4. Fetched'
    BY <1>1 DEF ReloadInv, Fetched, history
  <2>5. QED
    BY <2>1, <2>2, <2>3, <2>4
<1>5. ~overlap' => \A q \in Process : proc'[q].pc = "importing" => ~Module(toImport(q))'
  <2>1. \A q \in Process : toImport(q)' = toImport(q)
    BY <1>1 DEF toImport
  <2>2. QED
    BY <1>2, <2>1 DEF ReloadInv, ByImport, history
<1>6. QED
  BY <1>1, <1>3, <1>4, <1>5, Plain DEF history

\* A step of one reload that touches no context and no stack.
LEMMA PlainProc ==
  ASSUME ReloadInv, NEW p \in Process, NEW r \in Proc, SetProc(p, r),
         r.stack = stackOf(p), r.files = proc[p].files, r.todo = proc[p].todo,
         r.all \in {proc[p].all, contexts},
         r.stack # <<>> => r.pc \in {"loading", "importing"},
         r.pc \in {"idle", "reading"} => proc[p].pc = "idle",
         r.pc = "importing" => r.stack # <<>> /\ top(p).left # <<>>,
         r.pc = "importing" => ~Module(toImport(p)),
         r.pc = "reading" /\ ~overlap' => r.all = contexts,
         ~overlap' => (Active(p) \/ \A q \in Process : ~Active(q)),
         Whole(p)' => Whole(p) /\ r.all = proc[p].all, 
         UNCHANGED <<disk, edits, contexts, made, object, acting, killed, overwritten,
                     removed, dragged>>,
         overlap' \in BOOLEAN, overlap => overlap'
  PROVE  ReloadInv'
<1>1. /\ proc' \in [Process -> Proc] /\ proc'[p] = r
      /\ \A q \in Process : q # p => proc'[q] = proc[q]
  BY ProcSet DEF ReloadInv, TypeInv
<1>2. TypeInv'
  BY <1>1 DEF ReloadInv, TypeInv
<1>3. \A q \in Process : stackOf(q)' = stackOf(q)
  BY <1>1 DEF stackOf
<1>4. \A q \in Process : top(q)' = top(q)
  BY <1>1 DEF top, stackOf
<1>5. \A q \in Process : \A o : Underway(q, o)' <=> Underway(q, o)
  BY <1>3 DEF Underway, stackOf
<1>6. Stacks'
  <2> SUFFICES ASSUME NEW q \in Process
               PROVE  /\ stackOf(q) # <<>> => proc'[q].pc \in {"loading", "importing"}
                      /\ proc'[q].pc = "importing" =>
                           stackOf(q) # <<>> /\ top(q).left # <<>>
    BY <1>3, <1>4 DEF ReloadInv, Stacks
  <2>1. CASE q = p
    BY <1>1, <2>1
  <2>2. CASE q # p
    BY <1>1, <2>2 DEF ReloadInv, Stacks
  <2>3. QED
    BY <2>1, <2>2
<1>7. Versions'
  BY <1>1 DEF ReloadInv, Versions, Present
<1>8. Alone'
  BY <1>1 DEF ReloadInv, Alone, Active
<1>9. Known'
  BY <1>1 DEF ReloadInv, Known
<1>10. Fetched'
  <2>1. \A q \in Process : Whole(q)' => Whole(q)
    BY <1>1 DEF Whole
  <2>2. QED
    BY <1>1, <1>3, <1>5, <2>1 DEF ReloadInv, Fetched
<1>11. ~overlap' => \A q \in Process : proc'[q].pc = "importing" => ~Module(toImport(q))'
  <2>1. \A q \in Process : toImport(q)' = toImport(q)
    BY <1>4 DEF toImport
  <2>2. \A m : Module(m)' <=> Module(m)
    BY DEF Module
  <2>3. QED
    BY <1>1, <2>1, <2>2 DEF ReloadInv, ByImport
<1>12. \A q \in Process, n \in Name : proc'[q].all[n] \in {proc[q].all[n], contexts[n], 0}
  BY <1>1
<1>13. QED
  BY <1>2, <1>3, <1>6, <1>7, <1>8, <1>9, <1>10, <1>11, <1>12, Plain

\* A reload is called.
LEMMA BeginStep ==
  ASSUME ReloadInv, NEW p \in Process, NEW only \in Name \cup {None, All, Unload},
         Begin(p, only)
  PROVE  ReloadInv'
<1> DEFINE r == [proc[p] EXCEPT !.pc = "reading", !.only = only, !.all = contexts]
<1>1. /\ proc[p].pc = "idle" /\ SetProc(p, r)
      /\ overlap' = (overlap \/ \E q \in Process : Active(q))
      /\ UNCHANGED <<disk, edits, contexts, made, object, acting, killed, overwritten,
                     removed, dragged>>
  BY DEF Begin
<1>2. proc[p] \in Proc /\ contexts \in [Name -> 0..MaxLoads] /\ overlap \in BOOLEAN
  BY UnderwayIs DEF ReloadInv, TypeInv
<1>3. r \in Proc
  BY <1>2 DEF Proc, Places
<1>4. /\ r.pc = "reading" /\ r.all = contexts /\ r.stack = stackOf(p)
      /\ r.files = proc[p].files /\ r.todo = proc[p].todo
  BY <1>2 DEF Proc, stackOf
<1>5. stackOf(p) = <<>>
  BY <1>1 DEF ReloadInv, Stacks
<1>6. proc'[p] = r
  BY <1>1, <1>3, ProcSet DEF ReloadInv, TypeInv
<1> HIDE DEF r
<1>7. ~Whole(p)'
  BY <1>4, <1>6 DEF Whole
<1>8. overlap' \in BOOLEAN /\ (overlap => overlap') /\ (~overlap' => \A q \in Process : ~Active(q))
  BY <1>1, <1>2
<1>9. QED
  BY <1>1, <1>3, <1>4, <1>5, <1>7, <1>8, PlainProc

\* waiter_sync returns.
LEMMA SyncedStep ==
  ASSUME ReloadInv, NEW p \in Process, Synced(p)
  PROVE  ReloadInv'
<1> DEFINE r == [proc[p] EXCEPT !.pc = "loading"]
<1>1. /\ proc[p].pc = "syncing" /\ SetProc(p, r)
      /\ UNCHANGED <<disk, edits, contexts, made, object, acting, killed, overlap,
                     overwritten, removed, dragged>>
  BY DEF Synced, history
<1>2. proc[p] \in Proc /\ overlap \in BOOLEAN
  BY UnderwayIs DEF ReloadInv, TypeInv
<1>3. r \in Proc
  BY <1>2 DEF Proc, Places
<1>4. /\ r.pc = "loading" /\ r.all = proc[p].all /\ r.stack = stackOf(p)
      /\ r.files = proc[p].files /\ r.todo = proc[p].todo /\ r.only = proc[p].only
      /\ r.failed = proc[p].failed
  BY <1>2 DEF Proc, stackOf
<1>5. proc'[p] = r
  BY <1>1, <1>3, ProcSet DEF ReloadInv, TypeInv
<1> HIDE DEF r
<1>6. Whole(p)' => Whole(p)
  BY <1>1, <1>4, <1>5 DEF Whole
<1>7. Active(p)
  BY <1>1 DEF Active
<1>8. QED
  BY <1>1, <1>2, <1>3, <1>4, <1>6, <1>7, PlainProc

\* An import looks for a file.
LEMMA SearchStep ==
  ASSUME ReloadInv, NEW p \in Process, ImportSearch(p)
  PROVE  ReloadInv'
<1> DEFINE r == [proc[p] EXCEPT !.pc = "importing"]
<1>1. /\ proc[p].pc = "loading" /\ SetProc(p, r)
      /\ stackOf(p) # <<>> /\ top(p).left # <<>> /\ ~Module(toImport(p))
      /\ UNCHANGED <<disk, edits, contexts, made, object, acting, killed, overlap,
                     overwritten, removed, dragged>>
  BY DEF ImportSearch, Loading, stackOf, history
<1>2. proc[p] \in Proc /\ overlap \in BOOLEAN
  BY UnderwayIs DEF ReloadInv, TypeInv
<1>3. r \in Proc
  BY <1>2 DEF Proc, Places
<1>4. /\ r.pc = "importing" /\ r.all = proc[p].all /\ r.stack = stackOf(p)
      /\ r.files = proc[p].files /\ r.todo = proc[p].todo /\ r.only = proc[p].only
      /\ r.failed = proc[p].failed
  BY <1>2 DEF Proc, stackOf
<1>5. proc'[p] = r
  BY <1>1, <1>3, ProcSet DEF ReloadInv, TypeInv
<1> HIDE DEF r
<1>6. Whole(p)' => Whole(p)
  BY <1>1, <1>4, <1>5 DEF Whole
<1>7. Active(p)
  BY <1>1 DEF Active
<1>8. QED
  BY <1>1, <1>2, <1>3, <1>4, <1>6, <1>7, PlainProc

\* A reload ends: its contexts are started.
LEMMA FinishStep ==
  ASSUME ReloadInv, NEW p \in Process, Finish(p)
  PROVE  ReloadInv'
<1> DEFINE r == [idleProc EXCEPT !.pc = "done"]
<1>1. /\ proc[p].pc = "loading" /\ stackOf(p) = <<>> /\ SetProc(p, r)
      /\ object' = [o \in Context |->
           IF proc[p].only # Unload /\ o[1] \in Asked(proc[p].only) /\ contexts[o[1]] = o[2]
             THEN [object[o] EXCEPT !.auto_start = TRUE] ELSE object[o]]
      /\ UNCHANGED <<disk, edits, contexts, made, acting, killed, overlap,
                     overwritten, removed, dragged>>
  BY DEF Finish, stackOf, history
<1>2. object \in [Context -> Object]
  BY DEF ReloadInv, TypeInv
<1>3. /\ r \in Proc /\ r.pc = "done" /\ r.stack = <<>> /\ r.todo = {}
      /\ \A n \in Name : r.files[n] = 0 /\ r.all[n] = 0
  <2>1. MaxLoads \in Nat
    BY ReloadAssumption DEF ReloadAssumption
  <2> DEFINE zero == [n \in Name |-> 0]
  <2>2. zero \in [Name -> 0..MaxLoads] /\ zero \in [Name -> Nat]
    BY <2>1
  <2>3. \A n \in Name : zero[n] = 0
    OBVIOUS
  <2>4. /\ idleProc = [pc |-> "idle", only |-> None, all |-> zero, files |-> zero, todo |-> {},
                       stack |-> <<>>, waits |-> {}, failed |-> FALSE]
        /\ r = [idleProc EXCEPT !.pc = "done"]
    BY DEF idleProc
  <2>5. <<>> \in Seq(Frame) /\ "done" \in Places /\ "idle" \in Places
    BY DEF Places
  <2> HIDE DEF zero, r
  <2>6. idleProc \in Proc
    BY <2>2, <2>4, <2>5 DEF Proc
  <2>7. r \in Proc /\ r.pc = "done" /\ r.stack = idleProc.stack /\ r.todo = idleProc.todo
        /\ r.files = idleProc.files /\ r.all = idleProc.all
    BY <2>4, <2>5, <2>6 DEF Proc
  <2>8. QED
    BY <2>3, <2>4, <2>7
<1> HIDE DEF r
<1>4. /\ proc' \in [Process -> Proc] /\ proc'[p] = r
      /\ \A q \in Process : q # p => proc'[q] = proc[q]
  BY <1>1, <1>3, ProcSet DEF ReloadInv, TypeInv
<1>5. \A o \in Context :
        /\ object'[o] \in Object
        /\ object'[o].stopped = object[o].stopped /\ object'[o].module = object[o].module
        /\ object'[o].imports = object[o].imports /\ object'[o].version = object[o].version
  <2> SUFFICES ASSUME NEW o \in Context
               PROVE  /\ object'[o] \in Object
                      /\ object'[o].stopped = object[o].stopped
                      /\ object'[o].module = object[o].module
                      /\ object'[o].imports = object[o].imports
                      /\ object'[o].version = object[o].version
    OBVIOUS
  <2>1. object'[o] = [object[o] EXCEPT !.auto_start = TRUE] \/ object'[o] = object[o]
    BY <1>1
  <2>2. object[o] \in Object
    BY <1>2
  <2>3. QED
    BY <2>1, <2>2 DEF Object
<1>6. TypeInv'
  <2>1. object' \in [Context -> Object]
    BY <1>1, <1>5
  <2>2. QED
    BY <1>1, <1>4, <2>1 DEF ReloadInv, TypeInv
<1>7. \A q \in Process : stackOf(q)' = stackOf(q)
  BY <1>1, <1>3, <1>4 DEF stackOf
<1>8. \A q \in Process : top(q)' = top(q)
  BY <1>7 DEF top, stackOf
<1>9. Stacks'
  <2> SUFFICES ASSUME NEW q \in Process
               PROVE  /\ stackOf(q) # <<>> => proc'[q].pc \in {"loading", "importing"}
                      /\ proc'[q].pc = "importing" =>
                           stackOf(q) # <<>> /\ top(q).left # <<>>
    BY <1>7, <1>8 DEF ReloadInv, Stacks
  <2>1. CASE q = p
    BY <1>1, <1>3, <1>4, <2>1
  <2>2. CASE q # p
    BY <1>4, <2>2 DEF ReloadInv, Stacks
  <2>3. QED
    BY <2>1, <2>2
<1>10. Versions'
  <2>1. edits \in Nat /\ disk \in [Name -> Nat]
    BY DEF ReloadInv, TypeInv
  <2>2. \A q \in Process, n \in Name :
          proc'[q].files[n] <= edits + 1 /\ (disk[n] = 0 \/ proc'[q].files[n] <= disk[n])
    BY <1>3, <1>4, <2>1 DEF ReloadInv, Versions
  <2>3. \A q \in Process :
          /\ proc'[q].todo \subseteq Present(proc'[q].files)
          /\ proc'[q].pc \in {"idle", "reading"} => proc'[q].todo = {}
    BY <1>3, <1>4 DEF ReloadInv, Versions
  <2>4. QED
    BY <1>1, <1>5, <2>2, <2>3 DEF ReloadInv, Versions
<1>11. Alone' /\ Known'
  BY <1>1, <1>3, <1>4 DEF ReloadInv, Alone, Known, Active
<1>12. \A q \in Process : \A o : Underway(q, o)' <=> Underway(q, o)
  BY <1>7 DEF Underway, stackOf
<1>13. Fetched'
  <2>1. \A q \in Process : Whole(q)' => Whole(q) /\ q # p
    BY <1>3, <1>4 DEF Whole
  <2>2. QED
    BY <1>1, <1>4, <1>5, <1>7, <1>12, <2>1 DEF ReloadInv, Fetched
<1>14. ~overlap' => \A q \in Process : proc'[q].pc = "importing" => ~Module(toImport(q))'
  <2>1. \A q \in Process : toImport(q)' = toImport(q)
    BY <1>8 DEF toImport
  <2>2. ASSUME NEW m \in Name, Module(m)'
        PROVE  Module(m)
    <3>1. <<m, contexts[m]>> \in Context
      BY <1>1, <2>2, InTableIs DEF Module, InTable, ReloadInv, TypeInv
    <3>2. QED
      BY <1>1, <1>5, <2>2, <3>1 DEF Module
  <2>3. ASSUME NEW q \in Process, proc'[q].pc = "importing"
        PROVE  toImport(q) \in Name /\ proc[q].pc = "importing"
    <3>1. proc[q].pc = "importing"
      BY <1>3, <1>4, <2>3
    <3>2. QED
      BY <3>1, UnderwayIs DEF ReloadInv, Stacks, toImport, top, Frame, stackOf
  <2>4. QED
    BY <1>1, <2>1, <2>2, <2>3 DEF ReloadInv, ByImport
<1>15. \A q \in Process, n \in Name : proc'[q].all[n] \in {proc[q].all[n], contexts[n], 0}
  BY <1>3, <1>4
<1>16. QED
  BY <1>1, <1>5, <1>6, <1>7, <1>9, <1>10, <1>11, <1>13, <1>14, <1>15, Plain

-----------------------------------------------------------------------------
(* load_file *)

\* What load_file does to the contexts: the new one, the one it took the place
\* of, and all others.
LEMMA LoadFileIs ==
  ASSUME TypeInv, Numbered, NEW p \in Process, NEW n \in Name, NEW version \in Nat,
         NEW auto_start \in BOOLEAN, load_file(p, n, version, auto_start),
         NEW new, new = contextOf(frame(n))
  PROVE  /\ frame(n) \in Frame /\ new \in Context /\ new[1] = n /\ new[2] = made[n] + 1
         /\ frame(n).name = n /\ frame(n).left = Imports[n]
         /\ object' \in [Context -> Object] /\ acting' \subseteq Context
         /\ object'[new] = newObject(version, auto_start, stackOf(p) # <<>>)
         /\ contexts' \in [Name -> 0..MaxLoads] /\ contexts'[n] = 0
         /\ made' \in [Name -> 1..MaxLoads] /\ made'[n] = made[n] + 1
         /\ \A m \in Name : m # n => contexts'[m] = contexts[m] /\ made'[m] = made[m]
         /\ \A o \in Context : o # new =>
              /\ object'[o].version = object[o].version
              /\ object'[o].module = object[o].module
              /\ object'[o].imports = object[o].imports
              /\ object'[o].stopped <=> object[o].stopped \/ (o[1] = n /\ o[2] = contexts[n])
<1> DEFINE old == {o \in InTable(contexts) : o[1] = n}
<1>1. /\ object' = [o \in Context |->
           IF o \in old THEN [object[o] EXCEPT !.stopped = TRUE, !.auto_start = FALSE]
           ELSE IF o = new
             THEN newObject(version, auto_start, stackOf(p) # <<>>) ELSE object[o]]
      /\ acting' = acting \cup {o \in old : n \in Shutdown /\ ~object[o].stopped}
  BY DEF load_file, stackOf
<1>0. /\ made[n] < MaxLoads /\ made' = [made EXCEPT ![n] = @ + 1]
      /\ contexts' = [contexts EXCEPT ![n] = 0]
  BY DEF load_file
<1>2. /\ MaxLoads \in Nat \ {0} /\ Imports[n] \in Seq(Name)
      /\ contexts \in [Name -> 0..MaxLoads] /\ made \in [Name -> 1..MaxLoads]
      /\ object \in [Context -> Object] /\ acting \subseteq Context
  BY ReloadAssumption DEF ReloadAssumption, TypeInv
<1>3. /\ frame(n) \in Frame /\ new \in Context /\ new[1] = n /\ new[2] = made[n] + 1
      /\ frame(n).name = n /\ frame(n).left = Imports[n]
  <2>1. made[n] + 1 \in 1..MaxLoads
    BY <1>0, <1>2
  <2>2. frame(n) = [name |-> n, k |-> made[n] + 1, left |-> Imports[n]]
    BY DEF frame
  <2>3. frame(n) \in Frame
    BY <1>2, <2>1, <2>2 DEF Frame
  <2>4. new = <<n, made[n] + 1>>
    BY <2>2 DEF contextOf
  <2>5. QED
    BY <2>1, <2>2, <2>3, <2>4 DEF Context
<1>4. \A o \in Context : o \in old <=> o[1] = n /\ o[2] = contexts[n]
  BY <1>2, InTableIs
<1>5. new \notin old /\ old \subseteq Context
  <2>1. contexts[n] <= made[n] /\ contexts[n] \in Nat /\ made[n] \in Nat
    BY <1>2 DEF Numbered
  <2>2. new[2] # contexts[n]
    BY <1>3, <2>1
  <2>3. QED
    BY <1>2, <1>3, <1>4, <2>2, InTableIs
<1>6. /\ contexts' \in [Name -> 0..MaxLoads] /\ contexts'[n] = 0
      /\ made' \in [Name -> 1..MaxLoads] /\ made'[n] = made[n] + 1
      /\ \A m \in Name : m # n => contexts'[m] = contexts[m] /\ made'[m] = made[m]
  <2>1. made[n] \in Nat /\ made[n] + 1 \in 1..MaxLoads /\ 0 \in 0..MaxLoads
    BY <1>0, <1>2
  <2>2. QED
    BY <1>0, <1>2, <2>1
<1>7. newObject(version, auto_start, stackOf(p) # <<>>) \in Object
  BY DEF newObject, Object
<1>8. acting' \subseteq Context
  BY <1>1, <1>2, <1>5
<1> HIDE DEF old
<1>9. ASSUME NEW o \in Context
      PROVE  /\ object'[o] \in Object
             /\ o # new =>
                  /\ object'[o].version = object[o].version
                  /\ object'[o].module = object[o].module
                  /\ object'[o].imports = object[o].imports
                  /\ object'[o].stopped <=> object[o].stopped \/ (o[1] = n /\ o[2] = contexts[n])
  <2>1. object[o] \in Object
    BY <1>2
  <2>2. CASE o \in old
    <3>1. object'[o] = [object[o] EXCEPT !.stopped = TRUE, !.auto_start = FALSE]
      BY <1>1, <2>2
    <3>2. QED
      BY <1>4, <2>1, <2>2, <3>1 DEF Object
  <2>3. CASE o \notin old /\ o # new
    <3>1. object'[o] = object[o]
      BY <1>1, <2>3
    <3>2. QED
      BY <1>4, <2>1, <2>3, <3>1
  <2>4. CASE o = new
    BY <1>1, <1>3, <1>5, <1>7, <2>4
  <2>5. QED
    BY <2>2, <2>3, <2>4
<1>10. object'[new] = newObject(version, auto_start, stackOf(p) # <<>>)
  BY <1>1, <1>3, <1>5
<1>11. object' \in [Context -> Object]
  BY <1>1, <1>9
<1>12. QED
  BY <1>3, <1>6, <1>8, <1>9, <1>10, <1>11

\* The stack of loads after load_file.
LEMMA PushIs ==
  ASSUME TypeInv, NEW p \in Process, NEW f \in Frame, proc' \in [Process -> Proc],
         proc'[p].stack = Append(stackOf(p), f),
         \A q \in Process : q # p => proc'[q] = proc[q]
  PROVE  /\ \A q \in Process : q # p => stackOf(q)' = stackOf(q)
         /\ Len(stackOf(p)) \in Nat /\ Len(stackOf(p)') = Len(stackOf(p)) + 1
         /\ DOMAIN stackOf(p) = 1..Len(stackOf(p))
         /\ DOMAIN stackOf(p)' = 1..Len(stackOf(p)) + 1
         /\ \A i \in DOMAIN stackOf(p) : stackOf(p)'[i] = stackOf(p)[i]
         /\ stackOf(p)'[Len(stackOf(p)) + 1] = f /\ stackOf(p)' # <<>>
         /\ \A o : Underway(p, o)' <=> Underway(p, o) \/ o = contextOf(f)
         /\ \A q \in Process : \A o : q # p => (Underway(q, o)' <=> Underway(q, o))
<1>1. stackOf(p) \in Seq(Frame)
  BY UnderwayIs
<1>2. stackOf(p)' = Append(stackOf(p), f) /\ \A q \in Process : q # p => stackOf(q)' = stackOf(q)
  BY DEF stackOf
<1>3. /\ Len(stackOf(p)) \in Nat /\ Len(stackOf(p)') = Len(stackOf(p)) + 1
      /\ DOMAIN stackOf(p) = 1..Len(stackOf(p))
      /\ DOMAIN stackOf(p)' = 1..Len(stackOf(p)) + 1
      /\ \A i \in DOMAIN stackOf(p) : stackOf(p)'[i] = stackOf(p)[i]
      /\ stackOf(p)'[Len(stackOf(p)) + 1] = f /\ stackOf(p)' # <<>>
  BY <1>1, <1>2
<1>4. ASSUME NEW o
      PROVE  Underway(p, o)' <=> Underway(p, o) \/ o = contextOf(f)
  <2>1. Underway(p, o)' <=> \E i \in DOMAIN stackOf(p)' : contextOf(stackOf(p)'[i]) = o
    BY DEF Underway, stackOf, contextOf
  <2>2. Underway(p, o) <=> \E i \in DOMAIN stackOf(p) : contextOf(stackOf(p)[i]) = o
    BY DEF Underway, stackOf
  <2>3. \A i : i \in DOMAIN stackOf(p)' <=> i \in DOMAIN stackOf(p) \/ i = Len(stackOf(p)) + 1
    BY <1>3
  <2>4. QED
    BY <1>3, <2>1, <2>2, <2>3
<1>5. \A q \in Process : \A o : q # p => (Underway(q, o)' <=> Underway(q, o))
  BY DEF Underway
<1>6. QED
  BY <1>2, <1>3, <1>4, <1>5

\* load_file, for the next file on the list or for an import.
LEMMA LoadStep ==
  ASSUME ReloadInv, NEW p \in Process, NEW n \in Name, NEW version \in Nat \ {0},
         NEW auto_start \in BOOLEAN, load_file(p, n, version, auto_start),
         version >= proc[p].files[n],
         \/ proc[p].pc = "loading" /\ stackOf(p) = <<>> /\ n \in Autoload
         \/ proc[p].pc = "importing" /\ n = toImport(p),
         UNCHANGED <<disk, edits, killed, history>>
  PROVE  ReloadInv'
<1> DEFINE new == contextOf(frame(n))
           left == IF stackOf(p) = <<>> THEN proc[p].todo \ {n} ELSE proc[p].todo
           r == [proc[p] EXCEPT !.stack = Append(@, frame(n)), !.pc = "loading",
                                !.todo = left]
<1>1. /\ TypeInv /\ Numbered /\ MaxLoads \in Nat \ {0}
      /\ contexts \in [Name -> 0..MaxLoads] /\ made \in [Name -> 1..MaxLoads]
      /\ proc[p] \in Proc
  BY ReloadAssumption, UnderwayIs DEF ReloadInv, ReloadAssumption, TypeInv
<1>2. /\ frame(n) \in Frame /\ new \in Context /\ new[1] = n /\ new[2] = made[n] + 1
      /\ frame(n).name = n /\ frame(n).left = Imports[n]
      /\ object' \in [Context -> Object] /\ acting' \subseteq Context
      /\ object'[new] = newObject(version, auto_start, stackOf(p) # <<>>)
      /\ contexts' \in [Name -> 0..MaxLoads] /\ contexts'[n] = 0
      /\ made' \in [Name -> 1..MaxLoads] /\ made'[n] = made[n] + 1
      /\ \A m \in Name : m # n => contexts'[m] = contexts[m] /\ made'[m] = made[m]
  BY <1>1, LoadFileIs
<1>3. \A o \in Context : o # new =>
        /\ object'[o].version = object[o].version
        /\ object'[o].module = object[o].module
        /\ object'[o].imports = object[o].imports
        /\ object'[o].stopped <=> object[o].stopped \/ (o[1] = n /\ o[2] = contexts[n])
  BY <1>1, LoadFileIs
<1>4. SetProc(p, r)
  BY DEF load_file, stackOf
<1>5. /\ r \in Proc /\ r.stack = Append(stackOf(p), frame(n)) /\ r.pc = "loading"
      /\ r.todo = left /\ r.files = proc[p].files /\ r.all = proc[p].all
      /\ r.only = proc[p].only /\ r.failed = proc[p].failed
  <2>1. left \subseteq proc[p].todo
    OBVIOUS
  <2>2. left \subseteq Autoload
    BY <1>1, <2>1 DEF Proc
  <2> DEFINE stack == Append(stackOf(p), frame(n))
  <2>3. stack \in Seq(Frame)
    BY <1>1, <1>2, UnderwayIs
  <2>4. r = [proc[p] EXCEPT !.stack = stack, !.pc = "loading", !.todo = left]
    BY DEF stackOf
  <2> HIDE DEF left, stack, r
  <2>5. /\ r \in Proc /\ r.stack = stack /\ r.pc = "loading"
        /\ r.todo = left /\ r.files = proc[p].files /\ r.all = proc[p].all
        /\ r.only = proc[p].only /\ r.failed = proc[p].failed
    BY <1>1, <2>2, <2>3, <2>4 DEF Proc, Places
  <2>6. QED
    BY <2>5 DEF stack
<1>6. /\ left \subseteq proc[p].todo
      /\ \A m \in proc[p].todo : m \in left \/ (m = n /\ stackOf(p) = <<>>)
  OBVIOUS
<1> HIDE DEF new, left, r
<1>7. /\ proc' \in [Process -> Proc] /\ proc'[p] = r
      /\ \A q \in Process : q # p => proc'[q] = proc[q]
  BY <1>1, <1>4, <1>5, ProcSet DEF TypeInv
<1>8. /\ \A q \in Process : q # p => stackOf(q)' = stackOf(q)
      /\ Len(stackOf(p)) \in Nat /\ Len(stackOf(p)') = Len(stackOf(p)) + 1
      /\ DOMAIN stackOf(p) = 1..Len(stackOf(p))
      /\ DOMAIN stackOf(p)' = 1..Len(stackOf(p)) + 1
      /\ \A i \in DOMAIN stackOf(p) : stackOf(p)'[i] = stackOf(p)[i]
      /\ stackOf(p)'[Len(stackOf(p)) + 1] = frame(n) /\ stackOf(p)' # <<>>
  <2>1. proc'[p].stack = Append(stackOf(p), frame(n))
    BY <1>5, <1>7
  <2>2. QED
    <3>1. TypeInv /\ p \in Process /\ frame(n) \in Frame
      BY <1>1, <1>2
    <3>2. proc' \in [Process -> Proc] /\ \A q \in Process : q # p => proc'[q] = proc[q]
      BY <1>7
    <3>3. QED
      BY ONLY <2>1, <3>1, <3>2, PushIs
<1>9. /\ \A o : Underway(p, o)' <=> Underway(p, o) \/ o = new
      /\ \A q \in Process : \A o : q # p => (Underway(q, o)' <=> Underway(q, o))
  BY <1>1, <1>2, <1>5, <1>7, PushIs DEF new
<1>10. /\ UNCHANGED <<disk, edits, killed, overlap, overwritten, removed, dragged>>
       /\ overlap \in BOOLEAN
  BY <1>1 DEF history, TypeInv
<1>11. TypeInv'
  BY <1>1, <1>2, <1>7, <1>10 DEF TypeInv
<1>12. /\ \A o \in Context : o \in InTable(contexts) <=> contexts[o[1]] = o[2]
       /\ \A o \in Context : o \in InTable(contexts)' <=> contexts'[o[1]] = o[2]
       /\ InTable(contexts) \subseteq Context /\ InTable(contexts)' \subseteq Context
  <2>1. InTable(contexts)' = InTable(contexts')
    BY DEF InTable
  <2>2. QED
    BY <1>1, <1>2, <2>1, InTableIs
<1>13. \A o \in Context : o[1] \in Name /\ o[2] \in 1..MaxLoads /\ o[2] # 0
  BY <1>1 DEF Context
<1>14. \A o \in Context : o \in InTable(contexts)' <=> o \in InTable(contexts) /\ o[1] # n
  <2> TAKE o \in Context
  <2>1. o[1] \in Name /\ o[2] # 0
    BY <1>13
  <2>2. /\ o \in InTable(contexts) <=> contexts[o[1]] = o[2]
        /\ o \in InTable(contexts)' <=> contexts'[o[1]] = o[2]
    BY <1>12
  <2>3. IF o[1] = n THEN contexts'[o[1]] = 0 ELSE contexts'[o[1]] = contexts[o[1]]
    BY <1>2, <2>1
  <2>4. QED
    BY <2>1, <2>2, <2>3
<1>15. /\ made[n] \in Nat /\ contexts[n] <= made[n] /\ contexts[n] \in Nat
       /\ \A q \in Process : proc[q].all[n] <= made[n] /\ proc[q].all[n] \in Nat
  <2>1. \A q \in Process : proc[q] \in Proc
    BY <1>1, UnderwayIs
  <2>2. QED
    BY <1>1, <2>1 DEF Numbered, Proc
<1>16. \A o \in Context : o # new /\ o[2] <= made'[o[1]] => o[2] <= made[o[1]]
  <2> SUFFICES ASSUME NEW o \in Context, o # new, o[2] <= made'[o[1]]
               PROVE  o[2] <= made[o[1]]
    OBVIOUS
  <2>1. CASE o[1] # n
    BY <1>2, <1>13, <2>1
  <2>2. CASE o[1] = n
    <3>1. o[2] # made[n] + 1
      BY <1>2, <2>2 DEF Context
    <3>2. QED
      BY <1>2, <1>13, <1>15, <2>2, <3>1
  <2>3. QED
    BY <2>1, <2>2
<1>17. \A q \in Process : ~Underway(q, new)
  <2>1. ~(new[2] <= made[new[1]])
    BY <1>2, <1>15
  <2>2. QED
    BY <1>2, <2>1 DEF ReloadInv, Fresh
<1>18. proc[p].pc \in {"loading", "importing"} /\ Active(p)
  BY DEF Active
<1>19. ~overlap => \A q \in Process : q # p => ~Active(q)
  BY <1>18 DEF ReloadInv, Alone
<1>20. stackOf(p) # <<>> =>
         /\ proc[p].pc = "importing" /\ n = toImport(p) /\ top(p).left # <<>>
         /\ top(p) = stackOf(p)[Len(stackOf(p))]
  BY DEF ReloadInv, Stacks, top, stackOf
<1>21. proc[p].pc = "importing" => stackOf(p) # <<>>
  BY DEF ReloadInv, Stacks
<1>22. \A i \in DOMAIN stackOf(p) :
         /\ stackOf(p)[i].left # <<>>
         /\ Head(stackOf(p)[i].left) = stackOf(p)'[i + 1].name
         /\ elems(stackOf(p)[i].left) \subseteq elems(Imports[stackOf(p)[i].name])
         /\ Head(stackOf(p)[i].left) \in elems(stackOf(p)[i].left)
  <2> SUFFICES ASSUME NEW i \in DOMAIN stackOf(p)
               PROVE  /\ stackOf(p)[i].left # <<>>
                      /\ Head(stackOf(p)[i].left) = stackOf(p)'[i + 1].name
                      /\ elems(stackOf(p)[i].left) \subseteq elems(Imports[stackOf(p)[i].name])
                      /\ Head(stackOf(p)[i].left) \in elems(stackOf(p)[i].left)
    OBVIOUS
  <2>1. elems(stackOf(p)[i].left) \subseteq elems(Imports[stackOf(p)[i].name])
    BY DEF ReloadInv, Stacks
  <2>2. stackOf(p)[i].left # <<>> /\ Head(stackOf(p)[i].left) = stackOf(p)'[i + 1].name
    <3>1. CASE i < Len(stackOf(p))
      <4>1. i + 1 \in DOMAIN stackOf(p)
        BY <1>8, <3>1
      <4>2. QED
        BY <1>8, <3>1, <4>1 DEF ReloadInv, Stacks
    <3>2. CASE i = Len(stackOf(p))
      BY <1>2, <1>8, <1>20, <3>2 DEF toImport
    <3>3. QED
      BY <1>8, <3>1, <3>2
  <2>3. stackOf(p)[i].left \in Seq(Name)
    BY <1>1, UnderwayIs DEF Frame
  <2>4. Head(stackOf(p)[i].left) \in elems(stackOf(p)[i].left)
    BY <2>2, <2>3 DEF elems
  <2>5. QED
    BY <2>1, <2>2, <2>4
<1>23. Stacks'
  <2>1. ASSUME NEW q \in Process, q # p
        PROVE  /\ stackOf(q)' # <<>> => proc'[q].pc \in {"loading", "importing"}
               /\ proc'[q].pc = "importing" => stackOf(q)' # <<>> /\ top(q)'.left # <<>>
               /\ \A i \in DOMAIN stackOf(q)' :
                    /\ elems(stackOf(q)'[i].left) \subseteq elems(Imports[stackOf(q)'[i].name])
                    /\ i < Len(stackOf(q)') =>
                         /\ stackOf(q)'[i].left # <<>>
                         /\ Head(stackOf(q)'[i].left) = stackOf(q)'[i + 1].name
    <3>1. proc'[q] = proc[q] /\ stackOf(q)' = stackOf(q) /\ top(q)' = top(q)
      BY <1>7, <1>8, <2>1 DEF top
    <3>2. QED
      BY <3>1 DEF ReloadInv, Stacks
  <2>2. \A i \in DOMAIN stackOf(p)' :
          /\ elems(stackOf(p)'[i].left) \subseteq elems(Imports[stackOf(p)'[i].name])
          /\ i < Len(stackOf(p)') =>
               /\ stackOf(p)'[i].left # <<>>
               /\ Head(stackOf(p)'[i].left) = stackOf(p)'[i + 1].name
    <3> SUFFICES ASSUME NEW i \in DOMAIN stackOf(p)'
                 PROVE  /\ elems(stackOf(p)'[i].left) \subseteq elems(Imports[stackOf(p)'[i].name])
                        /\ i < Len(stackOf(p)') =>
                             /\ stackOf(p)'[i].left # <<>>
                             /\ Head(stackOf(p)'[i].left) = stackOf(p)'[i + 1].name
      OBVIOUS
    <3>1. CASE i \in DOMAIN stackOf(p)
      BY <1>8, <1>22, <3>1
    <3>2. CASE i = Len(stackOf(p)) + 1
      BY <1>2, <1>8, <3>2
    <3>3. QED
      BY <1>8, <3>1, <3>2
  <2>3. proc'[p].pc = "loading"
    BY <1>5, <1>7
  <2>4. QED
    BY <2>1, <2>2, <2>3 DEF Stacks
<1>24. Numbered'
  <2>1. \A m \in Name : contexts'[m] <= made'[m] /\ made[m] <= made'[m]
    BY <1>1, <1>2, <1>15 DEF Numbered
  <2>2. \A q \in Process, m \in Name : proc'[q].all[m] = proc[q].all[m]
    BY <1>5, <1>7
  <2>3. \A q \in Process, m \in Name : proc[q].all[m] \in Nat /\ proc[q].all[m] <= made[m]
    BY <1>1, UnderwayIs DEF Numbered, Proc
  <2>4. \A m \in Name : made[m] \in Nat /\ made'[m] \in Nat
    BY <1>1, <1>2
  <2>5. QED
    BY <2>1, <2>2, <2>3, <2>4 DEF Numbered
<1>25. Fresh'
  <2> SUFFICES ASSUME NEW q \in Process, NEW o \in Context, Underway(q, o)'
               PROVE  /\ ~object'[o].stopped /\ o[2] <= made'[o[1]] /\ contexts'[o[1]] # o[2]
                      /\ \A u \in Process : proc'[u].all[o[1]] # o[2]
    BY DEF Fresh
  <2>1. \A u \in Process : proc'[u].all = proc[u].all
    BY <1>5, <1>7
  <2>2. CASE o = new
    <3>1. ~object'[o].stopped
      BY <1>2, <2>2 DEF newObject
    <3>2. o[1] = n /\ o[2] = made[n] + 1 /\ contexts'[n] = 0 /\ made'[n] = made[n] + 1
      BY <1>2, <2>2
    <3>3. \A u \in Process : proc'[u].all[n] # made[n] + 1
      BY <1>15, <2>1
    <3>4. QED
      BY <1>15, <3>1, <3>2, <3>3
  <2>3. CASE o # new
    <3>1. Underway(q, o)
      BY <1>9, <2>3
    <3>2. /\ ~object[o].stopped /\ o[2] <= made[o[1]] /\ contexts[o[1]] # o[2]
          /\ \A u \in Process : proc[u].all[o[1]] # o[2]
      BY <3>1 DEF ReloadInv, Fresh
    <3>3. ~object'[o].stopped
      BY <1>3, <2>3, <3>2
    <3>4. o[2] <= made'[o[1]] /\ contexts'[o[1]] # o[2]
      <4>1. o[1] \in Name /\ o[2] \in Nat /\ o[2] # 0
        BY <1>1, <1>13
      <4>2. CASE o[1] = n
        BY <1>2, <1>15, <3>2, <4>1, <4>2
      <4>3. CASE o[1] # n
        BY <1>2, <3>2, <4>1, <4>3
      <4>4. QED
        BY <4>2, <4>3
    <3>5. QED
      BY <2>1, <3>2, <3>3, <3>4
  <2>4. QED
    BY <2>2, <2>3
<1>26. OneLoad'
  <2> SUFFICES ASSUME NEW q \in Process, NEW u \in Process,
                      NEW i \in DOMAIN stackOf(q)', NEW j \in DOMAIN stackOf(u)',
                      contextOf(stackOf(q)'[i]) = contextOf(stackOf(u)'[j])
               PROVE  q = u /\ i = j
    BY DEF OneLoad, contextOf
  <2>1. ASSUME NEW v \in Process, NEW k \in DOMAIN stackOf(v)'
        PROVE  \/ k \in DOMAIN stackOf(v) /\ stackOf(v)'[k] = stackOf(v)[k]
                  /\ contextOf(stackOf(v)'[k]) # new
               \/ v = p /\ k = Len(stackOf(p)) + 1 /\ contextOf(stackOf(v)'[k]) = new
    <3>1. CASE v # p
      BY <1>1, <1>8, <1>17, <3>1, UnderwayIs
    <3>2. CASE v = p /\ k \in DOMAIN stackOf(p)
      BY <1>1, <1>8, <1>17, <3>2, UnderwayIs
    <3>3. CASE v = p /\ k = Len(stackOf(p)) + 1
      BY <1>8, <3>3 DEF new
    <3>4. QED
      BY <1>8, <3>1, <3>2, <3>3
  <2>2. QED
    BY <2>1 DEF ReloadInv, OneLoad
<1>27. Runs'
  <2> SUFFICES ASSUME NEW o \in InTable(contexts)'
               PROVE  ~object'[o].stopped
    BY DEF Runs
  <2>1. o \in Context /\ o \in InTable(contexts) /\ o[1] # n
    BY <1>12, <1>14
  <2>2. o # new
    BY <1>2, <2>1
  <2>3. QED
    BY <1>3, <2>1, <2>2 DEF ReloadInv, Runs
<1>28. NoOrphan'
  <2> SUFFICES ASSUME NEW o \in Context, o[2] <= made'[o[1]]
               PROVE  IF object'[o].stopped THEN o \notin InTable(contexts)'
                      ELSE \/ o \in InTable(contexts)'
                           \/ \E q \in Process : Underway(q, o)'
                           \/ o \in overwritten' /\ overlap'
    BY DEF NoOrphan
  <2>1. CASE o = new
    BY <1>2, <1>9, <2>1 DEF newObject
  <2>2. CASE o # new
    <3>1. /\ o[2] <= made[o[1]]
          /\ object'[o].stopped <=> object[o].stopped \/ (o[1] = n /\ o[2] = contexts[n])
      BY <1>3, <1>16, <2>2
    <3>2. IF object[o].stopped THEN o \notin InTable(contexts)
          ELSE \/ o \in InTable(contexts)
               \/ \E q \in Process : Underway(q, o)
               \/ o \in overwritten /\ overlap
      BY <3>1 DEF ReloadInv, NoOrphan
    <3>3. \A q \in Process : Underway(q, o)' <=> Underway(q, o)
      BY <1>9, <2>2
    <3>4. o \in InTable(contexts)' <=> o \in InTable(contexts) /\ o[1] # n
      BY <1>14
    <3>5. o \in InTable(contexts) <=> contexts[o[1]] = o[2]
      BY <1>12
    <3>6. QED
      BY <1>10, <3>1, <3>2, <3>3, <3>4, <3>5
  <2>3. QED
    BY <2>1, <2>2
<1>29. Alone'
  <2>1. \A q \in Process : Active(q)' <=> Active(q)
    BY <1>5, <1>7, <1>18 DEF Active
  <2>2. QED
    BY <1>10, <2>1 DEF ReloadInv, Alone
<1>30. Unlisted'
  <2> SUFFICES ASSUME ~overlap', NEW q \in Process, NEW i \in DOMAIN stackOf(q)'
               PROVE  contexts'[stackOf(q)'[i].name] = 0
    BY DEF Unlisted
  <2>1. \A v \in Process : \A k \in DOMAIN stackOf(v) :
          /\ stackOf(v)[k].name \in Name
          /\ contexts[stackOf(v)[k].name] = 0
    BY <1>1, <1>10, UnderwayIs DEF ReloadInv, Unlisted, Frame
  <2>2. CASE q = p /\ i = Len(stackOf(p)) + 1
    BY <1>2, <1>8, <2>2
  <2>3. CASE ~(q = p /\ i = Len(stackOf(p)) + 1)
    <3>1. i \in DOMAIN stackOf(q) /\ stackOf(q)'[i] = stackOf(q)[i]
      BY <1>8, <2>3
    <3>2. stackOf(q)[i].name \in Name /\ contexts[stackOf(q)[i].name] = 0
      BY <2>1, <3>1
    <3>3. \A m \in Name : contexts[m] = 0 => contexts'[m] = 0
      BY <1>2
    <3>4. QED
      BY <3>1, <3>2, <3>3
  <2>4. QED
    BY <2>2, <2>3
<1>31. Nested'
  <2> SUFFICES ASSUME ~overlap', NEW q \in Process,
                      NEW i \in DOMAIN stackOf(q)', NEW j \in DOMAIN stackOf(q)',
                      i < j, stackOf(q)'[i].name = stackOf(q)'[j].name
               PROVE  Head(stackOf(q)'[i].left) \in elems(stackOf(q)'[j].left)
    BY DEF Nested
  <2>1. CASE q # p
    BY <1>8, <1>10, <2>1 DEF ReloadInv, Nested
  <2>2. CASE q = p /\ j # Len(stackOf(p)) + 1
    <3>1. i \in DOMAIN stackOf(p) /\ j \in DOMAIN stackOf(p)
      BY <1>8, <2>2
    <3>2. QED
      BY <1>8, <1>10, <2>2, <3>1 DEF ReloadInv, Nested
  <2>3. CASE q = p /\ j = Len(stackOf(p)) + 1
    <3>1. i \in DOMAIN stackOf(p)
      BY <1>8, <2>3
    <3>2. stackOf(p)'[j] = frame(n) /\ stackOf(p)'[i] = stackOf(p)[i]
      BY <1>8, <2>3, <3>1
    <3>3. stackOf(p)[i].name = n /\ stackOf(p)'[j].left = Imports[n]
      BY <1>2, <2>3, <3>2
    <3>4. QED
      BY <1>22, <2>3, <3>1, <3>2, <3>3
  <2>4. QED
    BY <2>1, <2>2, <2>3
<1>32. Replaced' /\ Known'
  <2>1. Replaced'
    BY <1>10 DEF ReloadInv, Replaced
  <2>2. ~overlap' => \A q \in Process : proc'[q].pc # "reading"
    BY <1>5, <1>7, <1>10, <1>19 DEF Active
  <2>3. QED
    BY <2>1, <2>2 DEF Known
<1>33. n \in Modules => object'[new].module /\ proc[p].pc = "importing"
  <2>1. n \in Modules => n \notin Autoload
    BY ReloadAssumption DEF ReloadAssumption
  <2>2. object'[new].module = (stackOf(p) # <<>>)
    BY <1>2 DEF newObject
  <2>3. QED
    BY <1>21, <2>1, <2>2
<1>34. ByImport'
  <2>1. ASSUME NEW o \in Context, o[2] <= made'[o[1]], o[1] \in Modules
        PROVE  object'[o].module
    <3>1. CASE o = new
      BY <1>2, <1>33, <2>1, <3>1
    <3>2. CASE o # new
      BY <1>3, <1>16, <2>1, <3>2 DEF ReloadInv, ByImport
    <3>3. QED
      BY <3>1, <3>2
  <2>2. ~overlap' => \A q \in Process : proc'[q].pc # "importing"
    BY <1>5, <1>7, <1>10, <1>19 DEF ReloadInv, Stacks, Active
  <2>3. QED
    BY <2>1, <2>2 DEF ByImport
<1>35. ~overlap /\ n \in Modules => contexts[n] = 0
  <2> SUFFICES ASSUME ~overlap, n \in Modules, contexts[n] # 0
               PROVE  FALSE
    OBVIOUS
  <2>1. ~Module(n)
    BY <1>20, <1>21, <1>33 DEF ReloadInv, ByImport
  <2>2. <<n, contexts[n]>> \in Context
    BY <1>1 DEF Context
  <2>3. object[<<n, contexts[n]>>].module
    BY <1>15, <2>2 DEF ReloadInv, ByImport
  <2>4. QED
    BY <2>1, <2>3 DEF Module
<1>36. Imported'
  <2> SUFFICES ASSUME ~overlap', NEW o \in Context, Live(o)', NEW i \in object'[o].imports,
                      Stale(i)'
               PROVE  i[1] \in dragged'
    BY DEF Imported
  <2>1. o # new
    BY <1>2 DEF newObject
  <2>2. Live(o) /\ i \in object[o].imports
    BY <1>3, <1>9, <1>14, <2>1 DEF Live
  <2>3. i \in Context
    BY <1>1, <2>2 DEF TypeInv, Object
  <2>4. Stale(i)
    BY <1>10, <1>12, <1>13, <1>14, <1>35, <2>3 DEF Stale
  <2>5. QED
    BY <1>10, <2>2, <2>4 DEF ReloadInv, Imported
<1>37. Versions'
  <2>1. /\ \A m \in Name : disk'[m] <= edits' + 1
        /\ \A q \in Process, m \in Name :
             proc'[q].files[m] <= edits' + 1 /\ (disk'[m] = 0 \/ proc'[q].files[m] <= disk'[m])
    BY <1>5, <1>7, <1>10 DEF ReloadInv, Versions
  <2>2. \A q \in Process :
          /\ proc'[q].todo \subseteq Present(proc'[q].files)
          /\ proc'[q].pc \in {"idle", "reading"} => proc'[q].todo = {}
    BY <1>5, <1>6, <1>7 DEF ReloadInv, Versions
  <2>3. \A o \in Context : o[2] <= made'[o[1]] => object'[o].version # 0
    <3> TAKE o \in Context
    <3>1. CASE o = new
      BY <1>2, <3>1 DEF newObject
    <3>2. CASE o # new
      <4>1. o[2] <= made'[o[1]] => object[o].version # 0
        BY <1>16, <3>2 DEF ReloadInv, Versions
      <4>2. object'[o].version = object[o].version
        BY <1>3, <3>2
      <4>3. QED
        BY <4>1, <4>2
    <3>3. QED
      BY <3>1, <3>2
  <2>4. QED
    BY <2>1, <2>2, <2>3 DEF Versions, Present
<1>38. Fetched'
  <2> SUFFICES ASSUME ~overlap', NEW q \in Process, Whole(q)'
               PROVE  /\ \A m \in Autoload \cap Present(proc'[q].files) :
                           \/ m \in proc'[q].todo \/ contexts'[m] # 0
                           \/ \E i \in DOMAIN stackOf(q)' : stackOf(q)'[i].name = m
                      /\ \A o \in Context : o \in InTable(contexts)' \/ Underway(q, o)' =>
                           /\ object'[o].version >= proc'[q].files[o[1]]
                           /\ proc'[q].files[o[1]] = 0 => proc'[q].all[o[1]] # o[2]
    BY DEF Fetched, Present
  <2>1. q = p /\ Whole(p)
    BY <1>5, <1>7, <1>10, <1>18, <1>19 DEF Whole, Active
  <2>2. /\ \A m \in Autoload \cap Present(proc[p].files) :
             \/ m \in proc[p].todo \/ contexts[m] # 0
             \/ \E i \in DOMAIN stackOf(p) : stackOf(p)[i].name = m
        /\ \A o \in Context : o \in InTable(contexts) \/ Underway(p, o) =>
             /\ object[o].version >= proc[p].files[o[1]]
             /\ proc[p].files[o[1]] = 0 => proc[p].all[o[1]] # o[2]
    BY <1>10, <2>1 DEF ReloadInv, Fetched
  <2>3. proc'[p].files = proc[p].files /\ proc'[p].all = proc[p].all /\ proc'[p].todo = left
    BY <1>5, <1>7
  <2>4. ASSUME NEW m \in Autoload \cap Present(proc[p].files)
        PROVE  \/ m \in left \/ contexts'[m] # 0
               \/ \E i \in DOMAIN stackOf(p)' : stackOf(p)'[i].name = m
    <3>1. CASE m = n
      <4>1. Len(stackOf(p)) + 1 \in DOMAIN stackOf(p)'
        BY <1>8
      <4>2. stackOf(p)'[Len(stackOf(p)) + 1].name = m
        BY <1>2, <1>8, <3>1
      <4>3. QED
        BY <4>1, <4>2
    <3>2. CASE m # n
      <4>1. m \in Name
        BY DEF Present
      <4>2. m \in proc[p].todo => m \in left
        BY <1>6, <3>2
      <4>3. contexts'[m] = contexts[m]
        BY <1>2, <3>2, <4>1
      <4>4. (\E i \in DOMAIN stackOf(p) : stackOf(p)[i].name = m) =>
              \E i \in DOMAIN stackOf(p)' : stackOf(p)'[i].name = m
        BY <1>8
      <4>5. QED
        BY <2>2, <4>2, <4>3, <4>4
    <3>3. QED
      BY <3>1, <3>2
  <2>5. ASSUME NEW o \in Context, o \in InTable(contexts)' \/ Underway(p, o)'
        PROVE  /\ object'[o].version >= proc[p].files[o[1]]
               /\ proc[p].files[o[1]] = 0 => proc[p].all[o[1]] # o[2]
    <3>1. CASE o = new
      BY <1>2, <1>15, <3>1 DEF newObject
    <3>2. CASE o # new
      BY <1>3, <1>9, <1>14, <2>2, <2>5, <3>2
    <3>3. QED
      BY <3>1, <3>2
  <2>6. QED
    BY <2>1, <2>3, <2>4, <2>5
<1>39. QED
  BY <1>11, <1>23, <1>24, <1>25, <1>26, <1>27, <1>28, <1>29, <1>30, <1>31, <1>32, <1>34,
     <1>36, <1>37, <1>38 DEF ReloadInv

\* The next file on the list.
LEMMA LoadNextStep ==
  ASSUME ReloadInv, NEW p \in Process, LoadNext(p)
  PROVE  ReloadInv'
<1>1. PICK n \in proc[p].todo : load_file(p, n, proc[p].files[n], FALSE)
  BY DEF LoadNext
<1>2. /\ proc[p].pc = "loading" /\ stackOf(p) = <<>>
      /\ UNCHANGED <<disk, edits, killed, history>>
  BY DEF LoadNext, stackOf
<1>3. n \in Autoload /\ n \in Name /\ proc[p].files \in [Name -> Nat]
  BY ReloadAssumption, UnderwayIs DEF ReloadInv, ReloadAssumption, Proc
<1>4. proc[p].files[n] \in Nat \ {0}
  BY <1>3 DEF ReloadInv, Versions, Present
<1>5. proc[p].files[n] >= proc[p].files[n]
  BY <1>4
<1>6. QED
  BY <1>1, <1>2, <1>3, <1>4, <1>5, LoadStep

\* An import has found its file.
LEMMA ImportFoundStep ==
  ASSUME ReloadInv, NEW p \in Process, ImportFound(p)
  PROVE  ReloadInv'
<1> DEFINE n == toImport(p)
           auto_start == object[contextOf(top(p))].auto_start
<1>1. /\ proc[p].pc = "importing" /\ disk[n] # 0
      /\ load_file(p, n, disk[n], auto_start)
      /\ UNCHANGED <<disk, edits, killed, history>>
  BY DEF ImportFound
<1>2. stackOf(p) # <<>> /\ top(p).left # <<>> /\ stackOf(p) \in Seq(Frame)
  BY <1>1, UnderwayIs DEF ReloadInv, Stacks
<1>3. top(p) \in Frame
  BY <1>2 DEF top, stackOf
<1>4. n \in Name
  BY <1>2, <1>3 DEF toImport, Frame
<1>5. auto_start \in BOOLEAN
  <2>1. contextOf(top(p)) \in Context
    BY <1>3 DEF contextOf, Context, Frame
  <2>2. QED
    BY <2>1 DEF ReloadInv, TypeInv, Object
<1>6. disk[n] \in Nat \ {0} /\ disk[n] >= proc[p].files[n]
  <2>1. disk[n] \in Nat /\ proc[p].files[n] \in Nat
    BY <1>4, UnderwayIs DEF ReloadInv, TypeInv, Proc
  <2>2. disk[n] = 0 \/ proc[p].files[n] <= disk[n]
    BY <1>4 DEF ReloadInv, Versions
  <2>3. QED
    BY <1>1, <2>1, <2>2
<1> HIDE DEF n, auto_start
<1>7. QED
  BY <1>1, <1>4, <1>5, <1>6, LoadStep DEF n

-----------------------------------------------------------------------------
(* Imports and ends of loads *)

\* A stack no longer than it was, of the same contexts: only the topmost of
\* them may have less to import.
Shorter(s, t) ==
  /\ s \in Seq(Frame) /\ t \in Seq(Frame) /\ Len(s) <= Len(t)
  /\ \A i \in DOMAIN s :
       /\ s[i].name = t[i].name /\ s[i].k = t[i].k
       /\ elems(s[i].left) \subseteq elems(t[i].left)
       /\ i < Len(s) => s[i].left = t[i].left

\* What holds of such a step whatever it does to the contexts.
LEMMA ShrinkIs ==
  ASSUME ReloadInv, NEW p \in Process, NEW r \in Proc, SetProc(p, r),
         proc[p].pc \in {"loading", "importing"}, r.pc = "loading",
         r.files = proc[p].files, r.all = proc[p].all, r.todo = proc[p].todo,
         Shorter(r.stack, stackOf(p)),
         contexts' \in [Name -> 0..MaxLoads], object' \in [Context -> Object],
         \A o \in Context :
           object'[o].version = object[o].version /\ object'[o].module = object[o].module,
         acting' \subseteq Context, overwritten' \subseteq Context,
         UNCHANGED <<disk, edits, made, killed, overlap, removed, dragged>>
  PROVE  /\ TypeInv' /\ Stacks' /\ OneLoad' /\ Alone' /\ Known' /\ ByImport' /\ Versions'
         /\ \A q \in Process : \A o : Underway(q, o)' => Underway(q, o)
         /\ \A q \in Process : \A o : q # p => (Underway(q, o)' <=> Underway(q, o))
<1>1. /\ proc' \in [Process -> Proc] /\ proc'[p] = r
      /\ \A q \in Process : q # p => proc'[q] = proc[q]
  BY ProcSet DEF ReloadInv, TypeInv
<1>2. TypeInv'
  BY <1>1 DEF ReloadInv, TypeInv
<1>3. /\ stackOf(p)' = r.stack /\ stackOf(p) \in Seq(Frame) /\ stackOf(p)' \in Seq(Frame)
      /\ \A q \in Process : q # p => stackOf(q)' = stackOf(q) /\ top(q)' = top(q)
  BY <1>1, UnderwayIs DEF stackOf, top, Shorter, ReloadInv
<1>4. /\ DOMAIN stackOf(p)' = 1..Len(stackOf(p)') /\ DOMAIN stackOf(p) = 1..Len(stackOf(p))
      /\ Len(stackOf(p)') \in Nat /\ Len(stackOf(p)) \in Nat
      /\ Len(stackOf(p)') <= Len(stackOf(p))
  BY <1>3 DEF Shorter
<1>5. \A i \in DOMAIN stackOf(p)' :
        /\ i \in DOMAIN stackOf(p)
        /\ stackOf(p)'[i].name = stackOf(p)[i].name /\ stackOf(p)'[i].k = stackOf(p)[i].k
        /\ elems(stackOf(p)'[i].left) \subseteq elems(stackOf(p)[i].left)
        /\ i < Len(stackOf(p)') => stackOf(p)'[i].left = stackOf(p)[i].left
  <2>1. Shorter(r.stack, stackOf(p))
    OBVIOUS
  <2>2. \A i \in DOMAIN r.stack :
          /\ r.stack[i].name = stackOf(p)[i].name /\ r.stack[i].k = stackOf(p)[i].k
          /\ elems(r.stack[i].left) \subseteq elems(stackOf(p)[i].left)
          /\ i < Len(r.stack) => r.stack[i].left = stackOf(p)[i].left
    BY <2>1, Zenon DEF Shorter
  <2>3. \A i \in DOMAIN stackOf(p)' : i \in DOMAIN stackOf(p)
    BY <1>4
  <2>4. QED
    BY <1>3, <2>2, <2>3
<1>6. \A q \in Process : \A i \in DOMAIN stackOf(q)' :
        i \in DOMAIN stackOf(q) /\ contextOf(stackOf(q)'[i]) = contextOf(stackOf(q)[i])
  <2> SUFFICES ASSUME NEW q \in Process, NEW i \in DOMAIN stackOf(q)'
               PROVE  /\ i \in DOMAIN stackOf(q)
                      /\ contextOf(stackOf(q)'[i]) = contextOf(stackOf(q)[i])
    OBVIOUS
  <2>1. CASE q = p
    BY <1>5, <2>1 DEF contextOf
  <2>2. CASE q # p
    BY <1>3, <2>2
  <2>3. QED
    BY <2>1, <2>2
<1>7. \A q \in Process : \A o : Underway(q, o)' => Underway(q, o)
  <2>1. \A q \in Process : \A o :
          Underway(q, o)' <=> \E i \in DOMAIN stackOf(q)' : contextOf(stackOf(q)'[i]) = o
    BY DEF Underway, stackOf, contextOf
  <2>2. QED
    BY <1>6, <2>1 DEF Underway, stackOf
<1>8. \A q \in Process : \A o : q # p => (Underway(q, o)' <=> Underway(q, o))
  BY <1>1 DEF Underway
<1>9. Stacks'
  <2>1. ASSUME NEW q \in Process, q # p
        PROVE  /\ stackOf(q)' # <<>> => proc'[q].pc \in {"loading", "importing"}
               /\ proc'[q].pc = "importing" => stackOf(q)' # <<>> /\ top(q)'.left # <<>>
               /\ \A i \in DOMAIN stackOf(q)' :
                    /\ elems(stackOf(q)'[i].left) \subseteq elems(Imports[stackOf(q)'[i].name])
                    /\ i < Len(stackOf(q)') =>
                         /\ stackOf(q)'[i].left # <<>>
                         /\ Head(stackOf(q)'[i].left) = stackOf(q)'[i + 1].name
    <3>1. /\ stackOf(q) # <<>> => proc[q].pc \in {"loading", "importing"}
          /\ proc[q].pc = "importing" => stackOf(q) # <<>> /\ top(q).left # <<>>
          /\ \A i \in DOMAIN stackOf(q) :
               /\ elems(stackOf(q)[i].left) \subseteq elems(Imports[stackOf(q)[i].name])
               /\ i < Len(stackOf(q)) =>
                    /\ stackOf(q)[i].left # <<>>
                    /\ Head(stackOf(q)[i].left) = stackOf(q)[i + 1].name
      BY DEF ReloadInv, Stacks
    <3>2. proc'[q] = proc[q] /\ stackOf(q)' = stackOf(q) /\ top(q)' = top(q)
      BY <1>1, <1>3, <2>1
    <3>3. QED
      BY ONLY <3>1, <3>2
  <2>2. ASSUME NEW i \in DOMAIN stackOf(p)'
        PROVE  /\ elems(stackOf(p)'[i].left) \subseteq elems(Imports[stackOf(p)'[i].name])
               /\ i < Len(stackOf(p)') =>
                    /\ stackOf(p)'[i].left # <<>>
                    /\ Head(stackOf(p)'[i].left) = stackOf(p)'[i + 1].name
    <3>1. elems(stackOf(p)'[i].left) \subseteq elems(Imports[stackOf(p)'[i].name])
      BY <1>5 DEF ReloadInv, Stacks
    <3>2. ASSUME i < Len(stackOf(p)')
          PROVE  /\ stackOf(p)'[i].left # <<>>
                 /\ Head(stackOf(p)'[i].left) = stackOf(p)'[i + 1].name
      <4>1. i + 1 \in DOMAIN stackOf(p)' /\ i < Len(stackOf(p))
        BY <1>4, <3>2
      <4>2. i \in DOMAIN stackOf(p) /\ stackOf(p)'[i].left = stackOf(p)[i].left
        BY <1>5, <3>2
      <4>3. stackOf(p)'[i + 1].name = stackOf(p)[i + 1].name
        BY <1>5, <4>1
      <4>4. stackOf(p)[i].left # <<>> /\ Head(stackOf(p)[i].left) = stackOf(p)[i + 1].name
        BY <4>1, <4>2 DEF ReloadInv, Stacks
      <4>5. QED
        BY <4>2, <4>3, <4>4
    <3>3. QED
      BY <3>1, <3>2
  <2>3. proc'[p].pc = "loading"
    BY <1>1
  <2>4. QED
    BY <2>1, <2>2, <2>3 DEF Stacks
<1>10. OneLoad'
  <2> SUFFICES ASSUME NEW q \in Process, NEW u \in Process,
                      NEW i \in DOMAIN stackOf(q)', NEW j \in DOMAIN stackOf(u)',
                      contextOf(stackOf(q)'[i]) = contextOf(stackOf(u)'[j])
               PROVE  q = u /\ i = j
    BY DEF OneLoad, contextOf
  <2>1. QED
    BY <1>6 DEF ReloadInv, OneLoad
<1>11. \A q \in Process : Active(q)' <=> Active(q)
  BY <1>1 DEF Active
<1>12. ~overlap => \A q \in Process : q # p => ~Active(q)
  BY DEF ReloadInv, Alone, Active
<1>13. Alone' /\ Known'
  <2>1. Alone'
    BY <1>11 DEF ReloadInv, Alone
  <2>2. ~overlap' => \A q \in Process : proc'[q].pc # "reading"
    BY <1>1, <1>12 DEF Active
  <2>3. QED
    BY <2>1, <2>2 DEF Known
<1>14. ByImport'
  <2>1. ~overlap' => \A q \in Process : proc'[q].pc # "importing"
    BY <1>1, <1>12 DEF Active
  <2>2. QED
    BY <2>1 DEF ReloadInv, ByImport
<1>15. Versions'
  <2>1. /\ \A m \in Name : disk'[m] <= edits' + 1
        /\ \A q \in Process, m \in Name :
             proc'[q].files[m] <= edits' + 1 /\ (disk'[m] = 0 \/ proc'[q].files[m] <= disk'[m])
    BY <1>1 DEF ReloadInv, Versions
  <2>2. \A q \in Process :
          /\ proc'[q].todo \subseteq Present(proc'[q].files)
          /\ proc'[q].pc \in {"idle", "reading"} => proc'[q].todo = {}
    BY <1>1 DEF ReloadInv, Versions
  <2>3. QED
    BY <2>1, <2>2 DEF ReloadInv, Versions, Present
<1>16. QED
  BY <1>2, <1>7, <1>8, <1>9, <1>10, <1>13, <1>14, <1>15

\* The rest of a sequence holds what it does but for the head.
LEMMA TailIs ==
  ASSUME NEW s \in Seq(Name), s # <<>>
  PROVE  /\ Tail(s) \in Seq(Name) /\ Head(s) \in Name
         /\ elems(Tail(s)) \subseteq elems(s)
         /\ elems(s) \subseteq {Head(s)} \cup elems(Tail(s))
<1>1. /\ Tail(s) \in Seq(Name) /\ Head(s) = s[1] /\ Len(s) \in Nat \ {0}
      /\ Len(Tail(s)) = Len(s) - 1 /\ Head(s) \in Name
      /\ \A i \in 1..Len(s) - 1 : Tail(s)[i] = s[i + 1]
  OBVIOUS
<1>2. DOMAIN s = 1..Len(s) /\ DOMAIN Tail(s) = 1..Len(s) - 1
  BY <1>1
<1>3. ASSUME NEW i \in DOMAIN Tail(s)
      PROVE  Tail(s)[i] \in elems(s)
  <2>1. i + 1 \in DOMAIN s /\ Tail(s)[i] = s[i + 1]
    BY <1>1, <1>2
  <2>2. QED
    BY <2>1 DEF elems
<1>4. ASSUME NEW i \in DOMAIN s
      PROVE  s[i] = Head(s) \/ s[i] \in elems(Tail(s))
  <2>1. CASE i = 1
    BY <1>1, <2>1
  <2>2. CASE i # 1
    <3>1. i - 1 \in DOMAIN Tail(s) /\ Tail(s)[i - 1] = s[i]
      BY <1>1, <1>2, <2>2
    <3>2. QED
      BY <3>1 DEF elems
  <2>3. QED
    BY <2>1, <2>2
<1>5. QED
  BY <1>1, <1>3, <1>4 DEF elems

\* The topmost load has one import less to do.
LEMMA ImportedIs ==
  ASSUME NEW s \in Seq(Frame), s # <<>>, s[Len(s)].left # <<>>
  PROVE  /\ imported(s) \in Seq(Frame) /\ Len(imported(s)) = Len(s) /\ Len(s) \in Nat \ {0}
         /\ DOMAIN imported(s) = DOMAIN s /\ DOMAIN s = 1..Len(s)
         /\ \A i \in DOMAIN s : /\ imported(s)[i].name = s[i].name /\ imported(s)[i].k = s[i].k
                                /\ i # Len(s) => imported(s)[i] = s[i]
         /\ imported(s)[Len(s)].left = Tail(s[Len(s)].left)
         /\ \A t : Shorter(s, t) => Shorter(imported(s), t)
<1>1. /\ Len(s) \in Nat \ {0} /\ DOMAIN s = 1..Len(s) /\ \A i \in DOMAIN s : s[i] \in Frame
  OBVIOUS
<1> DEFINE f == [s[Len(s)] EXCEPT !.left = Tail(@)]
<1>2. /\ f \in Frame /\ f.name = s[Len(s)].name /\ f.k = s[Len(s)].k
      /\ f.left = Tail(s[Len(s)].left)
      /\ elems(f.left) \subseteq elems(s[Len(s)].left)
  <2>1. s[Len(s)] \in Frame
    BY <1>1
  <2>2. s[Len(s)].left \in Seq(Name)
    BY <2>1 DEF Frame
  <2>3. QED
    BY <2>1, <2>2, TailIs DEF Frame
<1>3. imported(s) = [s EXCEPT ![Len(s)] = f]
  BY DEF imported
<1> HIDE DEF f
<1>4. /\ DOMAIN imported(s) = DOMAIN s /\ imported(s)[Len(s)] = f
      /\ \A i \in DOMAIN s : i # Len(s) => imported(s)[i] = s[i]
  BY <1>1, <1>3
<1>5. imported(s) \in Seq(Frame) /\ Len(imported(s)) = Len(s)
  BY <1>1, <1>2, <1>3
<1>6. \A i \in DOMAIN s : /\ imported(s)[i].name = s[i].name /\ imported(s)[i].k = s[i].k
                          /\ elems(imported(s)[i].left) \subseteq elems(s[i].left)
  BY <1>1, <1>2, <1>4
<1>7. \A t : Shorter(s, t) => Shorter(imported(s), t)
  <2> SUFFICES ASSUME NEW t, Shorter(s, t)
               PROVE  Shorter(imported(s), t)
    OBVIOUS
  <2>1. /\ t \in Seq(Frame) /\ Len(s) <= Len(t)
        /\ \A i \in DOMAIN s : /\ s[i].name = t[i].name /\ s[i].k = t[i].k
                               /\ elems(s[i].left) \subseteq elems(t[i].left)
                               /\ i < Len(s) => s[i].left = t[i].left
    BY DEF Shorter
  <2>2. ASSUME NEW i \in DOMAIN s
        PROVE  /\ imported(s)[i].name = t[i].name /\ imported(s)[i].k = t[i].k
               /\ elems(imported(s)[i].left) \subseteq elems(t[i].left)
               /\ i < Len(s) => imported(s)[i].left = t[i].left
    <3>1. i < Len(s) => i # Len(s)
      BY ONLY <1>1, i \in DOMAIN s
    <3>2. QED
      BY ONLY <1>4, <1>6, <2>1, <3>1, i \in DOMAIN s
  <2>3. QED
    BY ONLY <1>4, <1>5, <2>1, <2>2 DEF Shorter
<1>8. QED
  BY <1>1, <1>2, <1>4, <1>5, <1>6, <1>7

\* A context's imports grow by one.
LEMMA AddImportIs ==
  ASSUME TypeInv, NEW f \in Frame, NEW i \in Context, imports(f, i)
  PROVE  /\ object' \in [Context -> Object] /\ contextOf(f) \in Context
         /\ \A o \in Context :
              /\ object'[o].version = object[o].version
              /\ object'[o].module = object[o].module
              /\ object'[o].stopped = object[o].stopped
              /\ object'[o].imports \subseteq object[o].imports \cup {i}
<1>1. /\ object \in [Context -> Object] /\ contextOf(f) \in Context
      /\ object' = [object EXCEPT ![contextOf(f)].imports = @ \cup {i}]
  BY DEF TypeInv, imports, contextOf, Frame, Context
<1>2. ASSUME NEW o \in Context
      PROVE  /\ object'[o] \in Object
             /\ object'[o].version = object[o].version
             /\ object'[o].module = object[o].module
             /\ object'[o].stopped = object[o].stopped
             /\ object'[o].imports \subseteq object[o].imports \cup {i}
  <2>1. object[o] \in Object
    BY <1>1
  <2>2. CASE o = contextOf(f)
    <3> DEFINE new == object[o].imports \cup {i}
    <3>1. object'[o] = [object[o] EXCEPT !.imports = new]
      BY <1>1, <2>2
    <3>2. new \subseteq Context /\ new \subseteq object[o].imports \cup {i}
      BY <2>1 DEF Object
    <3> HIDE DEF new
    <3>3. QED
      BY <2>1, <3>1, <3>2 DEF Object
  <2>3. CASE o # contextOf(f)
    BY <1>1, <2>1, <2>3
  <2>4. QED
    BY <2>2, <2>3
<1>3. QED
  BY <1>1, <1>2

\* An import finds its module loaded.
LEMMA ImportLoadedStep ==
  ASSUME ReloadInv, NEW p \in Process, ImportLoaded(p)
  PROVE  ReloadInv'
<1> DEFINE m == toImport(p)
           i == <<m, contexts[m]>>
           r == [proc[p] EXCEPT !.stack = imported(@)]
           n == Len(stackOf(p))
<1>1. /\ proc[p].pc = "loading" /\ stackOf(p) # <<>> /\ top(p).left # <<>>
      /\ contexts[m] # 0 /\ imports(top(p), i) /\ SetProc(p, r)
      /\ UNCHANGED <<disk, edits, contexts, made, acting, killed, overlap, overwritten,
                     removed, dragged>>
  BY DEF ImportLoaded, Loading, Module, stackOf, history
<1>2. /\ TypeInv /\ stackOf(p) \in Seq(Frame) /\ proc[p] \in Proc
      /\ contexts \in [Name -> 0..MaxLoads]
  BY UnderwayIs DEF ReloadInv, TypeInv
<1>3. /\ top(p) = stackOf(p)[n] /\ n \in DOMAIN stackOf(p) /\ top(p) \in Frame
      /\ DOMAIN stackOf(p) = 1..n /\ n \in Nat
  BY <1>1, <1>2 DEF top, stackOf
<1>4. m \in Name /\ top(p).left \in Seq(Name) /\ m = Head(top(p).left)
  BY <1>1, <1>3 DEF toImport, Frame
<1>5. i \in Context /\ i \in InTable(contexts)
  BY <1>1, <1>2, <1>4, InTableIs DEF InTable
<1> HIDE DEF m, i
<1>6. /\ object' \in [Context -> Object]
      /\ \A o \in Context :
           /\ object'[o].version = object[o].version
           /\ object'[o].module = object[o].module
           /\ object'[o].stopped = object[o].stopped
           /\ object'[o].imports \subseteq object[o].imports \cup {i}
  BY <1>1, <1>2, <1>3, <1>5, AddImportIs
<1>7. /\ imported(stackOf(p)) \in Seq(Frame) /\ Len(imported(stackOf(p))) = n
      /\ DOMAIN imported(stackOf(p)) = DOMAIN stackOf(p)
      /\ \A j \in DOMAIN stackOf(p) :
           /\ imported(stackOf(p))[j].name = stackOf(p)[j].name
           /\ imported(stackOf(p))[j].k = stackOf(p)[j].k
           /\ j # n => imported(stackOf(p))[j] = stackOf(p)[j]
      /\ imported(stackOf(p))[n].left = Tail(top(p).left)
  BY <1>1, <1>2, <1>3, ImportedIs
<1>8. Shorter(imported(stackOf(p)), stackOf(p))
  <2>1. Shorter(stackOf(p), stackOf(p))
    BY <1>2, <1>3 DEF Shorter
  <2>2. QED
    BY <1>1, <1>2, <1>3, <2>1, ImportedIs
<1>9. /\ r \in Proc /\ r.stack = imported(stackOf(p)) /\ r.pc = "loading"
      /\ r.files = proc[p].files /\ r.all = proc[p].all /\ r.todo = proc[p].todo
      /\ r.only = proc[p].only /\ r.failed = proc[p].failed
  <2> DEFINE s == imported(stackOf(p))
  <2>1. s \in Seq(Frame) /\ r = [proc[p] EXCEPT !.stack = s]
    BY <1>7 DEF stackOf
  <2> HIDE DEF s, r
  <2>2. /\ r \in Proc /\ r.stack = s /\ r.pc = proc[p].pc
        /\ r.files = proc[p].files /\ r.all = proc[p].all /\ r.todo = proc[p].todo
        /\ r.only = proc[p].only /\ r.failed = proc[p].failed
    BY <1>2, <2>1 DEF Proc
  <2>3. QED
    BY <1>1, <2>2 DEF s
<1> HIDE DEF r, n
<1>10. /\ TypeInv' /\ Stacks' /\ OneLoad' /\ Alone' /\ Known' /\ ByImport' /\ Versions'
       /\ \A q \in Process : \A o : Underway(q, o)' => Underway(q, o)
  <2>1. acting' \subseteq Context /\ overwritten' \subseteq Context
    BY <1>1, <1>2 DEF TypeInv
  <2>2. proc[p].pc \in {"loading", "importing"}
    BY <1>1
  <2>3. contexts' \in [Name -> 0..MaxLoads]
    BY <1>1, <1>2
  <2>4. QED
    BY <1>1, <1>6, <1>8, <1>9, <2>1, <2>2, <2>3, ShrinkIs
<1>11. /\ proc' \in [Process -> Proc] /\ proc'[p] = r
       /\ \A q \in Process : q # p => proc'[q] = proc[q]
  BY <1>1, <1>2, <1>9, ProcSet DEF TypeInv
<1>12. /\ stackOf(p)' = imported(stackOf(p))
       /\ \A q \in Process : q # p => stackOf(q)' = stackOf(q)
  BY <1>9, <1>11 DEF stackOf
<1>13. \A q \in Process : /\ DOMAIN stackOf(q)' = DOMAIN stackOf(q)
                          /\ \A j \in DOMAIN stackOf(q) :
                               /\ stackOf(q)'[j].name = stackOf(q)[j].name
                               /\ stackOf(q)'[j].k = stackOf(q)[j].k
  BY <1>7, <1>12
<1>14. \A q \in Process : \A o : Underway(q, o)' <=> Underway(q, o)
  <2>1. \A q \in Process : \A o :
          Underway(q, o)' <=> \E j \in DOMAIN stackOf(q)' : contextOf(stackOf(q)'[j]) = o
    BY DEF Underway, stackOf, contextOf
  <2>2. \A q \in Process : \A j \in DOMAIN stackOf(q) :
          contextOf(stackOf(q)'[j]) = contextOf(stackOf(q)[j])
    BY <1>13 DEF contextOf
  <2>3. QED
    BY <1>13, <2>1, <2>2 DEF Underway, stackOf
<1>15. \A q \in Process : proc'[q].all = proc[q].all
  BY <1>9, <1>11
<1>16. InTable(contexts)' = InTable(contexts) /\ InTable(contexts) \subseteq Context
  BY <1>1, <1>2, InTableIs DEF InTable
<1>17. Numbered' /\ Fresh'
  <2>1. Numbered'
    BY <1>1, <1>15 DEF ReloadInv, Numbered
  <2>2. Fresh'
    BY <1>1, <1>6, <1>14, <1>15 DEF ReloadInv, Fresh
  <2>3. QED
    BY <2>1, <2>2
<1>18. Runs' /\ NoOrphan' /\ Replaced'
  <2>1. Runs'
    BY <1>6, <1>16 DEF ReloadInv, Runs
  <2>2. NoOrphan'
    BY <1>1, <1>6, <1>14, <1>16 DEF ReloadInv, NoOrphan
  <2>3. Replaced'
    BY <1>1 DEF ReloadInv, Replaced
  <2>4. QED
    BY <2>1, <2>2, <2>3
<1>19. Unlisted'
  BY <1>1, <1>13 DEF ReloadInv, Unlisted
<1>20. Nested'
  <2> SUFFICES ASSUME ~overlap', NEW q \in Process,
                      NEW j \in DOMAIN stackOf(q)', NEW k \in DOMAIN stackOf(q)',
                      j < k, stackOf(q)'[j].name = stackOf(q)'[k].name
               PROVE  Head(stackOf(q)'[j].left) \in elems(stackOf(q)'[k].left)
    BY DEF Nested
  <2>1. Head(stackOf(q)[j].left) \in elems(stackOf(q)[k].left)
    BY <1>1, <1>13 DEF ReloadInv, Nested
  <2>2. CASE q # p \/ k # n
    <3>1. stackOf(q)'[j] = stackOf(q)[j] /\ stackOf(q)'[k] = stackOf(q)[k]
      BY <1>3, <1>7, <1>12, <1>13, <2>2 DEF n
    <3>2. QED
      BY <2>1, <3>1
  <2>3. CASE q = p /\ k = n
    <3>1. j \in DOMAIN stackOf(p) /\ j + 1 \in DOMAIN stackOf(p) /\ j < Len(stackOf(p)) /\ j # n
      BY <1>3, <1>13, <2>3 DEF n
    <3>2. Head(stackOf(p)[j].left) = stackOf(p)[j + 1].name
      BY <3>1 DEF ReloadInv, Stacks
    <3>3. contexts[stackOf(p)[j + 1].name] = 0
      BY <1>1, <3>1 DEF ReloadInv, Unlisted
    <3>4. Head(stackOf(p)[j].left) # m
      BY <1>1, <3>2, <3>3
    <3>5. Head(stackOf(p)[j].left) \in elems(Tail(top(p).left))
      BY <1>1, <1>3, <1>4, <2>1, <2>3, <3>4, TailIs
    <3>6. QED
      BY <1>7, <1>12, <2>3, <3>1, <3>5
  <2>4. QED
    BY <2>2, <2>3
<1>21. Imported'
  <2> SUFFICES ASSUME ~overlap', NEW o \in Context, Live(o)', NEW j \in object'[o].imports,
                      Stale(j)'
               PROVE  j[1] \in dragged'
    BY DEF Imported
  <2>1. Stale(j) /\ j # i
    BY <1>1, <1>5, <1>16 DEF Stale
  <2>2. Live(o) /\ j \in object[o].imports
    BY <1>6, <1>14, <1>16, <2>1 DEF Live
  <2>3. QED
    BY <1>1, <2>1, <2>2 DEF ReloadInv, Imported
<1>22. Fetched'
  <2>1. \A q \in Process :
          /\ proc'[q].files = proc[q].files /\ proc'[q].todo = proc[q].todo
          /\ Whole(q)' => Whole(q)
    BY <1>1, <1>9, <1>11 DEF Whole
  <2> SUFFICES ASSUME ~overlap', NEW q \in Process, Whole(q)'
               PROVE  /\ \A x \in Autoload \cap Present(proc'[q].files) :
                           \/ x \in proc'[q].todo \/ contexts'[x] # 0
                           \/ \E j \in DOMAIN stackOf(q)' : stackOf(q)'[j].name = x
                      /\ \A o \in Context : o \in InTable(contexts)' \/ Underway(q, o)' =>
                           /\ object'[o].version >= proc'[q].files[o[1]]
                           /\ proc'[q].files[o[1]] = 0 => proc'[q].all[o[1]] # o[2]
    BY DEF Fetched, Present
  <2>2. /\ \A x \in Autoload \cap Present(proc[q].files) :
             \/ x \in proc[q].todo \/ contexts[x] # 0
             \/ \E j \in DOMAIN stackOf(q) : stackOf(q)[j].name = x
        /\ \A o \in Context : o \in InTable(contexts) \/ Underway(q, o) =>
             /\ object[o].version >= proc[q].files[o[1]]
             /\ proc[q].files[o[1]] = 0 => proc[q].all[o[1]] # o[2]
    BY <1>1, <2>1 DEF ReloadInv, Fetched
  <2>3. QED
    BY <1>1, <1>6, <1>13, <1>14, <1>15, <1>16, <2>1, <2>2
<1>23. QED
  BY <1>10, <1>17, <1>18, <1>19, <1>20, <1>21, <1>22 DEF ReloadInv

\* A stack without its topmost load.
LEMMA RestIs ==
  ASSUME NEW s \in Seq(Frame), s # <<>>, NEW t, t = SubSeq(s, 1, Len(s) - 1)
  PROVE  /\ t \in Seq(Frame) /\ Len(t) = Len(s) - 1 /\ Len(s) \in Nat \ {0}
         /\ DOMAIN s = 1..Len(s) /\ DOMAIN t = 1..Len(s) - 1
         /\ \A j \in DOMAIN t : t[j] = s[j] /\ j \in DOMAIN s
         /\ Shorter(t, s)
<1>1. /\ Len(s) \in Nat \ {0} /\ DOMAIN s = 1..Len(s) /\ \A j \in DOMAIN s : s[j] \in Frame
  OBVIOUS
<1>2. t \in Seq(Frame) /\ Len(t) = Len(s) - 1 /\ \A j \in 1..Len(s) - 1 : t[j] = s[j]
  BY <1>1, SubSeqProperties
<1>3. DOMAIN t = 1..Len(s) - 1
  BY <1>1, <1>2
<1>4. \A j \in DOMAIN t : t[j] = s[j] /\ j \in DOMAIN s
  BY <1>1, <1>2, <1>3
<1>5. Shorter(t, s)
  BY <1>1, <1>2, <1>4 DEF Shorter
<1>6. QED
  BY <1>1, <1>2, <1>3, <1>4, <1>5

\* A load ends: its context is entered in the table, and who imports it goes on.
LEMMA LoadedStep ==
  ASSUME ReloadInv, NEW p \in Process, Loaded(p)
  PROVE  ReloadInv'
<1> DEFINE n == Len(stackOf(p))
           f == top(p)
           new == contextOf(f)
           rest == SubSeq(stackOf(p), 1, n - 1)
           below == IF rest = <<>> THEN <<>> ELSE imported(rest)
           r == [proc[p] EXCEPT !.stack = below]
<1>1. /\ proc[p].pc = "loading" /\ stackOf(p) # <<>> /\ f.left = <<>>
      /\ contexts' = [contexts EXCEPT ![f.name] = f.k]
      /\ overwritten' = overwritten \cup {o \in InTable(contexts) : o[1] = f.name}
      /\ UNCHANGED <<disk, edits, made, acting, killed, overlap, removed, dragged>>
  BY DEF Loaded, Loading, stackOf
<1>2. /\ rest = <<>> => UNCHANGED object
      /\ rest # <<>> => imports(rest[Len(rest)], new)
      /\ SetProc(p, r)
  <2>1. CASE rest = <<>>
    BY <2>1 DEF Loaded, stackOf
  <2>2. CASE rest # <<>>
    BY <2>2 DEF Loaded, stackOf
  <2>3. QED
    BY <2>1, <2>2
<1>3. /\ TypeInv /\ stackOf(p) \in Seq(Frame) /\ proc[p] \in Proc
      /\ contexts \in [Name -> 0..MaxLoads] /\ object \in [Context -> Object]
      /\ MaxLoads \in Nat \ {0}
  BY UnderwayIs, ReloadAssumption DEF ReloadInv, TypeInv, ReloadAssumption
<1>4. /\ f = stackOf(p)[n] /\ n \in DOMAIN stackOf(p) /\ f \in Frame
      /\ DOMAIN stackOf(p) = 1..n /\ n \in Nat \ {0}
  BY <1>1, <1>3 DEF top, stackOf
<1>5. /\ new \in Context /\ new[1] = f.name /\ new[2] = f.k /\ f.name \in Name
      /\ f.k \in 1..MaxLoads /\ Underway(p, new)
  BY <1>3, <1>4, UnderwayIs DEF Frame
<1>6. /\ rest \in Seq(Frame) /\ Len(rest) = n - 1 /\ DOMAIN rest = 1..n - 1
      /\ \A j \in DOMAIN rest : rest[j] = stackOf(p)[j] /\ j \in DOMAIN stackOf(p)
      /\ Shorter(rest, stackOf(p))
  <2>1. /\ stackOf(p) \in Seq(Frame) /\ stackOf(p) # <<>>
        /\ rest = SubSeq(stackOf(p), 1, Len(stackOf(p)) - 1) /\ n = Len(stackOf(p))
    BY <1>1, <1>3
  <2> HIDE DEF rest, n
  <2>2. QED
    BY ONLY <2>1, RestIs
<1> HIDE DEF rest, f, new
<1>7. rest # <<>> => /\ n - 1 \in DOMAIN rest /\ rest[n - 1].left # <<>>
                     /\ Head(rest[n - 1].left) = f.name
                     /\ rest[n - 1] \in Frame
  <2> SUFFICES ASSUME rest # <<>>
               PROVE  /\ n - 1 \in DOMAIN rest /\ rest[n - 1].left # <<>>
                      /\ Head(rest[n - 1].left) = f.name
                      /\ rest[n - 1] \in Frame
    OBVIOUS
  <2>1. n - 1 \in DOMAIN rest
    BY <1>4, <1>6
  <2>2. rest[n - 1] = stackOf(p)[n - 1] /\ n - 1 \in DOMAIN stackOf(p) /\ n - 1 < n
        /\ (n - 1) + 1 = n
    BY <1>4, <1>6, <2>1
  <2>3. stackOf(p)[n - 1].left # <<>> /\ Head(stackOf(p)[n - 1].left) = stackOf(p)[n].name
    BY <2>2 DEF ReloadInv, Stacks
  <2>4. QED
    BY <1>4, <1>6, <2>1, <2>2, <2>3
<1>8. /\ below \in Seq(Frame) /\ Len(below) = n - 1 /\ DOMAIN below = 1..n - 1
      /\ \A j \in DOMAIN below :
           /\ below[j].name = stackOf(p)[j].name
           /\ below[j].k = stackOf(p)[j].k
           /\ j # n - 1 => below[j] = stackOf(p)[j]
      /\ n > 1 => below[n - 1].left = Tail(stackOf(p)[n - 1].left)
      /\ Shorter(below, stackOf(p))
  <2>1. CASE rest = <<>>
    <3>1. n = 1 /\ DOMAIN rest = {}
      BY <1>4, <1>6, <2>1
    <3>2. QED
      BY <1>4, <1>6, <2>1, <3>1
  <2>2. CASE rest # <<>>
    <3>1. below = imported(rest)
      BY <2>2
    <3>2. /\ imported(rest) \in Seq(Frame) /\ Len(imported(rest)) = n - 1
          /\ DOMAIN imported(rest) = DOMAIN rest
          /\ \A j \in DOMAIN rest :
               /\ imported(rest)[j].name = rest[j].name /\ imported(rest)[j].k = rest[j].k
               /\ j # n - 1 => imported(rest)[j] = rest[j]
          /\ imported(rest)[n - 1].left = Tail(rest[n - 1].left)
          /\ Shorter(imported(rest), stackOf(p))
      BY <1>6, <1>7, <2>2, ImportedIs
    <3> HIDE DEF below
    <3>3. QED
      BY <1>6, <1>7, <2>2, <3>1, <3>2
  <2>3. QED
    BY <2>1, <2>2
<1> HIDE DEF below
<1>9. /\ r \in Proc /\ r.stack = below /\ r.pc = "loading"
      /\ r.files = proc[p].files /\ r.all = proc[p].all /\ r.todo = proc[p].todo
      /\ r.only = proc[p].only /\ r.failed = proc[p].failed
  BY <1>1, <1>3, <1>8 DEF Proc
<1> HIDE DEF r
<1>10. /\ object' \in [Context -> Object]
       /\ \A o \in Context :
            /\ object'[o].version = object[o].version
            /\ object'[o].module = object[o].module
            /\ object'[o].stopped = object[o].stopped
            /\ object'[o].imports \subseteq object[o].imports \cup {new}
  <2>1. CASE rest = <<>>
    BY <1>2, <1>3, <2>1
  <2>2. CASE rest # <<>>
    <3>1. rest[Len(rest)] \in Frame /\ imports(rest[Len(rest)], new)
      BY <1>2, <1>6, <1>7, <2>2
    <3>2. QED
      BY <1>3, <1>5, <3>1, AddImportIs
  <2>3. QED
    BY <2>1, <2>2
<1>11. contexts' \in [Name -> 0..MaxLoads] /\ contexts'[f.name] = f.k
       /\ \A m \in Name : m # f.name => contexts'[m] = contexts[m]
  BY <1>1, <1>3, <1>5
<1>12. /\ \A o \in Context : o \in InTable(contexts) <=> contexts[o[1]] = o[2]
       /\ \A o \in Context : o \in InTable(contexts)' <=> contexts'[o[1]] = o[2]
       /\ InTable(contexts) \subseteq Context /\ InTable(contexts)' \subseteq Context
  <2>1. InTable(contexts)' = InTable(contexts')
    BY DEF InTable
  <2>2. QED
    BY <1>3, <1>11, <2>1, InTableIs
<1>13. \A o \in Context : o[1] \in Name /\ o[2] \in 1..MaxLoads /\ o[2] # 0
                          /\ (o[1] = f.name /\ o[2] = f.k => o = new)
  <2>1. \A o \in Context : o[1] \in Name /\ o[2] \in 1..MaxLoads /\ o = <<o[1], o[2]>>
    BY DEF Context
  <2>2. \A k \in 1..MaxLoads : k # 0
    BY <1>3
  <2>3. new = <<f.name, f.k>>
    BY <1>5, <2>1
  <2>4. QED
    BY <2>1, <2>2, <2>3
<1>14. \A o \in Context : o \in InTable(contexts)' <=>
                            o = new \/ (o \in InTable(contexts) /\ o[1] # f.name)
  BY <1>5, <1>11, <1>12, <1>13
<1>15. /\ TypeInv' /\ Stacks' /\ OneLoad' /\ Alone' /\ Known' /\ ByImport' /\ Versions'
       /\ \A q \in Process : \A o : Underway(q, o)' => Underway(q, o)
       /\ \A q \in Process : \A o : q # p => (Underway(q, o)' <=> Underway(q, o))
  <2>1. acting' \subseteq Context /\ overwritten' \subseteq Context
    BY <1>1, <1>3, <1>12 DEF TypeInv
  <2>2. proc[p].pc \in {"loading", "importing"}
    BY <1>1
  <2>3. QED
    BY <1>1, <1>2, <1>8, <1>9, <1>10, <1>11, <2>1, <2>2, ShrinkIs
<1>16. /\ proc' \in [Process -> Proc] /\ proc'[p] = r
       /\ \A q \in Process : q # p => proc'[q] = proc[q]
  BY <1>2, <1>3, <1>9, ProcSet DEF TypeInv
<1>17. /\ stackOf(p)' = below
       /\ \A q \in Process : q # p => stackOf(q)' = stackOf(q)
  BY <1>9, <1>16 DEF stackOf
<1>18. \A q \in Process : \A o : Underway(q, o)' => o # new
  <2> SUFFICES ASSUME NEW q \in Process, NEW o, Underway(q, o)', o = new
               PROVE  FALSE
    OBVIOUS
  <2>1. PICK j \in DOMAIN stackOf(q)' : contextOf(stackOf(q)'[j]) = new
    BY DEF Underway, stackOf, contextOf
  <2>2. j \in DOMAIN stackOf(q) /\ contextOf(stackOf(q)[j]) = new /\ (q = p => j # n)
    BY <1>4, <1>8, <1>17, <2>1 DEF contextOf
  <2>3. QED
    BY <1>4, <2>2 DEF ReloadInv, OneLoad, new
<1>19. \A o \in Context : o # new => (Underway(p, o)' <=> Underway(p, o))
  <2> SUFFICES ASSUME NEW o \in Context, o # new, Underway(p, o)
               PROVE  Underway(p, o)'
    BY <1>15
  <2>1. PICK j \in DOMAIN stackOf(p) : contextOf(stackOf(p)[j]) = o
    BY DEF Underway, stackOf
  <2>2. j # n
    BY <1>4, <2>1 DEF new
  <2>3. j \in DOMAIN stackOf(p)' /\ contextOf(stackOf(p)'[j]) = o
    BY <1>4, <1>8, <1>17, <2>1, <2>2 DEF contextOf
  <2>4. QED
    BY <2>3 DEF Underway, stackOf, contextOf
<1>20. \A q \in Process : proc'[q].all = proc[q].all
  BY <1>9, <1>16
<1>21. ~object[new].stopped /\ new[2] <= made[f.name] /\ contexts[f.name] # f.k
       /\ \A q \in Process : proc[q].all[f.name] # f.k
  BY <1>5 DEF ReloadInv, Fresh
<1>22. Numbered'
  <2>1. \A m \in Name : contexts'[m] <= made[m]
    BY <1>5, <1>11, <1>21 DEF ReloadInv, Numbered
  <2>2. QED
    BY <1>1, <1>20, <2>1 DEF ReloadInv, Numbered
<1>23. Fresh'
  <2> SUFFICES ASSUME NEW q \in Process, NEW o \in Context, Underway(q, o)'
               PROVE  /\ ~object'[o].stopped /\ o[2] <= made'[o[1]] /\ contexts'[o[1]] # o[2]
                      /\ \A u \in Process : proc'[u].all[o[1]] # o[2]
    BY DEF Fresh
  <2>1. o # new /\ Underway(q, o)
    BY <1>15, <1>18
  <2>2. /\ ~object[o].stopped /\ o[2] <= made[o[1]] /\ contexts[o[1]] # o[2]
        /\ \A u \in Process : proc[u].all[o[1]] # o[2]
    BY <2>1 DEF ReloadInv, Fresh
  <2>3. contexts'[o[1]] # o[2]
    BY <1>11, <1>13, <2>1, <2>2
  <2>4. QED
    BY <1>1, <1>10, <1>20, <2>2, <2>3
<1>24. ~overlap => \A j \in DOMAIN stackOf(p) : j # n => stackOf(p)[j].name # f.name
  <2> SUFFICES ASSUME ~overlap, NEW j \in DOMAIN stackOf(p), j # n,
                      stackOf(p)[j].name = f.name
               PROVE  FALSE
    OBVIOUS
  <2>1. j < n
    BY <1>4
  <2>2. Head(stackOf(p)[j].left) \in elems(f.left)
    BY <1>4, <2>1 DEF ReloadInv, Nested
  <2>3. QED
    BY <1>1, <2>2 DEF elems
<1>25. ~overlap => contexts[f.name] = 0
  BY <1>4 DEF ReloadInv, Unlisted
<1>26. ~overlap => \A q \in Process : q # p => stackOf(q) = <<>> /\ ~Active(q)
  BY <1>1 DEF ReloadInv, Alone, Active, Stacks
<1>27. Runs'
  BY <1>10, <1>12, <1>14, <1>21 DEF ReloadInv, Runs
<1>28. NoOrphan'
  <2> SUFFICES ASSUME NEW o \in Context, o[2] <= made[o[1]]
               PROVE  IF object'[o].stopped THEN o \notin InTable(contexts)'
                      ELSE \/ o \in InTable(contexts)'
                           \/ \E q \in Process : Underway(q, o)'
                           \/ o \in overwritten' /\ overlap'
    BY <1>1 DEF NoOrphan
  <2>1. CASE o = new
    BY <1>10, <1>14, <1>21, <2>1
  <2>2. CASE o # new
    <3>1. IF object[o].stopped THEN o \notin InTable(contexts)
          ELSE \/ o \in InTable(contexts)
               \/ \E q \in Process : Underway(q, o)
               \/ o \in overwritten /\ overlap
      BY DEF ReloadInv, NoOrphan
    <3>2. \A q \in Process : Underway(q, o)' <=> Underway(q, o)
      BY <1>15, <1>19, <2>2
    <3>3. o \in InTable(contexts)' <=> o \in InTable(contexts) /\ o[1] # f.name
      BY <1>14, <2>2
    <3>4. CASE o \in InTable(contexts) /\ o[1] = f.name
      <4>1. contexts[f.name] # 0 /\ o \in overwritten'
        BY <1>1, <1>12, <1>13, <3>4
      <4>2. overlap
        BY <1>25, <4>1
      <4>3. QED
        BY <1>1, <1>10, <3>1, <3>3, <3>4, <4>1, <4>2
    <3>5. CASE ~(o \in InTable(contexts) /\ o[1] = f.name)
      BY <1>1, <1>10, <3>1, <3>2, <3>3, <3>5
    <3>6. QED
      BY <3>4, <3>5
  <2>3. QED
    BY <2>1, <2>2
<1>29. Replaced'
  <2>1. ASSUME ~overlap
        PROVE  overwritten' = {}
    <3>1. overwritten = {}
      BY <2>1 DEF ReloadInv, Replaced
    <3>2. \A o \in InTable(contexts) : o[1] # f.name
      BY <1>12, <1>13, <1>25, <2>1
    <3>3. QED
      BY <1>1, <3>1, <3>2
  <2>2. QED
    BY <1>1, <2>1 DEF Replaced
<1>30. Unlisted'
  <2> SUFFICES ASSUME ~overlap', NEW q \in Process, NEW j \in DOMAIN stackOf(q)'
               PROVE  contexts'[stackOf(q)'[j].name] = 0
    BY DEF Unlisted
  <2>1. q = p
    BY <1>1, <1>17, <1>26
  <2>2. /\ j \in DOMAIN stackOf(p) /\ j # n /\ stackOf(p)'[j].name = stackOf(p)[j].name
    BY <1>4, <1>8, <1>17, <2>1
  <2>3. /\ stackOf(p)[j].name # f.name /\ stackOf(p)[j].name \in Name
        /\ contexts[stackOf(p)[j].name] = 0
    BY <1>1, <1>3, <1>24, <2>2, UnderwayIs DEF ReloadInv, Unlisted, Frame
  <2>4. QED
    BY <1>11, <2>1, <2>2, <2>3
<1>31. Nested'
  <2> SUFFICES ASSUME ~overlap', NEW q \in Process,
                      NEW j \in DOMAIN stackOf(q)', NEW k \in DOMAIN stackOf(q)',
                      j < k, stackOf(q)'[j].name = stackOf(q)'[k].name
               PROVE  Head(stackOf(q)'[j].left) \in elems(stackOf(q)'[k].left)
    BY DEF Nested
  <2>1. q = p
    BY <1>1, <1>17, <1>26
  <2>2. /\ j \in DOMAIN stackOf(p) /\ k \in DOMAIN stackOf(p) /\ j < n - 1 /\ k <= n - 1
        /\ stackOf(p)[j].name = stackOf(p)[k].name
        /\ stackOf(p)'[j] = stackOf(p)[j] /\ j + 1 \in DOMAIN stackOf(p) /\ j + 1 # n /\ j < n
    BY <1>4, <1>8, <1>17, <2>1
  <2>3. Head(stackOf(p)[j].left) \in elems(stackOf(p)[k].left)
    BY <1>1, <2>2 DEF ReloadInv, Nested
  <2>4. CASE k # n - 1
    BY <1>8, <1>17, <2>1, <2>2, <2>3, <2>4
  <2>5. CASE k = n - 1
    <3>1. Head(stackOf(p)[j].left) = stackOf(p)[j + 1].name
      BY <2>2 DEF ReloadInv, Stacks, n
    <3>2. Head(stackOf(p)[j].left) # f.name
      BY <1>1, <1>24, <2>2, <3>1
    <3>3. n > 1 /\ rest # <<>> /\ rest[k] = stackOf(p)[k]
      BY <1>4, <1>6, <2>2, <2>5
    <3>4. /\ stackOf(p)[k].left \in Seq(Name) /\ stackOf(p)[k].left # <<>>
          /\ Head(stackOf(p)[k].left) = f.name
      BY <1>7, <2>5, <3>3 DEF Frame
    <3>5. Head(stackOf(p)[j].left) \in elems(Tail(stackOf(p)[k].left))
      BY <2>3, <3>2, <3>4, TailIs
    <3>6. QED
      BY <1>8, <1>17, <2>1, <2>2, <2>5, <3>3, <3>5
  <2>6. QED
    BY <2>4, <2>5
<1>32. Imported'
  <2> SUFFICES ASSUME ~overlap', NEW o \in Context, Live(o)', NEW i \in object'[o].imports,
                      Stale(i)'
               PROVE  i[1] \in dragged'
    BY DEF Imported
  <2>1. i # new
    BY <1>5, <1>14 DEF Stale
  <2>2. i \in object[o].imports
    BY <1>10, <2>1
  <2>3. Live(o)
    BY <1>5, <1>14, <1>15 DEF Live
  <2>4. \A x \in InTable(contexts) : x \in InTable(contexts)'
    BY <1>1, <1>12, <1>13, <1>14, <1>25
  <2>5. Stale(i)
    BY <1>1, <2>4 DEF Stale
  <2>6. QED
    BY <1>1, <2>2, <2>3, <2>5 DEF ReloadInv, Imported
<1>33. Fetched'
  <2> SUFFICES ASSUME ~overlap', NEW q \in Process, Whole(q)'
               PROVE  /\ \A x \in Autoload \cap Present(proc'[q].files) :
                           \/ x \in proc'[q].todo \/ contexts'[x] # 0
                           \/ \E j \in DOMAIN stackOf(q)' : stackOf(q)'[j].name = x
                      /\ \A o \in Context : o \in InTable(contexts)' \/ Underway(q, o)' =>
                           /\ object'[o].version >= proc'[q].files[o[1]]
                           /\ proc'[q].files[o[1]] = 0 => proc'[q].all[o[1]] # o[2]
    BY DEF Fetched, Present
  <2>1. q = p /\ Whole(p)
    BY <1>1, <1>9, <1>16, <1>26 DEF Whole, Active
  <2>2. /\ \A x \in Autoload \cap Present(proc[p].files) :
             \/ x \in proc[p].todo \/ contexts[x] # 0
             \/ \E j \in DOMAIN stackOf(p) : stackOf(p)[j].name = x
        /\ \A o \in Context : o \in InTable(contexts) \/ Underway(p, o) =>
             /\ object[o].version >= proc[p].files[o[1]]
             /\ proc[p].files[o[1]] = 0 => proc[p].all[o[1]] # o[2]
    BY <1>1, <2>1 DEF ReloadInv, Fetched
  <2>3. proc'[p].files = proc[p].files /\ proc'[p].todo = proc[p].todo
    BY <1>9, <1>16
  <2>4. ASSUME NEW x \in Autoload \cap Present(proc[p].files)
        PROVE  \/ x \in proc[p].todo \/ contexts'[x] # 0
               \/ \E j \in DOMAIN stackOf(p)' : stackOf(p)'[j].name = x
    <3>1. CASE x = f.name
      BY <1>3, <1>5, <1>11, <3>1
    <3>2. CASE x # f.name
      <4>1. contexts'[x] = contexts[x]
        BY <1>11, <3>2 DEF Present
      <4>2. ASSUME NEW j \in DOMAIN stackOf(p), stackOf(p)[j].name = x
            PROVE  j \in DOMAIN stackOf(p)' /\ stackOf(p)'[j].name = x
        <5>1. j # n
          BY <1>4, <3>2, <4>2
        <5>2. QED
          BY <1>4, <1>8, <1>17, <4>2, <5>1
      <4>3. QED
        BY <2>2, <4>1, <4>2
    <3>3. QED
      BY <3>1, <3>2
  <2>5. ASSUME NEW o \in Context, o \in InTable(contexts)' \/ Underway(p, o)'
        PROVE  /\ object'[o].version >= proc[p].files[o[1]]
               /\ proc[p].files[o[1]] = 0 => proc[p].all[o[1]] # o[2]
    <3>1. o \in InTable(contexts) \/ Underway(p, o)
      BY <1>5, <1>14, <1>15, <2>5
    <3>2. QED
      BY <1>10, <2>2, <3>1
  <2>6. QED
    BY <1>20, <2>1, <2>3, <2>4, <2>5
<1>34. QED
  BY <1>15, <1>22, <1>23, <1>27, <1>28, <1>29, <1>30, <1>31, <1>32, <1>33 DEF ReloadInv

\* What stopping some contexts leaves of them.
LEMMA StopAllIs ==
  ASSUME TypeInv, NEW S \in SUBSET Context, stopAll(S)
  PROVE  /\ object' \in [Context -> Object] /\ acting' \subseteq Context
         /\ \A o \in Context :
              /\ object'[o].version = object[o].version
              /\ object'[o].module = object[o].module
              /\ object'[o].imports = object[o].imports
              /\ object'[o].stopped <=> object[o].stopped \/ o \in S
<1>1. /\ object \in [Context -> Object] /\ acting \subseteq Context
      /\ object' = [o \in Context |->
           IF o \in S THEN [object[o] EXCEPT !.stopped = TRUE, !.auto_start = FALSE]
                      ELSE object[o]]
      /\ acting' \subseteq acting \cup S
  BY DEF TypeInv, stopAll
<1>2. ASSUME NEW o \in Context
      PROVE  /\ object'[o] \in Object
             /\ object'[o].version = object[o].version
             /\ object'[o].module = object[o].module
             /\ object'[o].imports = object[o].imports
             /\ object'[o].stopped <=> object[o].stopped \/ o \in S
  <2>1. object[o] \in Object
    BY <1>1
  <2>2. CASE o \in S
    <3>1. object'[o] = [object[o] EXCEPT !.stopped = TRUE, !.auto_start = FALSE]
      BY <1>1, <2>2
    <3>2. QED
      BY <2>1, <2>2, <3>1 DEF Object
  <2>3. CASE o \notin S
    BY <1>1, <2>1, <2>3
  <2>4. QED
    BY <2>2, <2>3
<1>3. QED
  BY <1>1, <1>2

\* A load fails: it and the loads that wait for it are over.
LEMMA LoadRaisesStep ==
  ASSUME ReloadInv, NEW p \in Process, LoadRaises(p)
  PROVE  ReloadInv'
<1> DEFINE S == {contextOf(stackOf(p)[i]) : i \in DOMAIN stackOf(p)}
           r == [proc[p] EXCEPT !.stack = <<>>, !.pc = "loading", !.failed = TRUE]
<1>1. /\ proc[p].pc \in {"loading", "importing"} /\ stopAll(S) /\ SetProc(p, r)
      /\ UNCHANGED <<disk, edits, contexts, made, killed, overlap, overwritten,
                     removed, dragged>>
  BY DEF LoadRaises, Loading, history, stackOf
<1>2. /\ TypeInv /\ stackOf(p) \in Seq(Frame) /\ proc[p] \in Proc
      /\ contexts \in [Name -> 0..MaxLoads] /\ object \in [Context -> Object]
  BY UnderwayIs DEF ReloadInv, TypeInv
<1>3. S \subseteq Context /\ \A o : o \in S <=> Underway(p, o)
  BY <1>2, UnderwayIs DEF Underway, stackOf
<1> HIDE DEF S
<1>4. /\ object' \in [Context -> Object] /\ acting' \subseteq Context
      /\ \A o \in Context :
           /\ object'[o].version = object[o].version
           /\ object'[o].module = object[o].module
           /\ object'[o].imports = object[o].imports
           /\ object'[o].stopped <=> object[o].stopped \/ Underway(p, o)
  BY <1>1, <1>2, <1>3, StopAllIs
<1>5. /\ r \in Proc /\ r.stack = <<>> /\ r.pc = "loading" /\ r.failed
      /\ r.files = proc[p].files /\ r.all = proc[p].all /\ r.todo = proc[p].todo
  <2>1. <<>> \in Seq(Frame)
    OBVIOUS
  <2>2. QED
    BY <1>2, <2>1 DEF Proc, Places
<1> HIDE DEF r
<1>6. /\ TypeInv' /\ Stacks' /\ OneLoad' /\ Alone' /\ Known' /\ ByImport' /\ Versions'
      /\ \A q \in Process : \A o : Underway(q, o)' => Underway(q, o)
      /\ \A q \in Process : \A o : q # p => (Underway(q, o)' <=> Underway(q, o))
  <2>1. Shorter(r.stack, stackOf(p))
    <3>1. /\ r.stack \in Seq(Frame) /\ Len(r.stack) = 0 /\ DOMAIN r.stack = {}
          /\ Len(stackOf(p)) \in Nat
      BY <1>2, <1>5
    <3>2. QED
      BY <1>2, <3>1 DEF Shorter
  <2>2. overwritten' \subseteq Context /\ contexts' \in [Name -> 0..MaxLoads]
    BY <1>1, <1>2 DEF TypeInv
  <2>3. QED
    BY <1>1, <1>4, <1>5, <2>1, <2>2, ShrinkIs
<1>7. /\ proc' \in [Process -> Proc] /\ proc'[p] = r
      /\ \A q \in Process : q # p => proc'[q] = proc[q]
  BY <1>1, <1>2, <1>5, ProcSet DEF TypeInv
<1>8. /\ stackOf(p)' = <<>>
      /\ \A q \in Process : q # p => stackOf(q)' = stackOf(q)
  BY <1>5, <1>7 DEF stackOf
<1>9. \A q \in Process : proc'[q].all = proc[q].all
  BY <1>5, <1>7
<1>10. InTable(contexts)' = InTable(contexts) /\ InTable(contexts) \subseteq Context
       /\ \A o \in Context : o \in InTable(contexts) <=> contexts[o[1]] = o[2]
  BY <1>1, <1>2, InTableIs DEF InTable
<1>11. \A o : ~Underway(p, o)'
  BY <1>8 DEF Underway, stackOf
<1>12. \A q \in Process : \A o : Underway(q, o)' => ~Underway(p, o)
  <2> SUFFICES ASSUME NEW q \in Process, NEW o, Underway(q, o)', Underway(p, o)
               PROVE  FALSE
    OBVIOUS
  <2>1. q # p /\ Underway(q, o)
    BY <1>6, <1>11
  <2>2. QED
    BY <2>1 DEF ReloadInv, OneLoad, Underway, stackOf
<1>13. Numbered'
  BY <1>1, <1>9 DEF ReloadInv, Numbered
<1>14. Fresh'
  <2> SUFFICES ASSUME NEW q \in Process, NEW o \in Context, Underway(q, o)'
               PROVE  /\ ~object'[o].stopped /\ o[2] <= made'[o[1]] /\ contexts'[o[1]] # o[2]
                      /\ \A u \in Process : proc'[u].all[o[1]] # o[2]
    BY DEF Fresh
  <2>1. Underway(q, o) /\ ~Underway(p, o)
    BY <1>6, <1>12
  <2>2. QED
    BY <1>1, <1>4, <1>9, <2>1 DEF ReloadInv, Fresh
<1>15. \A o \in Context : Underway(p, o) => o \notin InTable(contexts)
  BY <1>10 DEF ReloadInv, Fresh
<1>16. Runs' /\ Replaced'
  BY <1>1, <1>4, <1>10, <1>15 DEF ReloadInv, Runs, Replaced
<1>17. NoOrphan'
  <2> SUFFICES ASSUME NEW o \in Context, o[2] <= made[o[1]]
               PROVE  IF object'[o].stopped THEN o \notin InTable(contexts)'
                      ELSE \/ o \in InTable(contexts)'
                           \/ \E q \in Process : Underway(q, o)'
                           \/ o \in overwritten' /\ overlap'
    BY <1>1 DEF NoOrphan
  <2>1. IF object[o].stopped THEN o \notin InTable(contexts)
        ELSE \/ o \in InTable(contexts)
             \/ \E q \in Process : Underway(q, o)
             \/ o \in overwritten /\ overlap
    BY DEF ReloadInv, NoOrphan
  <2>2. CASE Underway(p, o)
    BY <1>4, <1>10, <1>15, <2>2
  <2>3. CASE ~Underway(p, o)
    <3>1. \A q \in Process : Underway(q, o) => Underway(q, o)'
      BY <1>6, <2>3
    <3>2. QED
      BY <1>1, <1>4, <1>10, <2>1, <2>3, <3>1
  <2>4. QED
    BY <2>2, <2>3
<1>18. Unlisted' /\ Nested'
  <2>1. Unlisted'
    BY <1>1, <1>8 DEF ReloadInv, Unlisted
  <2>2. Nested'
    BY <1>1, <1>8 DEF ReloadInv, Nested
  <2>3. QED
    BY <2>1, <2>2
<1>19. Imported'
  <2>1. \A o \in Context : Live(o)' => Live(o)
    BY <1>6, <1>10 DEF Live
  <2>2. \A i : Stale(i)' <=> Stale(i)
    BY <1>1, <1>10 DEF Stale
  <2>3. QED
    BY <1>1, <1>4, <2>1, <2>2 DEF ReloadInv, Imported
<1>20. Fetched'
  <2>1. \A q \in Process : Whole(q)' => q # p /\ Whole(q)
    BY <1>5, <1>7 DEF Whole
  <2>2. ~overlap => \A q \in Process : Whole(q) => q = p
    BY <1>1 DEF ReloadInv, Alone, Whole, Active
  <2>3. QED
    BY <1>1, <2>1, <2>2 DEF Fetched
<1>21. QED
  BY <1>6, <1>13, <1>14, <1>16, <1>17, <1>18, <1>19, <1>20 DEF ReloadInv

-----------------------------------------------------------------------------
(* What a reload deletes *)

\* Contexts of some names are stopped and deleted, those that were there when
\* the reload began and those that are there now.
LEMMA DropStep ==
  ASSUME ReloadInv, NEW p \in Process, NEW r \in Proc, SetProc(p, r),
         proc[p].pc = "reading", r.pc \in {"syncing", "loading"}, r.stack = <<>>,
         r.all = proc[p].all, r.files \in {proc[p].files, disk},
         r.todo \subseteq Present(r.files),
         NEW gone \in SUBSET Name, NEW S \in SUBSET Context,
         \A o \in S : o[1] \in gone /\ o[2] \in {proc[p].all[o[1]], contexts[o[1]]},
         \A o \in InTable(contexts) : o[1] \in gone => o \in S,
         contexts' \in [Name -> 0..MaxLoads], \A n \in gone : contexts'[n] = 0,
         \A n \in Name \ gone : contexts'[n] = contexts[n],
         object' \in [Context -> Object], acting' \subseteq Context,
         \A o \in Context :
           /\ object'[o].version = object[o].version
           /\ object'[o].module = object[o].module
           /\ object'[o].imports = object[o].imports
           /\ object'[o].stopped <=> object[o].stopped \/ o \in S,
         UNCHANGED <<disk, edits, made, killed, overlap, overwritten>>,
         removed' \subseteq Name, dragged' \subseteq Name,
         Imported', Fetched'
  PROVE  ReloadInv'
<1>1. /\ TypeInv /\ contexts \in [Name -> 0..MaxLoads] /\ MaxLoads \in Nat \ {0}
  BY ReloadAssumption DEF ReloadInv, TypeInv, ReloadAssumption
<1>2. /\ proc' \in [Process -> Proc] /\ proc'[p] = r
      /\ \A q \in Process : q # p => proc'[q] = proc[q]
  BY <1>1, ProcSet DEF TypeInv
<1>3. /\ contexts' \in [Name -> 0..MaxLoads]
      /\ \A n \in Name : contexts'[n] \in {contexts[n], 0}
      /\ \A n \in gone : contexts'[n] = 0
      /\ \A n \in Name : n \notin gone => contexts'[n] = contexts[n]
  BY <1>1
<1>4. stackOf(p) = <<>> /\ Active(p) /\ Active(p)'
  BY <1>2 DEF ReloadInv, Stacks, Active
<1>5. \A q \in Process : stackOf(q)' = stackOf(q)
  BY <1>2, <1>4 DEF stackOf
<1>6. \A q \in Process : top(q)' = top(q)
  BY <1>5 DEF top, stackOf
<1>7. \A q \in Process : \A o : Underway(q, o)' <=> Underway(q, o)
  BY <1>5 DEF Underway, stackOf
<1>8. \A q \in Process : proc'[q].all = proc[q].all
  BY <1>2
<1>9. \A o \in Context : o[1] \in Name /\ o[2] \in Nat /\ o[2] # 0
  BY <1>1 DEF Context
<1>10. /\ \A o \in Context : o \in InTable(contexts) <=> contexts[o[1]] = o[2]
       /\ \A o \in Context : o \in InTable(contexts)' <=>
                               o \in InTable(contexts) /\ o[1] \notin gone
       /\ InTable(contexts) \subseteq Context /\ InTable(contexts)' \subseteq Context
  <2>1. InTable(contexts)' = InTable(contexts')
    BY DEF InTable
  <2>2. \A o \in Context : o \in InTable(contexts') <=> contexts'[o[1]] = o[2]
    BY <1>3, InTableIs
  <2>3. /\ \A o \in Context : o \in InTable(contexts) <=> contexts[o[1]] = o[2]
        /\ InTable(contexts) \subseteq Context /\ InTable(contexts') \subseteq Context
    BY <1>1, <1>3, InTableIs
  <2>4. ASSUME NEW o \in Context
        PROVE  o \in InTable(contexts') <=> o \in InTable(contexts) /\ o[1] \notin gone
    <3>1. CASE o[1] \in gone
      BY <1>3, <1>9, <2>2, <3>1
    <3>2. CASE o[1] \notin gone
      BY <1>3, <1>9, <2>2, <2>3, <3>2
    <3>3. QED
      BY <3>1, <3>2
  <2>5. QED
    BY <2>1, <2>3, <2>4
<1>11. TypeInv'
  BY <1>1, <1>2, <1>3 DEF TypeInv
<1>12. Stacks'
  <2>1. ASSUME NEW q \in Process
        PROVE  /\ stackOf(q) # <<>> => proc'[q].pc \in {"loading", "importing"}
               /\ proc'[q].pc = "importing" => stackOf(q) # <<>> /\ top(q).left # <<>>
    <3>1. CASE q = p
      BY <1>2, <1>4, <3>1
    <3>2. CASE q # p
      BY <1>2, <3>2 DEF ReloadInv, Stacks
    <3>3. QED
      BY <3>1, <3>2
  <2>2. \A q \in Process : \A i \in DOMAIN stackOf(q) :
          /\ elems(stackOf(q)[i].left) \subseteq elems(Imports[stackOf(q)[i].name])
          /\ i < Len(stackOf(q)) =>
               /\ stackOf(q)[i].left # <<>>
               /\ Head(stackOf(q)[i].left) = stackOf(q)[i + 1].name
    BY DEF ReloadInv, Stacks
  <2>3. ASSUME NEW q \in Process
        PROVE  /\ stackOf(q)' # <<>> => proc'[q].pc \in {"loading", "importing"}
               /\ proc'[q].pc = "importing" => stackOf(q)' # <<>> /\ top(q)'.left # <<>>
               /\ \A i \in DOMAIN stackOf(q)' :
                    /\ elems(stackOf(q)'[i].left) \subseteq elems(Imports[stackOf(q)'[i].name])
                    /\ i < Len(stackOf(q)') =>
                         /\ stackOf(q)'[i].left # <<>>
                         /\ Head(stackOf(q)'[i].left) = stackOf(q)'[i + 1].name
    <3>1. stackOf(q)' = stackOf(q) /\ top(q)' = top(q)
      BY <1>5, <1>6
    <3>2. QED
      BY ONLY <2>1, <2>2, <3>1
  <2>4. QED
    BY <2>3 DEF Stacks
<1>13. Numbered'
  <2>1. \A n \in Name : made[n] \in Nat /\ 0 <= made[n]
    BY <1>1 DEF TypeInv
  <2>2. QED
    BY <1>3, <1>8, <2>1 DEF ReloadInv, Numbered
<1>14. Fresh'
  <2> SUFFICES ASSUME NEW q \in Process, NEW o \in Context, Underway(q, o)
               PROVE  /\ ~object'[o].stopped /\ o[2] <= made'[o[1]] /\ contexts'[o[1]] # o[2]
                      /\ \A u \in Process : proc'[u].all[o[1]] # o[2]
    BY <1>7 DEF Fresh
  <2>1. /\ ~object[o].stopped /\ o[2] <= made[o[1]] /\ contexts[o[1]] # o[2]
        /\ \A u \in Process : proc[u].all[o[1]] # o[2]
    BY DEF ReloadInv, Fresh
  <2>2. contexts'[o[1]] # o[2]
    BY <1>3, <1>9, <2>1
  <2>3. o \notin S
    BY <2>1
  <2>4. QED
    BY <1>8, <2>1, <2>2, <2>3
<1>15. OneLoad' /\ Nested' /\ Replaced'
  BY <1>5 DEF ReloadInv, OneLoad, Nested, Replaced
<1>16. Unlisted'
  <2> SUFFICES ASSUME ~overlap, NEW q \in Process, NEW i \in DOMAIN stackOf(q)
               PROVE  contexts'[stackOf(q)[i].name] = 0
    BY <1>5 DEF Unlisted
  <2>1. stackOf(q)[i].name \in Name /\ contexts[stackOf(q)[i].name] = 0
    BY <1>1, UnderwayIs DEF ReloadInv, Unlisted, Frame
  <2>2. QED
    BY <1>3, <2>1
<1>17. Runs'
  <2> SUFFICES ASSUME NEW o \in InTable(contexts)'
               PROVE  ~object'[o].stopped
    BY DEF Runs
  <2>1. o \in Context /\ o \in InTable(contexts) /\ o \notin S
    BY <1>10
  <2>2. QED
    BY <2>1 DEF ReloadInv, Runs
<1>18. NoOrphan'
  <2> SUFFICES ASSUME NEW o \in Context, o[2] <= made[o[1]]
               PROVE  IF object'[o].stopped THEN o \notin InTable(contexts)'
                      ELSE \/ o \in InTable(contexts)'
                           \/ \E q \in Process : Underway(q, o)
                           \/ o \in overwritten /\ overlap
    BY <1>7 DEF NoOrphan
  <2>1. IF object[o].stopped THEN o \notin InTable(contexts)
        ELSE \/ o \in InTable(contexts)
             \/ \E q \in Process : Underway(q, o)
             \/ o \in overwritten /\ overlap
    BY DEF ReloadInv, NoOrphan
  <2>2. o \in InTable(contexts)' <=> contexts[o[1]] = o[2] /\ o[1] \notin gone
    BY <1>10
  <2>3. o \in InTable(contexts) <=> contexts[o[1]] = o[2]
    BY <1>10
  <2>4. /\ object'[o].stopped <=> object[o].stopped \/ o \in S
        /\ o \in S => o[1] \in gone
        /\ o \in InTable(contexts) /\ o[1] \in gone => o \in S
    OBVIOUS
  <2>5. QED
    BY <2>1, <2>2, <2>3, <2>4
<1>19. Alone'
  <2>1. \A q \in Process : Active(q)' <=> Active(q)
    BY <1>2, <1>4 DEF Active
  <2>2. QED
    BY <2>1 DEF ReloadInv, Alone
<1>20. ~overlap => \A q \in Process : q # p => ~Active(q)
  BY <1>4 DEF ReloadInv, Alone
<1>21. Known'
  <2>1. ~overlap' => \A q \in Process : proc'[q].pc # "reading"
    BY <1>2, <1>20 DEF Active
  <2>2. QED
    BY <2>1 DEF Known
<1>22. ByImport'
  <2>1. ~overlap' => \A q \in Process : proc'[q].pc # "importing"
    BY <1>2, <1>20 DEF Active
  <2>2. QED
    BY <2>1 DEF ReloadInv, ByImport
<1>23. Versions'
  <2>1. \A q \in Process, n \in Name :
          proc'[q].files[n] <= edits + 1 /\ (disk[n] = 0 \/ proc'[q].files[n] <= disk[n])
    <3> SUFFICES ASSUME NEW q \in Process, NEW n \in Name
                 PROVE  /\ proc'[q].files[n] <= edits + 1
                        /\ disk[n] = 0 \/ proc'[q].files[n] <= disk[n]
      OBVIOUS
    <3>1. proc'[q].files[n] \in {proc[q].files[n], disk[n]} /\ disk[n] \in Nat
      BY <1>1, <1>2 DEF TypeInv
    <3>2. QED
      BY <3>1 DEF ReloadInv, Versions
  <2>2. \A q \in Process :
          /\ proc'[q].todo \subseteq Present(proc'[q].files)
          /\ proc'[q].pc \in {"idle", "reading"} => proc'[q].todo = {}
    BY <1>2 DEF ReloadInv, Versions
  <2>3. QED
    BY <2>1, <2>2 DEF ReloadInv, Versions, Present
<1>24. QED
  BY <1>11, <1>12, <1>13, <1>14, <1>15, <1>16, <1>17, <1>18, <1>19, <1>21, <1>22, <1>23
     DEF ReloadInv

\* unload_scripts.
LEMMA UnloadAllStep ==
  ASSUME ReloadInv, NEW p \in Process, UnloadAll(p)
  PROVE  ReloadInv'
<1> DEFINE S == InTable(contexts)
           r == [proc[p] EXCEPT !.pc = "syncing", !.waits = acting' \cup killed]
<1>1. /\ proc[p].pc = "reading" /\ proc[p].only = Unload /\ stopAll(S) /\ SetProc(p, r)
      /\ contexts' = [n \in Name |-> 0]
      /\ UNCHANGED <<disk, edits, made, killed, overlap, overwritten, removed, dragged>>
  BY DEF UnloadAll, history
<1>2. /\ TypeInv /\ proc[p] \in Proc /\ killed \subseteq Context
      /\ contexts \in [Name -> 0..MaxLoads] /\ removed \subseteq Name /\ dragged \subseteq Name
  BY UnderwayIs DEF ReloadInv, TypeInv
<1>3. /\ S \subseteq Context /\ \A o \in S : o[1] \in Name /\ o[2] = contexts[o[1]]
  BY <1>2, InTableIs DEF Context
<1> HIDE DEF S
<1>4. /\ object' \in [Context -> Object] /\ acting' \subseteq Context
      /\ \A o \in Context :
           /\ object'[o].version = object[o].version
           /\ object'[o].module = object[o].module
           /\ object'[o].imports = object[o].imports
           /\ object'[o].stopped <=> object[o].stopped \/ o \in S
  BY <1>1, <1>2, <1>3, StopAllIs
<1>5. /\ r \in Proc /\ r.pc = "syncing" /\ r.stack = proc[p].stack /\ r.only = proc[p].only
      /\ r.files = proc[p].files /\ r.all = proc[p].all /\ r.todo = proc[p].todo
  BY <1>2, <1>4 DEF Proc, Places
<1> HIDE DEF r
<1>6. /\ proc' \in [Process -> Proc] /\ proc'[p] = r
      /\ \A q \in Process : q # p => proc'[q] = proc[q]
  BY <1>1, <1>2, <1>5, ProcSet DEF TypeInv
<1>7. proc[p].stack = <<>>
  BY <1>1 DEF ReloadInv, Stacks, stackOf
<1>8. ~overlap => \A q \in Process : q # p => ~Active(q) /\ ~Whole(q)
  BY <1>1 DEF ReloadInv, Alone, Active, Whole
<1>9. Imported'
  <2> SUFFICES ASSUME ~overlap, NEW o \in Context, Live(o)'
               PROVE  FALSE
    BY <1>1 DEF Imported
  <2>1. o \notin InTable(contexts)'
    BY <1>1 DEF InTable
  <2>2. ASSUME NEW q \in Process
        PROVE  proc'[q].stack = <<>>
    <3>1. CASE q = p
      BY <1>5, <1>6, <1>7, <3>1
    <3>2. CASE q # p
      BY <1>6, <1>8, <3>2 DEF ReloadInv, Stacks, stackOf, Active
    <3>3. QED
      BY <3>1, <3>2
  <2>3. \A q \in Process : ~Underway(q, o)'
    BY <2>2 DEF Underway
  <2>4. QED
    BY <2>1, <2>3 DEF Live
<1>10. Fetched'
  <2>1. ~overlap' => \A q \in Process : ~Whole(q)'
    <3>1. Unload \notin {None, All}
      BY ReloadAssumption DEF ReloadAssumption
    <3>2. QED
      BY <1>1, <1>5, <1>6, <1>8, <3>1 DEF Whole
  <2>2. QED
    BY <2>1 DEF Fetched
<1>11. /\ contexts' \in [Name -> 0..MaxLoads] /\ \A n \in Name : contexts'[n] = 0
       /\ \A n \in Name \ Name : contexts'[n] = contexts[n]
  <2>1. 0 \in 0..MaxLoads
    BY ReloadAssumption DEF ReloadAssumption
  <2>2. QED
    BY <1>1, <2>1
<1>12. r.todo \subseteq Present(r.files)
  BY <1>5 DEF ReloadInv, Versions
<1>13. \A o \in S : o[1] \in Name /\ o[2] \in {proc[p].all[o[1]], contexts[o[1]]}
  BY <1>3
<1>14. \A o \in InTable(contexts) : o \in S
  BY DEF S
<1>15. r.stack = <<>> /\ r.pc \in {"syncing", "loading"} /\ r.files \in {proc[p].files, disk}
  BY <1>5, <1>7
<1>16. Name \in SUBSET Name /\ S \in SUBSET Context
  BY <1>3
<1>17. removed' \subseteq Name /\ dragged' \subseteq Name
  BY <1>1, <1>2
<1>18. QED
  BY <1>1, <1>4, <1>5, <1>9, <1>10, <1>11, <1>12, <1>13, <1>14, <1>15, <1>16, <1>17, DropStep

\* import_recurse finds what is imported and all that this leads to.
LEMMA ReachIs ==
  ASSUME NEW x \in Name, NEW m \in Name, m \in imports_of(x)
  PROVE  m \in reach(x) /\ reach(m) \subseteq reach(x)
<1> DEFINE closed(n) == {S \in SUBSET Name : /\ imports_of(n) \subseteq S
                                             /\ \A y \in S : imports_of(y) \subseteq S}
<1>1. \A n : reach(n) = {y \in Name : \A S \in closed(n) : y \in S}
  BY DEF reach
<1>2. ASSUME NEW S \in closed(x)
      PROVE  m \in S /\ S \in closed(m)
  OBVIOUS
<1> HIDE DEF closed
<1>3. QED
  BY <1>1, <1>2

\* The files to load are files that are there.
LEMMA ForcePresent ==
  ASSUME NEW only \in Name \cup {None, All}, NEW all, NEW files,
         NEW c1, c1 = first_choice(only, all, files),
         NEW c2, c2 = with_importers(c1, all, files),
         NEW c, c = with_packages(c2, files)
  PROVE  c.force \subseteq Present(files) /\ c1.delete \subseteq c2.delete
         /\ c2.delete \subseteq c.delete
<1>1. None # All /\ None \notin Name /\ All \notin Name
  BY ReloadAssumption DEF ReloadAssumption
<1>2. c1.force \subseteq Present(files)
  <2>1. CASE only = All
    BY <1>1, <2>1 DEF first_choice
  <2>2. CASE only = None
    BY <1>1, <2>2 DEF first_choice
  <2>3. CASE only \in Name
    BY <1>1, <2>3 DEF first_choice
  <2>4. QED
    BY <2>1, <2>2, <2>3
<1>3. c2.force \subseteq Present(files) /\ c1.delete \subseteq c2.delete
  BY <1>2 DEF with_importers
<1>4. c.force \subseteq Present(files) /\ c2.delete \subseteq c.delete
  BY <1>3 DEF with_packages
<1>5. QED
  BY <1>3, <1>4

\* What is deleted for the sake of its imports.
LEMMA ImportersIs ==
  ASSUME NEW all, NEW files, NEW c1, NEW c2, c2 = with_importers(c1, all, files), NEW n \in Name
  PROVE  all[n] # 0 /\ (\E m \in reach(n) : Root[m] \in will_reload(c1, files)) =>
           n \in c2.delete
BY DEF with_importers

\* A reload of what has changed, or of everything, loads each file or app that
\* is there or leaves it as it is, and leaves only what is as its file.
LEMMA WholeChoice ==
  ASSUME NEW only \in {None, All}, NEW all, NEW files,
         NEW c1, c1 = first_choice(only, all, files),
         NEW c2, c2 = with_importers(c1, all, files),
         NEW c, c = with_packages(c2, files)
  PROVE  /\ \A n \in Autoload \cap Present(files) :
              n \in c.force \/ (all[n] # 0 /\ n \notin c.delete)
         /\ \A n \in Name : all[n] # 0 /\ n \notin c.delete =>
              files[n] = object[<<n, all[n]>>].version
<1> DEFINE changed == {n \in Name : all[n] # 0 /\ files[n] # object[<<n, all[n]>>].version}
           known == {n \in Name : all[n] # 0}
<1>1. /\ None # All /\ None \notin Name /\ All \notin Name /\ Autoload \subseteq Name
      /\ \A n \in Autoload : Root[n] \in {n, None}
  BY ReloadAssumption DEF ReloadAssumption
<1>2. /\ only = All => c1 = [delete |-> known, force |-> Present(files)]
      /\ only = None => c1 = [delete |-> changed,
                              force |-> Present(files) \cap (changed \cup (Autoload \ known))]
  BY <1>1 DEF first_choice
<1>3. /\ \A n \in Name : n \in changed <=> all[n] # 0 /\ files[n] # object[<<n, all[n]>>].version
      /\ \A n \in Name : n \in known <=> all[n] # 0
  OBVIOUS
<1> HIDE DEF changed, known
<1>4. c1.delete \subseteq c2.delete /\ c2.delete \subseteq c.delete
  BY ForcePresent
<1>5. ASSUME NEW n \in Autoload \cap Present(files)
      PROVE  /\ n \in c2.force => n \in c.force
             /\ n \in c.delete => n \in c2.delete \/ n \in c.force
  <2> DEFINE roots == {Root[x] : x \in c2.force} \ {None}
             members == {x \in Present(files) : Root[x] \in roots}
  <2>1. /\ c.delete = c2.delete \cup members
        /\ c.force = (c2.force \ members) \cup {x \in members : Root[x] = x}
    BY DEF with_packages
  <2>2. n \in members => Root[n] = n
    BY <1>1
  <2> HIDE DEF roots, members
  <2>3. QED
    BY <2>1, <2>2
<1>6. ASSUME NEW n \in Autoload \cap Present(files)
      PROVE  /\ n \in c1.delete => n \in c1.force
             /\ n \in c1.force => n \in c2.force
             /\ n \in c2.delete => n \in c2.force
             /\ n \in c1.force \/ all[n] # 0
  <2>1. n \in Name
    BY <1>1
  <2>2. (n \in c1.delete => n \in c1.force) /\ (n \in c1.force \/ all[n] # 0)
    <3>1. CASE only = All
      BY <1>2, <3>1
    <3>2. CASE only = None
      BY <1>2, <1>3, <2>1, <3>2
    <3>3. QED
      BY <3>1, <3>2
  <2>3. (n \in c1.force => n \in c2.force) /\ (n \in c2.delete => n \in c1.delete \/ n \in c2.force)
    BY DEF with_importers
  <2>4. QED
    BY <2>2, <2>3
<1>7. ASSUME NEW n \in Name, all[n] # 0, n \notin c.delete
      PROVE  files[n] = object[<<n, all[n]>>].version
  <2>1. n \notin c1.delete
    BY <1>4, <1>7
  <2>2. CASE only = All
    BY <1>2, <1>3, <1>7, <2>1, <2>2
  <2>3. CASE only = None
    BY <1>2, <1>3, <1>7, <2>1, <2>3
  <2>4. QED
    BY <2>2, <2>3
<1>8. QED
  BY <1>5, <1>6, <1>7

\* The files are read and contexts deleted.
LEMMA ReadDeletesStep ==
  ASSUME ReloadInv, NEW p \in Process, Read(p),
         ~(proc[p].only \in Name /\ proc[p].all[proc[p].only] = 0 /\ disk[proc[p].only] = 0)
  PROVE  ReloadInv'
<1>a. PICK c1, c2, c, gone, S :
        /\ c1 = first_choice(proc[p].only, proc[p].all, disk)
        /\ c2 = with_importers(c1, proc[p].all, disk) /\ c = with_packages(c2, disk)
        /\ gone = {x \in c.delete : proc[p].all[x] # 0}
        /\ S = {<<x, proc[p].all[x]>> : x \in gone} \cup
               {o \in InTable(contexts) : o[1] \in gone}
        /\ stopAll(S)
        /\ contexts' = [x \in Name |-> IF x \in gone THEN 0 ELSE contexts[x]]
        /\ SetProc(p, [proc[p] EXCEPT !.pc = "syncing", !.files = disk,
             !.waits = acting' \cup killed, !.todo = c.force \cap Autoload])
        /\ removed' = removed \cup (Name \ Present(disk))
        /\ dragged' = dragged \cup
             {x \in gone \ c1.delete :
                \A m \in {x} \cup reach(x) : Root[m] \notin will_reload(c1, disk)}
  <2> DEFINE d1 == first_choice(proc[p].only, proc[p].all, disk)
             d2 == with_importers(d1, proc[p].all, disk)
             d == with_packages(d2, disk)
             lost == {x \in d.delete : proc[p].all[x] # 0}
             T == {<<x, proc[p].all[x]>> : x \in lost} \cup {o \in InTable(contexts) : o[1] \in lost}
  <2>1. /\ stopAll(T)
        /\ contexts' = [x \in Name |-> IF x \in lost THEN 0 ELSE contexts[x]]
        /\ SetProc(p, [proc[p] EXCEPT !.pc = "syncing", !.files = disk,
             !.waits = acting' \cup killed, !.todo = d.force \cap Autoload])
        /\ removed' = removed \cup (Name \ Present(disk))
        /\ dragged' = dragged \cup
             {x \in lost \ d1.delete :
                \A m \in {x} \cup reach(x) : Root[m] \notin will_reload(d1, disk)}
    BY DEF Read
  <2> WITNESS d1, d2, d, lost, T
  <2>2. QED
    BY <2>1
<1>b. /\ proc[p].pc = "reading" /\ proc[p].only # Unload
      /\ UNCHANGED <<disk, edits, made, killed, overlap, overwritten>>
  BY DEF Read
<1>d. /\ c1 = first_choice(proc[p].only, proc[p].all, disk)
      /\ c2 = with_importers(c1, proc[p].all, disk) /\ c = with_packages(c2, disk)
  BY ONLY <1>a
<1>e. \A x : x \in gone <=> x \in c.delete /\ proc[p].all[x] # 0
  BY ONLY <1>a
<1>f. S = {<<x, proc[p].all[x]>> : x \in gone} \cup {o \in InTable(contexts) : o[1] \in gone}
  BY ONLY <1>a
<1>g. /\ contexts' = [x \in Name |-> IF x \in gone THEN 0 ELSE contexts[x]]
      /\ \A x \in Name : contexts'[x] = IF x \in gone THEN 0 ELSE contexts[x]
  BY ONLY <1>a
<1>h. /\ \A x : x \in removed' <=> x \in removed \/ (x \in Name /\ x \notin Present(disk))
      /\ \A x : x \in dragged' <=>
           \/ x \in dragged
           \/ /\ x \in gone /\ x \notin c1.delete
              /\ \A m \in {x} \cup reach(x) : Root[m] \notin will_reload(c1, disk)
  BY ONLY <1>a
<1>i. /\ stopAll(S)
      /\ SetProc(p, [proc[p] EXCEPT !.pc = "syncing", !.files = disk,
           !.waits = acting' \cup killed, !.todo = c.force \cap Autoload])
  BY ONLY <1>a
<1>c. gone \subseteq Name
  <2>1. proc[p].only \in Name \cup {None, All} /\ None # All /\ {None, All} \cap Name = {}
    BY <1>b, UnderwayIs, ReloadAssumption DEF Proc, ReloadAssumption, ReloadInv
  <2>2. c1.delete \subseteq Name
    <3>1. CASE proc[p].only = All
      BY <1>d, <2>1, <3>1 DEF first_choice
    <3>2. CASE proc[p].only = None
      BY <1>d, <2>1, <3>2 DEF first_choice
    <3>3. CASE proc[p].only \in Name
      BY <1>d, <2>1, <3>3 DEF first_choice
    <3>4. QED
      BY <2>1, <3>1, <3>2, <3>3
  <2>3. c2.delete \subseteq Name
    BY <1>d, <2>2 DEF with_importers
  <2>4. c.delete \subseteq Name
    BY <1>d, <2>3 DEF with_packages, Present
  <2>5. QED
    BY <1>e, <2>4
<1> DEFINE todo == c.force \cap Autoload
           waits == acting' \cup killed
           r == [proc[p] EXCEPT !.pc = "syncing", !.files = disk, !.waits = waits, !.todo = todo]
<1>1. /\ TypeInv /\ proc[p] \in Proc /\ killed \subseteq Context /\ disk \in [Name -> Nat]
      /\ contexts \in [Name -> 0..MaxLoads] /\ removed \subseteq Name /\ dragged \subseteq Name
      /\ object \in [Context -> Object] /\ MaxLoads \in Nat \ {0}
      /\ proc[p].all \in [Name -> 0..MaxLoads]
  BY UnderwayIs, ReloadAssumption DEF ReloadInv, TypeInv, ReloadAssumption, Proc
<1>2. proc[p].only \in Name \cup {None, All}
  BY <1>1, <1>b DEF Proc
<1>3. /\ S \subseteq Context
      /\ \A o \in S : o[1] \in gone /\ o[2] \in {proc[p].all[o[1]], contexts[o[1]]}
      /\ \A o \in InTable(contexts) : o[1] \in gone => o \in S
      /\ \A o \in Context : o \in InTable(contexts) <=> contexts[o[1]] = o[2]
  <2>1. /\ InTable(contexts) \subseteq Context
        /\ \A o \in Context : o \in InTable(contexts) <=> contexts[o[1]] = o[2]
    BY <1>1, InTableIs
  <2>2. ASSUME NEW x \in gone
        PROVE  <<x, proc[p].all[x]>> \in Context
    <3>1. x \in Name /\ proc[p].all[x] # 0 /\ proc[p].all[x] \in 0..MaxLoads
      BY <1>1, <1>c, <1>e
    <3>2. proc[p].all[x] \in 1..MaxLoads
      BY <1>1, <3>1
    <3>3. QED
      BY <3>1, <3>2 DEF Context
  <2>3. S \subseteq Context
    BY <1>f, <2>1, <2>2
  <2>4. ASSUME NEW o \in S
        PROVE  o[1] \in gone /\ o[2] \in {proc[p].all[o[1]], contexts[o[1]]}
    <3>1. CASE o \in InTable(contexts) /\ o[1] \in gone
      BY <2>1, <3>1
    <3>2. CASE o \in {<<x, proc[p].all[x]>> : x \in gone}
      BY <3>2
    <3>3. QED
      BY <1>f, <3>1, <3>2
  <2>5. \A o \in InTable(contexts) : o[1] \in gone => o \in S
    BY <1>f
  <2>6. QED
    BY <2>1, <2>3, <2>4, <2>5
<1>4. /\ object' \in [Context -> Object] /\ acting' \subseteq Context
      /\ \A o \in Context :
           /\ object'[o].version = object[o].version
           /\ object'[o].module = object[o].module
           /\ object'[o].imports = object[o].imports
           /\ object'[o].stopped <=> object[o].stopped \/ o \in S
  BY <1>1, <1>3, <1>i, StopAllIs
<1>5. c.force \subseteq Present(disk) /\ c1.delete \subseteq c2.delete /\ c2.delete \subseteq c.delete
  <2>1. /\ c1 = first_choice(proc[p].only, proc[p].all, disk)
        /\ c2 = with_importers(c1, proc[p].all, disk) /\ c = with_packages(c2, disk)
    BY <1>d
  <2>2. QED
    BY ONLY <1>2, <2>1, ForcePresent
<1>6. todo \subseteq Autoload /\ todo \subseteq Present(disk) /\ waits \subseteq Context
      /\ todo = c.force \cap Autoload
  BY <1>1, <1>4, <1>5
<1>7. SetProc(p, r)
  BY <1>i
<1> HIDE DEF todo, waits
<1>8. /\ r \in Proc /\ r.pc = "syncing" /\ r.stack = proc[p].stack /\ r.only = proc[p].only
      /\ r.files = disk /\ r.all = proc[p].all /\ r.todo = todo
  BY <1>1, <1>6 DEF Proc, Places
<1> HIDE DEF r
<1>9. /\ proc' \in [Process -> Proc] /\ proc'[p] = r
      /\ \A q \in Process : q # p => proc'[q] = proc[q]
  BY <1>1, <1>7, <1>8, ProcSet DEF TypeInv
<1>10. proc[p].stack = <<>>
  BY <1>b DEF ReloadInv, Stacks, stackOf
<1>11. ~overlap => /\ \A q \in Process : q # p => ~Active(q) /\ ~Whole(q)
                   /\ proc[p].all = contexts
  BY <1>b DEF ReloadInv, Alone, Active, Whole, Known
<1>12. ~overlap => \A q \in Process : \A o : ~Underway(q, o)'
  <2> SUFFICES ASSUME ~overlap, NEW q \in Process
               PROVE  proc'[q].stack = <<>>
    BY DEF Underway
  <2>1. CASE q = p
    BY <1>8, <1>9, <1>10, <2>1
  <2>2. CASE q # p
    BY <1>9, <1>11, <2>2 DEF ReloadInv, Stacks, stackOf, Active
  <2>3. QED
    BY <2>1, <2>2
<1>13. \A o \in Context : /\ o[1] \in Name /\ o[2] \in Nat /\ o[2] # 0 /\ o = <<o[1], o[2]>>
                          /\ o \in InTable(contexts)' <=>
                               o \in InTable(contexts) /\ o[1] \notin gone
  <2>1. \A o \in Context : o[1] \in Name /\ o[2] \in Nat /\ o[2] # 0 /\ o = <<o[1], o[2]>>
    BY <1>1 DEF Context
  <2>2. InTable(contexts)' = InTable(contexts') /\ contexts' \in [Name -> 0..MaxLoads]
    BY <1>1, <1>g DEF InTable
  <2>3. \A o \in Context : o \in InTable(contexts') <=> contexts'[o[1]] = o[2]
    BY <2>2, InTableIs
  <2>4. \A x \in Name : contexts'[x] = IF x \in gone THEN 0 ELSE contexts[x]
    BY <1>g
  <2> SUFFICES ASSUME NEW o \in Context
               PROVE  o \in InTable(contexts') <=> o \in InTable(contexts) /\ o[1] \notin gone
    BY <2>1, <2>2
  <2>5. CASE o[1] \in gone
    BY <2>1, <2>3, <2>4, <2>5
  <2>6. CASE o[1] \notin gone
    BY <1>3, <2>1, <2>3, <2>4, <2>6
  <2>7. QED
    BY <2>5, <2>6
<1>14. Imported'
  <2> SUFFICES ASSUME ~overlap, NEW o \in Context, Live(o)', NEW i \in object'[o].imports,
                      Stale(i)'
               PROVE  i[1] \in dragged'
    BY <1>b DEF Imported
  <2>1. o \in InTable(contexts) /\ o[1] \notin gone /\ i \in object[o].imports
    BY <1>4, <1>12, <1>13 DEF Live
  <2>2. i \in Context /\ i[1] \in Modules /\ i[1] \in Present(disk) /\ i[1] \notin removed
    <3>1. i \in Context
      BY <1>1, <2>1 DEF Object
    <3>2. QED
      BY <1>13, <1>h, <3>1 DEF Stale
  <2>3. CASE Stale(i)
    <3>1. i[1] \in dragged
      BY <2>1, <2>3 DEF ReloadInv, Imported, Live
    <3>2. QED
      BY <1>h, <3>1
  <2>4. CASE ~Stale(i)
    <3>1. i \in InTable(contexts)
      BY <2>2, <2>4 DEF Stale
    <3>2. i[1] \in gone
      BY <1>13, <2>2, <3>1 DEF Stale
    <3> DEFINE x == o[1]
               m == i[1]
    <3>3. /\ x \in Name /\ m \in Name /\ contexts[x] = o[2] /\ contexts[x] # 0
          /\ o = <<x, contexts[x]>> /\ m \in Modules /\ m \in Present(disk)
          /\ m \in c.delete /\ proc[p].all[x] # 0 /\ x \notin c2.delete
      <4>1. /\ x \in Name /\ m \in Name /\ contexts[x] = o[2] /\ contexts[x] # 0
            /\ o = <<x, contexts[x]>>
        BY <1>3, <1>13, <2>1, <2>2
      <4>2. proc[p].all[x] # 0 /\ x \notin c2.delete
        BY <1>5, <1>11, <1>e, <2>1, <4>1
      <4>3. QED
        BY <1>e, <2>2, <3>2, <4>1, <4>2
    <3> HIDE DEF x
    <3>4. m \in imports_of(x)
      BY <2>1, <3>3 DEF imports_of
    <3> HIDE DEF m
    <3>5. m \in reach(x) /\ reach(m) \subseteq reach(x)
      BY <3>3, <3>4, ReachIs
    <3>6. \A y \in reach(x) : Root[y] \notin will_reload(c1, disk)
      BY <1>d, <3>3, ImportersIs
    <3>7. m \notin c1.delete
      <4>1. m \in c1.delete => Root[m] \in will_reload(c1, disk)
        BY <3>3 DEF will_reload
      <4>2. QED
        BY <3>5, <3>6, <4>1
    <3>8. m \in dragged'
      <4>1. \A y \in {m} \cup reach(m) : Root[y] \notin will_reload(c1, disk)
        BY <3>5, <3>6
      <4>2. m \in gone
        BY <3>2 DEF m
      <4>3. QED
        BY <1>h, <3>7, <4>1, <4>2
    <3>9. QED
      BY <3>8 DEF m
  <2>5. QED
    BY <2>3, <2>4
<1>15. Fetched'
  <2> SUFFICES ASSUME ~overlap, NEW q \in Process, Whole(q)'
               PROVE  /\ \A n \in Autoload \cap Present(proc'[q].files) :
                           \/ n \in proc'[q].todo \/ contexts'[n] # 0
                           \/ \E j \in DOMAIN stackOf(q)' : stackOf(q)'[j].name = n
                      /\ \A o \in Context : o \in InTable(contexts)' \/ Underway(q, o)' =>
                           /\ object'[o].version >= proc'[q].files[o[1]]
                           /\ proc'[q].files[o[1]] = 0 => proc'[q].all[o[1]] # o[2]
    BY <1>b DEF Fetched, Present
  <2>1. q = p /\ proc[p].only \in {None, All}
    <3>1. q = p
      BY <1>9, <1>11 DEF Whole
    <3>2. QED
      BY <1>8, <1>9, <3>1 DEF Whole
  <2>2. /\ \A n \in Autoload \cap Present(disk) :
             n \in c.force \/ (proc[p].all[n] # 0 /\ n \notin c.delete)
        /\ \A n \in Name : proc[p].all[n] # 0 /\ n \notin c.delete =>
             disk[n] = object[<<n, proc[p].all[n]>>].version
    BY ONLY <1>d, <2>1, WholeChoice
  <2>3. proc[p].all = contexts /\ proc'[p].files = disk /\ proc'[p].todo = todo
        /\ proc'[p].all = contexts
    BY <1>8, <1>9, <1>11
  <2>4. ASSUME NEW n \in Autoload \cap Present(disk)
        PROVE  n \in todo \/ contexts'[n] # 0
    <3>1. n \in Name
      BY DEF Present
    <3>2. CASE n \in c.force
      BY <1>6, <3>2
    <3>3. CASE contexts[n] # 0 /\ n \notin c.delete
      BY <1>e, <1>g, <3>1, <3>3
    <3>4. QED
      BY <2>2, <2>3, <3>2, <3>3
  <2>5. ASSUME NEW o \in Context, o \in InTable(contexts)'
        PROVE  object'[o].version >= disk[o[1]] /\ (disk[o[1]] = 0 => contexts[o[1]] # o[2])
    <3>1. /\ o[1] \in Name /\ o = <<o[1], o[2]>> /\ contexts[o[1]] = o[2] /\ o[2] # 0
          /\ o[1] \notin gone
      BY <1>3, <1>13, <2>5
    <3>2. disk[o[1]] = object[o].version
      BY <1>e, <2>2, <2>3, <3>1
    <3>3. o[2] <= made[o[1]]
      BY <3>1 DEF ReloadInv, Numbered
    <3>4. object[o].version # 0 /\ object[o].version \in Nat
      BY <1>1, <3>3 DEF ReloadInv, Versions, Object
    <3>5. QED
      BY <1>4, <3>2, <3>4
  <2>6. QED
    BY <1>12, <2>1, <2>3, <2>4, <2>5
<1>16. r.todo \subseteq Present(r.files)
  BY <1>6, <1>8
<1>17. r.stack = <<>> /\ r.pc \in {"syncing", "loading"} /\ r.files \in {proc[p].files, disk}
  BY <1>8, <1>10
<1>18. gone \in SUBSET Name /\ S \in SUBSET Context
  BY <1>3, <1>c
<1>19. removed' \subseteq Name /\ dragged' \subseteq Name
  BY <1>1, <1>c, <1>h
<1>20. /\ ReloadInv /\ proc[p].pc = "reading"
       /\ contexts' \in [Name -> 0..MaxLoads]
       /\ \A n \in gone : contexts'[n] = 0
       /\ \A n \in Name \ gone : contexts'[n] = contexts[n]
       /\ UNCHANGED <<disk, edits, made, killed, overlap, overwritten>>
  BY <1>1, <1>b, <1>c, <1>g
<1>21. QED
  BY ONLY <1>3, <1>4, <1>7, <1>8, <1>14, <1>15, <1>16, <1>17, <1>18, <1>19, <1>20, DropStep

\* The files are read.
LEMMA ReadStep ==
  ASSUME ReloadInv, NEW p \in Process, Read(p)
  PROVE  ReloadInv'
<1> DEFINE fails == proc[p].only \in Name /\ proc[p].all[proc[p].only] = 0 /\ disk[proc[p].only] = 0
<1>1. /\ proc[p].pc = "reading" /\ proc[p].only # Unload
      /\ UNCHANGED <<disk, edits, made, killed, overlap, overwritten>>
  BY DEF Read
<1>2. /\ TypeInv /\ proc[p] \in Proc /\ disk \in [Name -> Nat]
      /\ contexts \in [Name -> 0..MaxLoads] /\ removed \subseteq Name /\ dragged \subseteq Name
      /\ object \in [Context -> Object] /\ acting \subseteq Context
  BY UnderwayIs DEF ReloadInv, TypeInv
<1>3. CASE fails
  <2> DEFINE r == [proc[p] EXCEPT !.pc = "loading", !.files = disk]
  <2>1. SetProc(p, r) /\ UNCHANGED <<contexts, object, acting, removed, dragged>>
    BY <1>3 DEF Read
  <2>2. /\ r \in Proc /\ r.pc = "loading" /\ r.stack = proc[p].stack /\ r.only = proc[p].only
        /\ r.files = disk /\ r.all = proc[p].all /\ r.todo = proc[p].todo
    BY <1>2 DEF Proc, Places
  <2> HIDE DEF r
  <2>3. /\ proc' \in [Process -> Proc] /\ proc'[p] = r
        /\ \A q \in Process : q # p => proc'[q] = proc[q]
    BY <1>2, <2>1, <2>2, ProcSet DEF TypeInv
  <2>4. proc[p].stack = <<>> /\ proc[p].todo = {}
    BY <1>1 DEF ReloadInv, Stacks, Versions, stackOf
  <2>5. \A q \in Process : \A o : Underway(q, o)' <=> Underway(q, o)
    BY <2>2, <2>3 DEF Underway
  <2>6. Imported'
    <3>1. \A o \in Context : Live(o)' => Live(o)
      BY <2>1, <2>5 DEF Live, InTable
    <3>2. \A i : Stale(i)' <=> Stale(i)
      BY <2>1 DEF Stale, InTable
    <3>3. QED
      BY <1>1, <2>1, <3>1, <3>2 DEF ReloadInv, Imported
  <2>7. Fetched'
    <3>1. proc[p].only \notin {None, All}
      BY <1>3, ReloadAssumption DEF ReloadAssumption
    <3>2. ~overlap => \A q \in Process : q # p => ~Active(q)
      BY <1>1 DEF ReloadInv, Alone, Active
    <3>3. ~overlap' => \A q \in Process : ~Whole(q)'
      BY <1>1, <2>2, <2>3, <3>1, <3>2 DEF Whole, Active
    <3>4. QED
      BY <3>3 DEF Fetched
  <2> DEFINE gone == {}
             S == {}
  <2>8. /\ contexts' \in [Name -> 0..MaxLoads] /\ \A n \in gone : contexts'[n] = 0
        /\ \A n \in Name \ gone : contexts'[n] = contexts[n]
        /\ object' \in [Context -> Object] /\ acting' \subseteq Context
        /\ removed' \subseteq Name /\ dragged' \subseteq Name
    BY <1>2, <2>1
  <2>9. r.todo \subseteq Present(r.files) /\ r.stack = <<>> /\ r.pc \in {"syncing", "loading"}
        /\ r.files \in {proc[p].files, disk}
    BY <2>2, <2>4
  <2>10. \A o \in Context :
           /\ object'[o].version = object[o].version
           /\ object'[o].module = object[o].module
           /\ object'[o].imports = object[o].imports
           /\ object'[o].stopped <=> object[o].stopped \/ o \in S
    BY <2>1
  <2>11. /\ gone \in SUBSET Name /\ S \in SUBSET Context
         /\ \A o \in S : o[1] \in gone /\ o[2] \in {proc[p].all[o[1]], contexts[o[1]]}
         /\ \A o \in InTable(contexts) : o[1] \in gone => o \in S
    OBVIOUS
  <2> HIDE DEF gone, S
  <2>12. ReloadInv
    OBVIOUS
  <2>13. QED
    BY ONLY <1>1, <2>1, <2>2, <2>6, <2>7, <2>8, <2>9, <2>10, <2>11, <2>12, DropStep
<1>4. CASE ~fails
  BY <1>4, ReadDeletesStep
<1>5. QED
  BY <1>3, <1>4

-----------------------------------------------------------------------------
(* The invariant *)

\* It holds at first.
LEMMA InitHolds == Init => ReloadInv
<1> SUFFICES ASSUME Init
             PROVE  ReloadInv
  OBVIOUS
<1>1. /\ MaxLoads \in Nat \ {0} /\ Imports \in [Name -> Seq(Name)] /\ Autoload \subseteq Name
      /\ Modules \subseteq Name \ Autoload
  BY ReloadAssumption DEF ReloadAssumption
<1>2. 1 \in 1..MaxLoads /\ 1 \in 0..MaxLoads /\ 0 \in 0..MaxLoads
  BY <1>1
<1>3. ASSUME NEW p \in Process
      PROVE  /\ proc[p] = idleProc /\ proc[p].pc = "idle" /\ proc[p].stack = <<>>
             /\ proc[p].todo = {} /\ \A n \in Name : proc[p].files[n] = 0 /\ proc[p].all[n] = 0
  BY DEF Init, idleProc
<1>4. idleProc \in Proc
  <2> DEFINE zero == [n \in Name |-> 0]
  <2>1. /\ idleProc = [pc |-> "idle", only |-> None, all |-> zero, files |-> zero, todo |-> {},
                       stack |-> <<>>, waits |-> {}, failed |-> FALSE]
        /\ zero \in [Name -> 0..MaxLoads] /\ zero \in [Name -> Nat]
        /\ <<>> \in Seq(Frame) /\ "idle" \in Places
    BY <1>2 DEF idleProc, Places
  <2> HIDE DEF zero
  <2>2. QED
    BY <2>1 DEF Proc
<1>5. ASSUME NEW o \in Context
      PROVE  /\ object[o] \in Object /\ object[o].version = 1 /\ ~object[o].stopped
             /\ object[o].module = (o[1] \notin Autoload)
             /\ \A i \in object[o].imports : i \in Context /\ i[2] = 1
  <2> DEFINE its == {<<Imports[o[1]][i], 1>> : i \in DOMAIN Imports[o[1]]}
  <2>1. object[o] = [version |-> 1, auto_start |-> TRUE, stopped |-> FALSE,
                     module |-> o[1] \notin Autoload, imports |-> its]
    BY DEF Init
  <2>2. ASSUME NEW i \in its
        PROVE  i \in Context /\ i[2] = 1
    <3>1. Imports[o[1]] \in Seq(Name)
      BY <1>1 DEF Context
    <3>2. QED
      BY <1>2, <3>1 DEF Context
  <2> HIDE DEF its
  <2>3. its \subseteq Context
    BY <2>2
  <2>4. QED
    BY <2>1, <2>2, <2>3 DEF Object
<1>6. /\ contexts \in [Name -> 0..MaxLoads] /\ made \in [Name -> 1..MaxLoads]
      /\ \A n \in Name : contexts[n] = 1 /\ made[n] = 1 /\ disk[n] = 1
      /\ edits = 0 /\ ~overlap /\ overwritten = {}
  BY <1>2 DEF Init
<1>7. TypeInv
  <2>1. object \in [Context -> Object]
    BY <1>5 DEF Init
  <2>2. proc \in [Process -> Proc] /\ disk \in [Name -> Nat]
    BY <1>4 DEF Init
  <2>3. /\ acting = {} /\ killed = {} /\ overlap = FALSE /\ overwritten = {}
        /\ removed = {} /\ dragged = {}
    BY DEF Init
  <2>4. edits \in Nat /\ overlap \in BOOLEAN
    BY <1>6, <2>3
  <2>5. QED
    BY <1>6, <2>1, <2>2, <2>3, <2>4, Zenon DEF TypeInv
<1>8. \A p \in Process : DOMAIN stackOf(p) = {} /\ stackOf(p) = <<>>
  BY <1>3 DEF stackOf
<1>9. \A p \in Process : \A o : ~Underway(p, o)
  BY <1>3 DEF Underway
<1>10. \A o \in Context : o[1] \in Name /\ o[2] \in 1..MaxLoads
                          /\ (o \in InTable(contexts) <=> o[2] = 1)
  BY <1>6, InTableIs DEF Context
<1>11. Stacks /\ OneLoad /\ Unlisted /\ Nested
  <2>1. Stacks
    BY <1>3, <1>8 DEF Stacks
  <2>2. OneLoad /\ Unlisted /\ Nested
    BY <1>8 DEF OneLoad, Unlisted, Nested
  <2>3. QED
    BY <2>1, <2>2
<1>12. Numbered /\ Fresh
  <2>1. Numbered
    BY <1>3, <1>6 DEF Numbered
  <2>2. Fresh
    BY <1>9 DEF Fresh
  <2>3. QED
    BY <2>1, <2>2
<1>13. Runs /\ NoOrphan /\ Replaced
  <2>1. InTable(contexts) \subseteq Context
    BY <1>6, InTableIs
  <2>2. Runs
    BY <1>5, <2>1 DEF Runs
  <2>3. ASSUME NEW o \in Context, o[2] <= made[o[1]]
        PROVE  o \in InTable(contexts) /\ ~object[o].stopped
    BY <1>1, <1>5, <1>6, <1>10, <2>3
  <2>4. NoOrphan
    BY <2>3 DEF NoOrphan
  <2>5. QED
    BY <1>6, <2>2, <2>4 DEF Replaced
<1>14. Alone /\ Known /\ ByImport /\ Fetched
  <2>1. Alone /\ Known /\ Fetched
    BY <1>3 DEF Alone, Active, Known, Fetched, Whole
  <2>2. ByImport
    BY <1>1, <1>3, <1>5 DEF ByImport
  <2>3. QED
    BY <2>1, <2>2
<1>15. Imported
  <2>1. \A o \in Context : \A i \in object[o].imports : ~Stale(i)
    BY <1>5, <1>10 DEF Stale
  <2>2. QED
    BY <2>1 DEF Imported
<1>16. Versions
  BY <1>3, <1>5, <1>6 DEF Versions
<1>17. QED
  BY <1>7, <1>11, <1>12, <1>13, <1>14, <1>15, <1>16 DEF ReloadInv

\* Each step preserves it.
LEMMA NextStep == ReloadInv /\ [Next]_vars => ReloadInv'
<1> SUFFICES ASSUME ReloadInv, [Next]_vars
             PROVE  ReloadInv'
  OBVIOUS
<1>1. TypeInv /\ acting \subseteq Context /\ killed \subseteq Context
  BY DEF ReloadInv, TypeInv
<1>2. ASSUME NEW p \in Process, Steps(p)
      PROVE  ReloadInv'
  BY <1>2, ReadStep, UnloadAllStep, SyncedStep, LoadNextStep, ImportLoadedStep, SearchStep,
     ImportFoundStep, LoadedStep, LoadRaisesStep, FinishStep DEF Steps
<1>3. ASSUME NEW p \in Process, Watchdog(p)
      PROVE  ReloadInv'
  BY <1>3, BeginStep DEF Watchdog
<1>4. ASSUME NEW p \in Process, NEW only \in Calls, Begin(p, only)
      PROVE  ReloadInv'
  BY <1>4, BeginStep, ReloadAssumption DEF ReloadAssumption
<1>5. ASSUME NEW n \in Name, Edit(n)
      PROVE  ReloadInv'
  BY <1>5, EditStep
<1>6. ASSUME NEW o \in Context, ActionEnds(o)
      PROVE  ReloadInv'
  BY <1>1, <1>6, ActionStep DEF ActionEnds
<1>7. ASSUME NEW o \in Context, ActionKilled(o)
      PROVE  ReloadInv'
  BY <1>1, <1>7, ActionStep DEF ActionKilled
<1>8. CASE UNCHANGED vars
  BY <1>1, <1>8, ActionStep DEF vars, history
<1>9. QED
  BY <1>2, <1>3, <1>4, <1>5, <1>6, <1>7, <1>8 DEF Next

\* The invariant holds in every state, for any names, imports and packages.
THEOREM ReloadInvariant == Spec => []ReloadInv
<1>1. QED
  BY InitHolds, NextStep, PTL DEF Spec

\* Whatever reloads overlap, a context that is not stopped is in the table or on
\* the way to it, or its place was taken by another load of its name
\* (GlobalContextMgr.set, delete, and load_file of global_ctx.py).
THEOREM NothingLost == Spec => []NoOrphan
<1>1. ReloadInv => NoOrphan
  BY DEF ReloadInv
<1>2. QED
  BY <1>1, ReloadInvariant, PTL

\* A table context's imports are no stale modules once no reload is under way,
\* but for what went along with its package only (load_scripts of __init__.py).
THEOREM NoStaleImports == Spec => []FreshImports
<1>1. ReloadInv => FreshImports
  <2> SUFFICES ASSUME ReloadInv, Quiet, NEW o \in InTable(contexts),
                      NEW i \in object[o].imports, Stale(i)
               PROVE  i[1] \in dragged
    BY DEF FreshImports
  <2>1. o \in Context
    BY InTableIs DEF ReloadInv, TypeInv
  <2>2. QED
    BY <2>1 DEF ReloadInv, Imported, Live, Quiet
<1>2. QED
  BY <1>1, ReloadInvariant, PTL

\* No step but Finish ends a reload.
LEMMA OnlyFinish ==
  ASSUME TypeInv, [Next]_vars, NEW p \in Process,
         proc[p].pc = "loading", proc'[p].pc = "done"
  PROVE  proc[p].stack = <<>> /\ proc[p].todo = {}
<1>1. proc \in [Process -> Proc] /\ proc[p] \in Proc
  BY UnderwayIs DEF TypeInv
<1>2. ASSUME NEW q \in Process, NEW r, SetProc(q, r), q = p => r.pc # "done"
      PROVE  FALSE
  <2>1. CASE q = p
    BY <1>1, <1>2, <2>1 DEF SetProc
  <2>2. CASE q # p
    <3>1. proc'[p] = proc[p]
      BY <1>1, <1>2, <2>2 DEF SetProc
    <3>2. QED
      BY <3>1
  <2>3. QED
    BY <2>1, <2>2
<1>3. ASSUME NEW q \in Process, q # p, Steps(q)
      PROVE  FALSE
  <2>1. \E r : SetProc(q, r)
    <3>1. CASE Read(q)
      BY <3>1, Zenon DEF Read
    <3>2. CASE UnloadAll(q)
      BY <3>2, Zenon DEF UnloadAll
    <3>3. CASE Synced(q) \/ ImportSearch(q) \/ Finish(q) \/ LoadRaises(q)
      BY <3>3, Zenon DEF Synced, ImportSearch, Finish, LoadRaises
    <3>4. CASE LoadNext(q) \/ ImportFound(q)
      BY <3>4, Zenon DEF LoadNext, ImportFound, load_file
    <3>5. CASE ImportLoaded(q) \/ Loaded(q)
      BY <3>5, Zenon DEF ImportLoaded, Loaded
    <3>6. QED
      BY <1>3, <3>1, <3>2, <3>3, <3>4, <3>5 DEF Steps
  <2>2. QED
    BY <1>2, <1>3, <2>1
<1>4. CASE Steps(p)
  <2>1. ASSUME Synced(p) \/ ImportSearch(p) \/ LoadRaises(p)
        PROVE  FALSE
    <3>1. CASE ImportSearch(p)
      BY <1>1, <1>2, <3>1 DEF ImportSearch, Proc
    <3>2. CASE LoadRaises(p)
      BY <1>1, <1>2, <3>2 DEF LoadRaises, Proc
    <3>3. QED
      BY <2>1, <3>1, <3>2 DEF Synced
  <2>2. ASSUME LoadNext(p)
        PROVE  FALSE
    <3>1. PICK n \in proc[p].todo : load_file(p, n, proc[p].files[n], FALSE)
      BY <2>2 DEF LoadNext
    <3>2. QED
      BY <1>1, <1>2, <3>1 DEF load_file, Proc
  <2>3. ASSUME ImportLoaded(p)
        PROVE  FALSE
    BY <1>1, <1>2, <2>3 DEF ImportLoaded, Proc
  <2>4. ASSUME Loaded(p)
        PROVE  FALSE
    <3>1. \E s : SetProc(p, [proc[p] EXCEPT !.stack = s])
      BY <2>4, Zenon DEF Loaded
    <3>2. QED
      BY <1>1, <1>2, <3>1 DEF Proc
  <2>5. ~Read(p) /\ ~UnloadAll(p) /\ ~ImportFound(p)
    BY DEF Read, UnloadAll, ImportFound
  <2>6. Finish(p)
    BY <1>4, <2>1, <2>2, <2>3, <2>4, <2>5 DEF Steps
  <2>7. QED
    BY <2>6 DEF Finish
<1>5. ASSUME NEW q \in Process, NEW only, Begin(q, only)
      PROVE  FALSE
  <2>1. SetProc(q, [proc[q] EXCEPT !.pc = "reading", !.only = only, !.all = contexts])
    BY <1>5 DEF Begin
  <2>2. q # p
    BY <1>5 DEF Begin
  <2>3. QED
    BY <1>2, <2>1, <2>2
<1>6. CASE UNCHANGED proc
  BY <1>6
<1>7. ASSUME NEW n \in Name, Edit(n)
      PROVE  FALSE
  BY <1>6, <1>7 DEF Edit
<1>8. ASSUME NEW o \in Context, ActionEnds(o) \/ ActionKilled(o)
      PROVE  FALSE
  BY <1>6, <1>8 DEF ActionEnds, ActionKilled
<1>9. CASE UNCHANGED vars
  BY <1>6, <1>9 DEF vars
<1>10. CASE Next
  BY <1>3, <1>4, <1>5, <1>7, <1>8, <1>10 DEF Next, Watchdog
<1>11. QED
  BY <1>9, <1>10

\* A reload of what has changed or of everything that overlaps with no other
\* ends with what it found on disk: each file and app that is there is loaded,
\* and nothing in the table is older (load_scripts of __init__.py).
THEOREM EndsUpToDate == Spec => UpToDate
<1> DEFINE Ends == \A p \in Process :
             (/\ proc[p].pc = "loading" /\ proc'[p].pc = "done"
              /\ ~overlap /\ ~proc[p].failed /\ proc[p].only \in {None, All}) =>
               /\ \A n \in Autoload \cap Present(proc[p].files) : contexts[n] # 0
               /\ \A o \in InTable(contexts) :
                    /\ object[o].version >= proc[p].files[o[1]]
                    /\ proc[p].files[o[1]] = 0 => proc[p].all[o[1]] # o[2]
<1>1. ReloadInv /\ [Next]_vars => Ends
  <2> SUFFICES ASSUME ReloadInv, [Next]_vars, NEW p \in Process,
                      proc[p].pc = "loading", proc'[p].pc = "done",
                      ~overlap, ~proc[p].failed, proc[p].only \in {None, All}
               PROVE  /\ \A n \in Autoload \cap Present(proc[p].files) : contexts[n] # 0
                      /\ \A o \in InTable(contexts) :
                           /\ object[o].version >= proc[p].files[o[1]]
                           /\ proc[p].files[o[1]] = 0 => proc[p].all[o[1]] # o[2]
    OBVIOUS
  <2>1. TypeInv /\ proc[p].stack = <<>> /\ proc[p].todo = {}
    BY OnlyFinish DEF ReloadInv
  <2>2. DOMAIN stackOf(p) = {} /\ Whole(p)
    BY <2>1 DEF stackOf, Whole
  <2>3. InTable(contexts) \subseteq Context
    BY <2>1, InTableIs DEF TypeInv
  <2>4. /\ \A n \in Autoload \cap Present(proc[p].files) : contexts[n] # 0
        /\ \A o \in Context : o \in InTable(contexts) =>
             /\ object[o].version >= proc[p].files[o[1]]
             /\ proc[p].files[o[1]] = 0 => proc[p].all[o[1]] # o[2]
    BY <2>1, <2>2 DEF ReloadInv, Fetched
  <2>5. QED
    BY <2>3, <2>4
<1>2. QED
  BY <1>1, ReloadInvariant, PTL DEF Spec, UpToDate
=============================================================================
