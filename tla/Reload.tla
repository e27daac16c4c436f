------------------------------- MODULE Reload -------------------------------
(***************************************************************************)
(* Loading and reloading: load_scripts and unload_scripts of __init__.py,  *)
(* GlobalContextMgr and the imports of global_ctx.py, and the waiter that  *)
(* runs shutdown triggers.  Reloads (the service, the watchdog, the config *)
(* entry) are coroutines that overlap wherever they await: while files are *)
(* read, in waiter_sync and while a script is evaluated.                   *)
(***************************************************************************)
EXTENDS Naturals, Sequences

CONSTANTS
  Name,        \* names of global contexts, each of one source file
  Place,       \* the place of each in sorted order
  Autoload,    \* files and apps; the rest is loaded by an import
  Root,        \* the package of each app or module (itself at the top of it)
  Modules,     \* names under modules.
  Imports,     \* what each source imports, in order
  Shutdown,    \* sources with a legacy shutdown trigger
  Raising,     \* sources whose evaluation may raise
  Process,     \* calls of the reload service, numbered as they begin
  None, All, Unload,  \* values of global_ctx: not given, "*"; unload all
  Calls,       \* the values given: these, and names
  MaxEdits,    \* bound: changes of files
  MaxLoads     \* bound: contexts of one name

ASSUME ReloadAssumption ==
  /\ Place \in [Name -> Nat] /\ \A m, n \in Name : Place[m] = Place[n] => m = n
  /\ Autoload \subseteq Name /\ Modules \subseteq Name \ Autoload
  /\ Root \in [Name -> Name \cup {None}]
  /\ \A n \in Autoload : Root[n] \in {n, None}
  /\ \A n \in Name : n \in Modules <=> Root[n] \in Modules
  /\ {None, All, Unload} \cap Name = {} /\ None # All /\ Unload \notin {None, All}
  /\ Calls \subseteq Name \cup {None, All, Unload}
  /\ Imports \in [Name -> Seq(Name)] /\ Shutdown \cup Raising \subseteq Name
  /\ Process \subseteq Nat /\ MaxEdits \in Nat /\ MaxLoads \in Nat \ {0}

VARIABLES
  disk,        \* version of each source file, 0 if there is none
  edits,
  contexts,    \* GlobalContextMgr: the number of a name's context, 0 if none
  made,        \* contexts made so far for each name
  object,      \* what is known of them
  proc,        \* the reloads
  acting,      \* shutdown actions handed to the waiter and not over
  killed,      \* those that were cancelled
  overlap,     \* history: two reloads were under way
  overwritten, \* history: contexts that another one took the place of
  removed,     \* history: names a reload found no file for
  dragged      \* history: names that went with their package only

vars == <<disk, edits, contexts, made, object, proc, acting, killed, overlap,
          overwritten, removed, dragged>>
history == <<overlap, overwritten, removed, dragged>>

\* A global context: its name, and which of that name it is.
Context == Name \X (1..MaxLoads)

Present(files) == {n \in Name : files[n] # 0}

\* Contexts of a table, as pairs of a name and a number.
InTable(table) == {<<n, table[n]>> : n \in {m \in Name : table[m] # 0}}

Active(p) == proc[p].pc \notin {"idle", "done"}

idleProc == [pc |-> "idle", only |-> None, all |-> [n \in Name |-> 0],
             files |-> [n \in Name |-> 0], todo |-> {}, stack |-> <<>>,
             waits |-> {}, failed |-> FALSE]

\* After start-up: everything is loaded and started.
Init ==
  /\ disk = [n \in Name |-> 1]
  /\ edits = 0
  /\ contexts = [n \in Name |-> 1]
  /\ made = [n \in Name |-> 1]
  /\ object = [o \in Context |->
       [version |-> 1, auto_start |-> TRUE, stopped |-> FALSE,
        module |-> o[1] \notin Autoload,
        imports |-> {<<Imports[o[1]][i], 1>> : i \in DOMAIN Imports[o[1]]}]]
  /\ proc = [p \in Process |-> idleProc]
  /\ acting = {}
  /\ killed = {}
  /\ overlap = FALSE
  /\ overwritten = {}
  /\ removed = {}
  /\ dragged = {}

-----------------------------------------------------------------------------
(* What load_scripts decides *)

\* Names that a context's imports lead to (import_recurse): the smallest set
\* that has its own imports and those of each member.
imports_of(n) == IF contexts[n] = 0 THEN {}
                 ELSE {i[1] : i \in object[<<n, contexts[n]>>].imports}

reach(n) ==
  LET closed == {S \in SUBSET Name : /\ imports_of(n) \subseteq S
                                     /\ \A x \in S : imports_of(x) \subseteq S}
  IN {x \in Name : \A S \in closed : x \in S}

\* Mutated form of first_choice: what has changed is deleted and not loaded.
first_choice_delete(only, all, files) ==
  LET changed == {n \in Name : all[n] # 0 /\ files[n] # object[<<n, all[n]>>].version}
      known == {n \in Name : all[n] # 0}
  IN CASE only = All -> [delete |-> known, force |-> Present(files)]
       [] only = None -> [delete |-> changed, force |-> (Autoload \cap Present(files)) \ known]
       [] only \in Name -> [delete |-> {only} \ Present(files),
                            force |-> {only} \cap Present(files)]

\* The contexts to delete and the files to load, from the call, the contexts
\* it knows and the files it has read.
first_choice(only, all, files) ==
  LET changed == {n \in Name : all[n] # 0 /\ files[n] # object[<<n, all[n]>>].version}
      known == {n \in Name : all[n] # 0}
  IN CASE only = All -> [delete |-> known, force |-> Present(files)]
       [] only = None -> [delete |-> changed,
                          force |-> Present(files) \cap
                            (changed \cup (Autoload \ known))]
       [] only \in Name -> [delete |-> {only} \ Present(files),
                            force |-> {only} \cap Present(files)]

\* Packages a file of which is loaded again.
will_reload(c, files) ==
  {Root[n] : n \in Modules \cap Present(files) \cap (c.delete \cup c.force)}

\* Mutated form of with_importers: direct imports only.
with_importers_direct(c, all, files) ==
  LET importers == {n \in Name : all[n] # 0 /\ \E m \in imports_of(n) :
                      Root[m] \in will_reload(c, files)}
  IN [delete |-> c.delete \cup importers, force |-> c.force \cup (importers \cap Present(files))]

\* Whoever imports a module that is reloaded is reloaded too.
with_importers(c, all, files) ==
  LET importers == {n \in Name : all[n] # 0 /\ \E m \in reach(n) :
                      Root[m] \in will_reload(c, files)}
  IN [delete |-> c.delete \cup importers, force |-> c.force \cup (importers \cap Present(files))]

\* A package is deleted as a whole and loaded from its top.
with_packages(c, files) ==
  LET roots == {Root[n] : n \in c.force} \ {None}
      members == {n \in Present(files) : Root[n] \in roots}
  IN [delete |-> c.delete \cup members,
      force |-> (c.force \ members) \cup {n \in members : Root[n] = n}]

\* GlobalContext.stop of a set of contexts: what was not stopped hands its
\* shutdown actions to the waiter.
stopAll(objs) ==
  /\ object' = [o \in Context |->
       IF o \in objs THEN [object[o] EXCEPT !.stopped = TRUE, !.auto_start = FALSE]
                     ELSE object[o]]
  /\ acting' = acting \cup {o \in objs : o[1] \in Shutdown /\ ~object[o].stopped}

SetProc(p, r) == proc' = [proc EXCEPT ![p] = r]

-----------------------------------------------------------------------------
(* The environment *)

\* A file is changed, created or deleted, or an app's configuration is.
Edit(n) ==
  /\ edits < MaxEdits
  /\ edits' = edits + 1
  /\ \E v \in {0, edits + 2} : v # disk[n] /\ disk' = [disk EXCEPT ![n] = v]
  /\ UNCHANGED <<contexts, made, object, proc, acting, killed, history>>

\* A shutdown action ends, or is cancelled: gather raises the CancelledError in
\* the waiter, which ends and answers nobody any more.
ActionEnds(o) ==
  /\ o \in acting
  /\ acting' = acting \ {o}
  /\ UNCHANGED <<disk, edits, contexts, made, object, proc, killed, history>>

ActionKilled(o) ==
  /\ o \in acting
  /\ acting' = acting \ {o}
  /\ killed' = killed \cup {o}
  /\ UNCHANGED <<disk, edits, contexts, made, object, proc, history>>

-----------------------------------------------------------------------------
(* load_scripts and unload_scripts *)

\* The contexts are looked up before the files are read by an executor job.
Begin(p, only) ==
  /\ proc[p].pc = "idle" /\ \A q \in Process : q < p => proc[q].pc # "idle"
  /\ SetProc(p, [proc[p] EXCEPT !.pc = "reading", !.only = only, !.all = contexts])
  /\ overlap' = (overlap \/ \E q \in Process : Active(q))
  /\ UNCHANGED <<disk, edits, contexts, made, object, acting, killed, overwritten, removed,
                 dragged>>

\* The watchdog reports the changes of a short while with one reload.
Watchdog(p) == edits > 0 /\ Begin(p, None)

\* The files are read; contexts are stopped and deleted, and waiter_sync is
\* called.  A name that is neither a file nor a context is an error.
Read(p) ==
  LET r == proc[p] IN
  /\ r.pc = "reading" /\ r.only # Unload
  /\ IF r.only \in Name /\ r.all[r.only] = 0 /\ disk[r.only] = 0
       THEN /\ SetProc(p, [r EXCEPT !.pc = "loading", !.files = disk])
            /\ UNCHANGED <<contexts, object, acting, removed, dragged>>
       ELSE \E c1 \in {first_choice(r.only, r.all, disk)} :
            \E c2 \in {with_importers(c1, r.all, disk)} :
            \E c \in {with_packages(c2, disk)} :
            \E gone \in {{x \in c.delete : r.all[x] # 0}} :
              /\ stopAll({<<x, r.all[x]>> : x \in gone} \cup
                         {o \in InTable(contexts) : o[1] \in gone})
              /\ contexts' = [x \in Name |-> IF x \in gone THEN 0 ELSE contexts[x]]
              /\ SetProc(p, [r EXCEPT !.pc = "syncing", !.files = disk,
                   !.waits = acting' \cup killed, !.todo = c.force \cap Autoload])
              /\ removed' = removed \cup (Name \ Present(disk))
              /\ dragged' = dragged \cup
                   {x \in gone \ c1.delete :
                      \A m \in {x} \cup reach(x) : Root[m] \notin will_reload(c1, disk)}
  /\ UNCHANGED <<disk, edits, made, killed, overlap, overwritten>>

\* unload_scripts, on unload of the config entry and when HASS stops.
UnloadAll(p) ==
  /\ proc[p].pc = "reading" /\ proc[p].only = Unload
  /\ stopAll(InTable(contexts))
  /\ contexts' = [n \in Name |-> 0]
  /\ SetProc(p, [proc[p] EXCEPT !.pc = "syncing", !.waits = acting' \cup killed])
  /\ UNCHANGED <<disk, edits, made, killed, history>>

\* The waiter answers once everything handed to it before is over.
Synced(p) ==
  /\ proc[p].pc = "syncing"
  /\ proc[p].waits \cap (acting \cup killed) = {}
  /\ SetProc(p, [proc[p] EXCEPT !.pc = "loading"])
  /\ UNCHANGED <<disk, edits, contexts, made, object, acting, killed, history>>

\* A load under way: the context, and the imports its evaluation has yet to do.
frame(n) == [name |-> n, k |-> made[n] + 1, left |-> Imports[n]]
contextOf(f) == <<f.name, f.k>>

newObject(version, auto_start, module) ==
  [version |-> version, auto_start |-> auto_start, stopped |-> FALSE,
   module |-> module, imports |-> {}]

\* Mutated form of load_file: the old context is left running.
load_file_over(p, n, version, auto_start) ==
  /\ made[n] < MaxLoads
  /\ made' = [made EXCEPT ![n] = @ + 1]
  /\ object' = [object EXCEPT ![contextOf(frame(n))] =
                  newObject(version, auto_start, proc[p].stack # <<>>)]
  /\ contexts' = [contexts EXCEPT ![n] = 0]
  /\ SetProc(p, [proc[p] EXCEPT !.stack = Append(@, frame(n)), !.pc = "loading",
                                !.todo = IF proc[p].stack = <<>> THEN @ \ {n} ELSE @])
  /\ UNCHANGED acting

\* GlobalContextMgr.load_file up to the evaluation: a context of that name is
\* stopped and deleted.  What an import loads is a module.
load_file(p, n, version, auto_start) ==
  LET old == {o \in InTable(contexts) : o[1] = n} IN
  /\ made[n] < MaxLoads
  /\ made' = [made EXCEPT ![n] = @ + 1]
  /\ object' = [o \in Context |->
       IF o \in old THEN [object[o] EXCEPT !.stopped = TRUE, !.auto_start = FALSE]
       ELSE IF o = contextOf(frame(n))
         THEN newObject(version, auto_start, proc[p].stack # <<>>) ELSE object[o]]
  /\ contexts' = [contexts EXCEPT ![n] = 0]
  /\ acting' = acting \cup {o \in old : n \in Shutdown /\ ~object[o].stopped}
  /\ SetProc(p, [proc[p] EXCEPT !.stack = Append(@, frame(n)), !.pc = "loading",
                                !.todo = IF proc[p].stack = <<>> THEN @ \ {n} ELSE @])

\* The next file on the list, as it was read.
LoadNext(p) ==
  /\ proc[p].pc = "loading" /\ proc[p].stack = <<>>
  /\ \E n \in proc[p].todo :
       /\ \A m \in proc[p].todo : Place[n] <= Place[m]
       /\ load_file(p, n, proc[p].files[n], FALSE)
  /\ UNCHANGED <<disk, edits, killed, history>>

top(p) == proc[p].stack[Len(proc[p].stack)]
Loading(p) == proc[p].pc = "loading" /\ proc[p].stack # <<>>
toImport(p) == Head(top(p).left)

\* The import of the topmost load is done.
imported(stack) == [stack EXCEPT ![Len(stack)].left = Tail(@)]

imports(f, o) == object' = [object EXCEPT ![contextOf(f)].imports = @ \cup {o}]

Module(m) == contexts[m] # 0 /\ object[<<m, contexts[m]>>].module

\* module_import of a module that is loaded.
ImportLoaded(p) ==
  /\ Loading(p) /\ top(p).left # <<>>
  /\ Module(toImport(p))
  /\ imports(top(p), <<toImport(p), contexts[toImport(p)]>>)
  /\ SetProc(p, [proc[p] EXCEPT !.stack = imported(@)])
  /\ UNCHANGED <<disk, edits, contexts, made, acting, killed, history>>

\* One that is not: its file is looked for and read by executor jobs.
ImportSearch(p) ==
  /\ Loading(p) /\ top(p).left # <<>>
  /\ ~Module(toImport(p))
  /\ SetProc(p, [proc[p] EXCEPT !.pc = "importing"])
  /\ UNCHANGED <<disk, edits, contexts, made, object, acting, killed, history>>

ImportFound(p) ==
  /\ proc[p].pc = "importing" /\ disk[toImport(p)] # 0
  /\ load_file(p, toImport(p), disk[toImport(p)], object[contextOf(top(p))].auto_start)
  /\ UNCHANGED <<disk, edits, killed, history>>

\* The evaluation is over and the context is entered in the table; the
\* importer's import statement goes on.
Loaded(p) ==
  LET f == top(p)
      rest == SubSeq(proc[p].stack, 1, Len(proc[p].stack) - 1)
  IN /\ Loading(p) /\ f.left = <<>>
     /\ contexts' = [contexts EXCEPT ![f.name] = f.k]
     /\ overwritten' = overwritten \cup {o \in InTable(contexts) : o[1] = f.name}
     /\ IF rest = <<>>
          THEN UNCHANGED object /\ SetProc(p, [proc[p] EXCEPT !.stack = <<>>])
          ELSE /\ imports(rest[Len(rest)], contextOf(f))
               /\ SetProc(p, [proc[p] EXCEPT !.stack = imported(rest)])
     /\ UNCHANGED <<disk, edits, made, acting, killed, overlap, removed, dragged>>

\* The evaluation raises, or there is no such module: every context on the way
\* is stopped, and the next file is loaded.
LoadRaises(p) ==
  /\ \/ Loading(p) /\ top(p).left = <<>> /\ top(p).name \in Raising
     \/ proc[p].pc = "importing" /\ disk[toImport(p)] = 0
  /\ stopAll({contextOf(proc[p].stack[i]) : i \in DOMAIN proc[p].stack})
  /\ SetProc(p, [proc[p] EXCEPT !.stack = <<>>, !.pc = "loading", !.failed = TRUE])
  /\ UNCHANGED <<disk, edits, contexts, made, killed, history>>

\* Names start_global_contexts is asked for: the given one and what is below.
Asked(only) == IF only \in {None, All} THEN Name
               ELSE {n \in Name : n = only \/ Root[n] = only}

\* start_global_contexts, the end of a reload.
Finish(p) ==
  /\ proc[p].pc = "loading" /\ proc[p].stack = <<>> /\ proc[p].todo = {}
  /\ object' = [o \in Context |->
       IF proc[p].only # Unload /\ o[1] \in Asked(proc[p].only) /\ contexts[o[1]] = o[2]
         THEN [object[o] EXCEPT !.auto_start = TRUE] ELSE object[o]]
  /\ SetProc(p, [idleProc EXCEPT !.pc = "done"])
  /\ UNCHANGED <<disk, edits, contexts, made, acting, killed, history>>

Steps(p) ==
  \/ Read(p) \/ UnloadAll(p) \/ Synced(p) \/ LoadNext(p) \/ ImportLoaded(p)
  \/ ImportSearch(p) \/ ImportFound(p) \/ Loaded(p) \/ LoadRaises(p) \/ Finish(p)

Next ==
  \/ \E p \in Process : Steps(p) \/ Watchdog(p) \/ \E only \in Calls : Begin(p, only)
  \/ \E n \in Name : Edit(n)
  \/ \E o \in Context : ActionEnds(o) \/ ActionKilled(o)

Spec == Init /\ [][Next]_vars

-----------------------------------------------------------------------------
(* Properties *)

Quiet == ~overlap /\ \A p \in Process : ~Active(p)

\* A module some context has imported and that is no longer the one of its name,
\* although its file was never found missing.
Stale(i) == i[1] \in Modules \ removed /\ i \notin InTable(contexts)

\* No stale module is left behind: what a context has imported is the module of
\* that name, as long as reloads do not overlap, unless that went only because a
\* mate of its package imports what was reloaded.
FreshImports ==
  Quiet => \A o \in InTable(contexts) : \A i \in object[o].imports :
             Stale(i) => i[1] \in dragged

\* "The entire module or app is reloaded if any of its files or imports are
\* changed, and if a module has changed, any other module, app or script that
\* imports that module directly or indirectly is reloaded too"
\* (reference.rst:191-193): nobody keeps a module that was replaced.
ImportersReloaded ==
  Quiet => \A o \in InTable(contexts) : \A i \in object[o].imports : ~Stale(i)

\* A reload of what has changed, or of everything, that overlaps with no other
\* ends with the contexts of the files it has read, in these versions or newer
\* ones that an import has found since, unless a script raised; of a file that
\* was not there, only what was loaded since is left.
UpToDate ==
  [][\A p \in Process :
       (/\ proc[p].pc = "loading" /\ proc'[p].pc = "done"
        /\ ~overlap /\ ~proc[p].failed /\ proc[p].only \in {None, All}) =>
         /\ \A n \in Autoload \cap Present(proc[p].files) : contexts[n] # 0
         /\ \A o \in InTable(contexts) :
              /\ object[o].version >= proc[p].files[o[1]]
              /\ proc[p].files[o[1]] = 0 => proc[p].all[o[1]] # o[2]]_vars

\* p is loading the context o.
Underway(p, o) == \E i \in DOMAIN proc[p].stack : contextOf(proc[p].stack[i]) = o

\* A context that is not stopped is in the table or on the way to it, and a
\* stopped one is not: nothing runs that a reload does not know of.  The one
\* exception is a context whose place was taken by another load of its name.
NoOrphan ==
  \A o \in Context : o[2] <= made[o[1]] =>
    IF object[o].stopped THEN o \notin InTable(contexts)
    ELSE \/ o \in InTable(contexts)
         \/ \E p \in Process : Underway(p, o)
         \/ o \in overwritten /\ overlap

\* The triggers of reloaded files are re-created (reference.rst:205-206, 213):
\* when no reload is under way, each context is started.
StartedAfterReload ==
  Quiet => \A o \in InTable(contexts) : object[o].auto_start
=============================================================================
