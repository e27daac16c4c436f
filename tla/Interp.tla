------------------------------ MODULE Interp ------------------------------
(***************************************************************************)
(* The interpreter of eval.py: the control flow of its statements, which   *)
(* come back as EvalReturn, EvalBreak and EvalContinue or as exceptions of *)
(* the host, and its scopes: the symbol tables of AstEval, and EvalLocalVar*)
(* cells for the variables of functions that have functions inside.        *)
(*                                                                         *)
(* "odd" and "up" are history: what was met that is known to differ from   *)
(* Python, and the table each table's function was defined in.             *)
(***************************************************************************)
EXTENDS PythonSem

CONSTANTS
  Programs,  \* sets of modules, which are sequences of statements
  Times      \* how often the external condition holds

VARIABLES program, times, phase, result

vars == <<program, times, phase, result>>

RECURSIVE aeval(_, _), ast_block(_, _), ignoring(_, _), ast_while(_, _), ast_for(_, _, _)
RECURSIVE listcomp_loop(_, _, _, _), exits(_, _, _), enters(_, _, _), eval_elt_list(_, _, _)

\* AstEval.__init__.  Tables hold values and cells; 0 is no function.
NewAstEval(more) ==
  [tables |-> <<(<<>>)>>, cells |-> <<>>, sym |-> 1, stack |-> <<>>, curr |-> 0,
   funcs |-> <<>>, out |-> <<>>, more |-> more, odd |-> {}, up |-> <<1>>]

Odd(s, what, cond) == IF cond THEN [s EXCEPT !.odd = @ \cup {what}] ELSE s

-----------------------------------------------------------------------------
(* Names *)

EvalLocalVar == [undefined |-> TRUE]
IsCell(entry) == "cell" \in DOMAIN entry
table(s) == s.tables[s.sym]
inGlobals(s, x) == s.curr # 0 /\ x \in s.funcs[s.curr].global_names

WithoutAll(f, X) == [y \in DOMAIN f \ X |-> f[y]]
Without(f, x) == WithoutAll(f, {x})

\* ast_name on load: the global declarations, the symbol table, the globals
\* unless the name is local to the function.
ast_name(x, s) ==
  LET global == s.tables[1] IN
  CASE inGlobals(s, x) ->
         IF x \notin DOMAIN global THEN Throw("NameError", s)
         ELSE Value(global[x], Odd(s, "class", IsCell(global[x])))
    [] ~inGlobals(s, x) /\ x \in DOMAIN table(s) ->
         IF ~IsCell(table(s)[x]) THEN Value(table(s)[x], s)
         ELSE IF s.cells[table(s)[x].cell] = EvalLocalVar THEN Throw("NameError", s)
         ELSE Value(s.cells[table(s)[x].cell], s)
    [] ~inGlobals(s, x) /\ x \notin DOMAIN table(s) ->
         IF x \notin DOMAIN global \/ (s.curr # 0 /\ x \in s.funcs[s.curr].local_names)
           THEN Throw("NameError", s)
           ELSE Value(global[x], Odd(s, "class", IsCell(global[x])))

\* Enters a value in a table, in its cell if it has one.
store(s, t, x, v) ==
  IF x \in DOMAIN s.tables[t] /\ IsCell(s.tables[t][x])
    THEN [s EXCEPT !.cells[s.tables[t][x].cell] = v]
    ELSE [s EXCEPT !.tables[t] = (x :> v) @@ @]

\* recurse_assign of a plain name.
recurse_assign(x, v, s) ==
  CASE x = NoName -> s
    [] x # NoName /\ inGlobals(s, x) -> [s EXCEPT !.tables[1] = (x :> v) @@ @]
    [] x # NoName /\ ~inGlobals(s, x) -> store(s, s.sym, x, v)

\* recurse_assign of a tuple: a starred name takes what the others leave.
assign_tuple(targets, v, s) ==
  LET vals == v.tuple
      got_star == IF \E i \in DOMAIN targets : targets[i].star THEN 1 ELSE 0
      star_len == Len(vals) - Len(targets) + 1
      step(c, t) ==
        IF t.star THEN [idx |-> c.idx + star_len, s |->
               recurse_assign(t.x, [list |-> SubSeq(vals, c.idx + 1, c.idx + star_len)], c.s)]
             ELSE [idx |-> c.idx + 1, s |-> recurse_assign(t.x, vals[c.idx + 1], c.s)]
  IN CASE "tuple" \notin DOMAIN v -> Throw("TypeError", s)
       [] "tuple" \in DOMAIN v /\ \/ Len(targets) > Len(vals) + got_star
                                  \/ Len(targets) < Len(vals) /\ got_star = 0 ->
            Throw("ValueError", s)
       [] OTHER -> Done(FoldLeft(step, [idx |-> 0, s |-> s], targets).s)

ast_delete(x, s) ==
  CASE inGlobals(s, x) ->
         Done([Odd(s, "del", x \notin DOMAIN s.tables[1]) EXCEPT
                 !.tables[1] = Without(@, x)])
    [] ~inGlobals(s, x) /\ x \notin DOMAIN table(s) -> Throw("NameError", s)
    [] ~inGlobals(s, x) /\ x \in DOMAIN table(s) ->
         IF ~IsCell(table(s)[x]) THEN Done([s EXCEPT !.tables[s.sym] = Without(@, x)])
         ELSE IF s.cells[table(s)[x].cell] = EvalLocalVar THEN Throw("NameError", s)
         ELSE Done([s EXCEPT !.cells[table(s)[x].cell] = EvalLocalVar])

\* get_names_set: the names a statement mentions and those it makes local.
RECURSIVE names(_), locals(_)
get_target_names(n) ==
  CASE n.type \in {"assign", "aug", "named", "for", "comp", "del", "target"} -> {n.x}
    [] n.type \in {"item", "handler"} -> {n.x} \ {NoName}
    [] OTHER -> {}
AllOf(f(_), ns) == UNION {f(ns[i]) : i \in DOMAIN ns}
locals(n) ==
  IF n.type \in {"def", "class"} THEN {n.x}
  ELSE get_target_names(n) \cup AllOf(locals, Kids(n))
names(n) ==
  CASE n.type = "name" -> {n.x}
    [] n.type \in {"def", "class"} ->
         {n.x} \cup (AllOf(names, n.body) \ (AllOf(locals, n.body) \cup Declared("global", n.body)))
    [] OTHER -> get_target_names(n) \cup AllOf(names, Kids(n))

RECURSIVE check_for_closure(_)
check_for_closure(n) ==
  n.type \in {"def", "class"} \/ \E i \in DOMAIN Kids(n) : check_for_closure(Kids(n)[i])

hasCell(s, t, x) == x \in DOMAIN s.tables[t] /\ IsCell(s.tables[t][x])

\* The innermost table on the stack that has a cell for the name, 0 if none.
binding(s, x, nonlocal) ==
  LET seen == SubSeq(s.stack, IF nonlocal THEN 2 ELSE 1, Len(s.stack)) \o <<s.sym>>
      hits == {i \in DOMAIN seen : hasCell(s, seen[i], x)}
  IN IF hits = {} THEN 0 ELSE seen[CHOOSE i \in hits : \A j \in hits : j <= i]

\* The innermost one around the text of the function.
RECURSIVE lexical(_, _, _)
lexical(s, t, x) ==
  IF t = 1 THEN 0 ELSE IF hasCell(s, t, x) THEN t ELSE lexical(s, s.up[t], x)

\* EvalFunc.__init__ and resolve_nonlocals: the local variables become cells
\* if there is a function inside (0: a new one in each call), the free ones
\* are the cells found now.
resolve_nonlocals(n, s) ==
  LET params == ParamNames(n.params)
      nonlocal == Declared("nonlocal", n.body)
      local_names == params \cup AllOf(locals, n.body)
      has_closure == \E i \in DOMAIN n.body : check_for_closure(n.body[i])
      own == local_names \ nonlocal
      free == (AllOf(names, n.body) \cup nonlocal) \ (own \cup Declared("global", n.body))
      found == {x \in free : binding(s, x, x \in nonlocal) # 0}
      cells == (IF has_closure THEN own \ Declared("global", n.body) ELSE {}) \cup found
  IN [node |-> n, local_names |-> local_names, global_names |-> {}, home |-> s.sym,
      unbound |-> {x \in nonlocal \ found : ast_name(x, s).flow # "next"},
      dynamic |-> \E x \in free : binding(s, x, x \in nonlocal) # lexical(s, s.sym, x),
      local_sym_table |-> [x \in cells |->
         IF x \in own THEN 0 ELSE s.tables[binding(s, x, x \in nonlocal)][x].cell]]

-----------------------------------------------------------------------------
(* Functions and classes *)

\* The defaults of the arguments, then those of the keyword-only ones.
eval_defaults(n, s) ==
  Then(eval_elt_list(Defaults(n.params), <<>>, s),
       LAMBDA vs, t : Value(Mapping(Defaulted(n.params), vs), t))

\* ast_functiondef, without decorators.
ast_functiondef(n, s0) ==
  Then(eval_defaults(n, s0), LAMBDA defaults, s :
    LET f == [defaults |-> defaults] @@ resolve_nonlocals(n, s)
        s1 == Odd(Odd([s EXCEPT !.funcs = Append(@, f)], "dynamic", f.dynamic),
                  "comp", AllOf(locals, n.body) # Bound(n.body))
    IN IF f.unbound # {} THEN Throw("SyntaxError", s)
       ELSE Done(store(s1, IF inGlobals(s, n.x) THEN 1 ELSE s.sym, n.x,
                       [fun |-> Len(s1.funcs)])))

\* Keyword arguments of triggers, which any function takes.
TRIGGER_KWARGS == {"value"}

\* EvalFunc.call: the arguments of a call, or a TypeError.
bind(f, args, kw) ==
  LET d == f.node.params
      params == d.posonly \o d.args
      kwonly == {d.kwonly[i][1] : i \in DOMAIN d.kwonly}
      rest == WithoutAll(kw, ToSet(params) \cup kwonly)
      given(i) == CASE i <= Len(args) -> params[i] \notin DOMAIN kw
                    [] i > Len(args) /\ params[i] \in DOMAIN kw -> i > Len(d.posonly)
                    [] OTHER -> params[i] \in DOMAIN f.defaults
      val(i) == CASE i <= Len(args) -> args[i]
                  [] i > Len(args) /\ params[i] \in DOMAIN kw -> kw[params[i]]
                  [] OTHER -> f.defaults[params[i]]
      ok == /\ \A i \in DOMAIN params : given(i)
            /\ \A x \in kwonly : x \in DOMAIN kw \cup DOMAIN f.defaults
            /\ d.kwarg # NoName \/ DOMAIN rest \subseteq TRIGGER_KWARGS
            /\ d.vararg # NoName \/ Len(args) <= Len(params)
      arg == [x \in ToSet(params) |-> val(CHOOSE i \in DOMAIN params : params[i] = x)]
        @@ [x \in kwonly |-> IF x \in DOMAIN kw THEN kw[x] ELSE f.defaults[x]]
        @@ [x \in {d.kwarg} \ {NoName} |-> [dict |-> rest]]
        @@ [x \in {d.vararg} \ {NoName} |-> [tuple |-> SubSeq(args, Len(params) + 1, Len(args))]]
  IN [ok |-> ok, table |-> IF ok THEN arg ELSE <<>>,
      odd |-> \/ ok /\ d.kwarg = NoName /\ DOMAIN rest # {}
              \/ d.kwarg # NoName /\ ToSet(d.posonly) \cap DOMAIN kw # {}]

\* Its symbol table: arguments, shared cells and new ones.
callTable(f, arg, s) ==
  LET cells == SetToSeq(DOMAIN f.local_sym_table)
      shared == {x \in DOMAIN f.local_sym_table \ DOMAIN arg :
                   /\ f.local_sym_table[x] # 0
                   /\ s.cells[f.local_sym_table[x]] # EvalLocalVar}
      new == SelectSeq(cells, LAMBDA x : x \notin shared)
      cell(x) == IF x \in shared THEN f.local_sym_table[x]
                 ELSE Len(s.cells) + (CHOOSE i \in DOMAIN new : new[i] = x)
  IN [table |-> [x \in DOMAIN f.local_sym_table |-> [cell |-> cell(x)]] @@ arg,
      cells |-> s.cells \o [i \in DOMAIN new |->
                  IF new[i] \in DOMAIN arg THEN arg[new[i]] ELSE EvalLocalVar],
      lost |-> \E x \in DOMAIN f.local_sym_table \ shared : f.local_sym_table[x] # 0]

\* The body in a table of its own.
body(v, c, s) ==
  ignoring(s.funcs[v.fun].node.body,
    [Odd(s, "cell", c.lost) EXCEPT !.tables = Append(@, c.table), !.cells = c.cells,
       !.up = Append(@, s.funcs[v.fun].home),
       !.stack = Append(@, s.sym), !.sym = Len(s.tables) + 1, !.curr = v.fun])

\* Mutated form of restored: the caller's table comes back only after a return.
restored_after_return(o, s) ==
  IF o.flow = "raise" THEN o
  ELSE Value(o.v, [o.s EXCEPT !.curr = s.curr, !.sym = Last(o.s.stack), !.stack = Front(@)])

\* The finally clause restores the caller's function and pops its table.
restored(o, s) ==
  Out(IF o.flow = "raise" THEN "raise" ELSE "next", o.v,
      [o.s EXCEPT !.curr = s.curr, !.sym = Last(o.s.stack), !.stack = Front(@)])

call(v, args, kw, s) ==
  IF "fun" \notin DOMAIN v THEN Throw("TypeError", s)
  ELSE On(bind(s.funcs[v.fun], args, kw), LAMBDA b :
    On(Odd(s, "arguments", b.odd), LAMBDA s1 :
      IF ~b.ok THEN Throw("TypeError", s1)
      ELSE On(callTable(s.funcs[v.fun], b.table, s1), LAMBDA c :
             On(body(v, c, s1), LAMBDA o : restored(o, s)))))

\* ast_call: the keywords before the arguments.
ast_call(n, s) ==
  Then(aeval(n.e, s), LAMBDA f, t :
    Then(eval_elt_list([i \in DOMAIN n.keywords |-> n.keywords[i][2]], <<>>, t), LAMBDA kw, u :
      On(eval_elt_list(n.args, <<>>, Odd(u, "arguments", n.args # <<>> /\ u.out # t.out)),
         LAMBDA o : Then(o, LAMBDA args, w : call(f, args, Keywords(n.keywords, kw), w)))))

eval_elt_list(es, got, s) ==
  CASE es = <<>> -> Value(got, s)
    [] es # <<>> /\ Head(es).type # "starred" ->
         Then(aeval(Head(es), s), LAMBDA v, t : eval_elt_list(Tail(es), Append(got, v), t))
    [] es # <<>> /\ Head(es).type = "starred" ->
         Then(aeval(Head(es).e, s), LAMBDA v, t :
           IF "tuple" \notin DOMAIN v THEN Throw("TypeError", t)
           ELSE eval_elt_list(Tail(es), got \o v.tuple, t))

\* ast_classdef: the body's table is left only at the end of the body.
ast_classdef(n, s) ==
  LET t == IF inGlobals(s, n.x) THEN 1 ELSE s.sym
      c == Len(s.cells) + 1
      s1 == [s EXCEPT !.cells = Append(@, EvalLocalVar),
                      !.tables = Append([@ EXCEPT ![t] = (n.x :> [cell |-> c]) @@ @], <<>>),
                      !.stack = Append(@, s.sym), !.sym = Len(s.tables) + 1,
                      !.up = Append(@, s.sym)]
  IN On(ast_block(n.body, Odd(s1, "class", s.curr # 0)), LAMBDA o :
       CASE o.flow = "raise" -> [o EXCEPT !.s = Odd(o.s, "class", TRUE)]
         [] o.flow = "next" ->
              Done([o.s EXCEPT !.sym = Last(o.s.stack), !.stack = Front(@),
                               !.cells[c] = [cls |-> n.x]])
         [] OTHER -> Throw("SyntaxError", o.s))

-----------------------------------------------------------------------------
(* Statements *)

\* Statements of a list, up to the first that does not go on.
ast_block(ns, s) ==
  IF ns = <<>> THEN Done(s)
  ELSE Then(aeval(Head(ns), s), LAMBDA v, t : ast_block(Tail(ns), t))

\* The same for a function's body and an else clause of a loop, where only
\* return and exceptions are looked at.
ignoring(ns, s) ==
  IF ns = <<>> THEN Done(s)
  ELSE On(aeval(Head(ns), s), LAMBDA o :
         IF o.flow \in {"return", "raise"} THEN o
         ELSE ignoring(Tail(ns), Odd(o.s, "else", o.flow # "next")))

ast_while(n, s) ==
  Then(aeval(n.e, s), LAMBDA v, t :
    IF ~Truthy(v) THEN ignoring(n.orelse, t)
    ELSE On(ast_block(n.body, t), LAMBDA o :
      CASE o.flow = "break" -> Done(o.s)
        [] o.flow \in {"return", "raise"} -> o
        [] o.flow \in {"next", "continue"} -> ast_while(n, o.s)))

ast_for(n, vals, s) ==
  IF vals = <<>> THEN ignoring(n.orelse, s)
  ELSE On(ast_block(n.body, recurse_assign(n.x, Number(Head(vals)), s)), LAMBDA o :
    CASE o.flow = "break" -> Done(o.s)
      [] o.flow \in {"return", "raise"} -> o
      [] o.flow \in {"next", "continue"} -> ast_for(n, Tail(vals), o.s))

\* The except clauses for an Exception, also those without a type.  The
\* variable is deleted from the symbol table, its cell with it.
handle(n, o) ==
  LET hit == {i \in DOMAIN n.handlers : Catches(n.handlers[i].types, o.v.error)}
      h == n.handlers[CHOOSE i \in hit : \A j \in hit : i <= j]
  IN CASE o.v.error = "CancelledError" ->
            [o EXCEPT !.s = Odd(o.s, "bare", hit # {})]
       [] o.v.error # "CancelledError" /\ hit = {} -> o
       [] o.v.error # "CancelledError" /\ hit # {} ->
            IF h.x = NoName THEN ast_block(h.body, o.s)
            ELSE On(ast_block(h.body, Odd(store(o.s, o.s.sym, h.x, o.v), "except",
                               hasCell(o.s, o.s.sym, h.x) \/ inGlobals(o.s, h.x))),
                    LAMBDA r :
                      IF h.x \notin DOMAIN table(r.s)
                        THEN Throw("KeyError", Odd(r.s, "except", TRUE))
                        ELSE [r EXCEPT !.s.tables[r.s.sym] = Without(@, h.x)])

\* Mutated form of ast_try: no finally after a break, continue or return.
ast_try_returns(n, s) ==
  On(On(ast_block(n.body, s), LAMBDA o :
       CASE o.flow = "raise" -> handle(n, o)
         [] o.flow = "next" -> ast_block(n.orelse, o.s)
         [] OTHER -> o),
     LAMBDA o : IF o.flow \in {"break", "continue", "return"} THEN o
                ELSE Then(ast_block(n.final, o.s), LAMBDA v, t : [o EXCEPT !.s = t]))

\* ast_try: the host's try statement; what the finally clause returns wins.
ast_try(n, s) ==
  On(On(ast_block(n.body, s), LAMBDA o :
       CASE o.flow = "raise" -> handle(n, o)
         [] o.flow = "next" -> ast_block(n.orelse, o.s)
         [] OTHER -> o),
     LAMBDA o : Then(ast_block(n.final, o.s), LAMBDA v, t : [o EXCEPT !.s = t]))

\* ast_with: every manager is entered before the body and asked at the end, in
\* reverse order, entered or not, up to one whose exit raises.
enters(items, n, s) ==
  IF items = <<>> THEN ast_block(n.body, s)
  ELSE LET i == Head(items)
           t == Log(s, <<"enter", i.id>>)
       IN IF i.enter = "raise" THEN Throw("E2", Odd(t, "with", TRUE))
          ELSE enters(Tail(items), n, recurse_assign(i.x, Number(i.id), t))

exits(items, exc, s) ==
  IF items = <<>> THEN Done(s)
  ELSE LET i == Last(items)
           t == Log(s, <<"exit", i.id, exc>>)
       IN IF i.exit = "raise" THEN Throw("E2", Odd(t, "with", Len(items) > 1))
          ELSE exits(Front(items), exc, t)

ast_with(n, s) ==
  On(enters(n.items, n, s), LAMBDA o :
    IF o.flow = "raise" /\ o.v.error # "CancelledError"
      THEN Then(exits(n.items, TRUE, Odd(o.s, "with", Len(n.items) > 1)), LAMBDA v, t :
             IF \A i \in DOMAIN n.items : n.items[i].exit = "true"
               THEN Done(t) ELSE [o EXCEPT !.s = t])
      ELSE Then(exits(n.items, FALSE, Odd(o.s, "with", o.flow = "raise")), LAMBDA v, t :
             [o EXCEPT !.s = t]))

\* A comprehension assigns its variable in the current table, and takes it back
\* unless an exception comes in between.
listcomp_loop(n, vals, got, s) ==
  IF vals = <<>> THEN Value([list |-> got], s)
  ELSE Then(aeval(n.elt, recurse_assign(n.x, Number(Head(vals)), s)), LAMBDA v, t :
              listcomp_loop(n, Tail(vals), Append(got, Show(v)), t))

ast_listcomp(n, s) ==
  On(listcomp_loop(n, n.vals, <<>>,
       Odd(s, "comp", hasCell(s, s.sym, n.x) \/ inGlobals(s, n.x))), LAMBDA o :
    IF o.flow = "raise" THEN [o EXCEPT !.s = Odd(o.s, "comp", TRUE)]
    ELSE [o EXCEPT !.s.tables[o.s.sym] =
            IF n.x \in DOMAIN table(s) THEN (n.x :> table(s)[n.x]) @@ @ ELSE Without(@, n.x)])

\* Declarations, which count from when they are run.
declare(n, s) ==
  IF s.curr = 0 THEN Throw("SyntaxError", s)
  ELSE Done(IF n.type = "global" THEN [s EXCEPT !.funcs[s.curr].global_names = @ \cup {n.x}]
                                 ELSE s)

ast_assign(n, s) == Then(aeval(n.e, s), LAMBDA v, t : Done(recurse_assign(n.x, v, t)))

ast_augassign(n, s) ==
  Then(ast_name(n.x, s), LAMBDA a, t : Then(aeval(n.e, t), LAMBDA b, u :
    Then(Plus(a, b, u), LAMBDA v, w : Done(recurse_assign(n.x, v, w)))))

ast_namedexpr(n, s) ==
  Then(aeval(n.e, s), LAMBDA v, t : Value(v, recurse_assign(n.x, v, t)))

\* The second value is looked at unless the first decides.
ast_boolop(n, s) ==
  Then(aeval(n.a, s), LAMBDA v, t :
    IF Truthy(v) = (n.op = "or") THEN Value(v, t) ELSE aeval(n.b, t))

\* aeval: the method for the type of a node.
aeval(n, s) ==
  CASE n.type = "num" -> Value(Number(n.v), s)
    [] n.type = "name" -> ast_name(n.x, s)
    [] n.type = "mark" -> Then(aeval(n.e, s), LAMBDA v, t : Value(v, Log(t, Show(v))))
    [] n.type = "more" -> IF s.more = 0 THEN Value(Number(0), s)
                          ELSE Value(Number(1), [s EXCEPT !.more = @ - 1])
    [] n.type = "bool" -> ast_boolop(n, s)
    [] n.type = "call" -> ast_call(n, s)
    [] n.type = "tuple" ->
         Then(eval_elt_list(n.elts, <<>>, s), LAMBDA vs, t : Value([tuple |-> vs], t))
    [] n.type = "unpack" -> Then(aeval(n.e, s), LAMBDA v, t : assign_tuple(n.targets, v, t))
    [] n.type = "comp" -> ast_listcomp(n, s)
    [] n.type = "named" -> ast_namedexpr(n, s)
    [] n.type = "assign" -> ast_assign(n, s)
    [] n.type = "aug" -> ast_augassign(n, s)
    [] n.type = "del" -> ast_delete(n.x, s)
    [] n.type = "if" -> Then(aeval(n.e, s), LAMBDA v, t :
         ast_block(IF Truthy(v) THEN n.body ELSE n.orelse, t))
    [] n.type = "while" -> ast_while(n, s)
    [] n.type = "for" -> ast_for(n, n.vals, s)
    [] n.type = "try" -> ast_try(n, s)
    [] n.type = "with" -> ast_with(n, s)
    [] n.type = "def" -> ast_functiondef(n, s)
    [] n.type = "class" -> ast_classdef(n, s)
    [] n.type = "return" -> Then(aeval(n.e, s), LAMBDA v, t : Out("return", v, t))
    [] n.type = "raise" -> Throw(n.kind, s)
    [] n.type \in {"break", "continue"} -> Out(n.type, None, s)
    [] n.type = "pass" -> Done(s)
    [] n.type \in {"global", "nonlocal"} -> declare(n, s)

\* ast_module.
ast_module(ns, s) ==
  On(ast_block(ns, s), LAMBDA o :
    IF o.flow \in {"next", "raise"} THEN o ELSE Throw("SyntaxError", o.s))

-----------------------------------------------------------------------------
Init ==
  /\ \E kind \in Programs : program \in kind
  /\ times \in Times
  /\ phase = "parsed"
  /\ result = None

\* AstEval.eval.
Eval ==
  /\ phase = "parsed"
  /\ phase' = "ended"
  /\ result' = [pyscript |-> ast_module(program, NewAstEval(times)),
                python |-> Python(program, times)]
  /\ UNCHANGED <<program, times>>

Spec == Init /\ [][Eval]_vars

-----------------------------------------------------------------------------
(* Properties *)

\* The variables of the module at the end.
Globals(s) ==
  [x \in {y \in DOMAIN s.tables[1] :
           IsCell(s.tables[1][y]) => s.cells[s.tables[1][y].cell] # EvalLocalVar} |->
     Show(IF IsCell(s.tables[1][x]) THEN s.cells[s.tables[1][x].cell] ELSE s.tables[1][x])]

\* A script does what it does in Python: the same external calls in the same
\* order, the same end, the same variables; unless it met one of the
\* differences noted in the README.
LikePython ==
  phase = "ended" =>
    LET a == result.pyscript
        b == result.python
    IN a.s.odd = {} =>
         /\ a.s.out = b.s.out
         /\ a.flow = b.flow /\ Show(a.v) = Show(b.v)
         /\ Globals(a.s) = [x \in DOMAIN b.s.frames[1].vars |-> Show(b.s.frames[1].vars[x])]

\* However a script ends, its AstEval is back in the global scope: the next
\* cell of a Jupyter session, or a callback, finds the module's variables.
\* A class body that raises is the exception (ast_classdef).
ScopesBalanced ==
  phase = "ended" =>
    LET s == result.pyscript.s
    IN "class" \notin s.odd => s.sym = 1 /\ s.stack = <<>> /\ s.curr = 0
=============================================================================
