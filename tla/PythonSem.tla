----------------------------- MODULE PythonSem -----------------------------
(***************************************************************************)
(* The part of Python that Interp.tla is compared with: the syntax trees,  *)
(* and what they mean in Python, with scopes resolved where a function is  *)
(* written and a with statement of several items as nested ones.           *)
(* Python is the environment here: scripts are written for it, and the     *)
(* interpreter of eval.py stands in its place.                             *)
(***************************************************************************)
EXTENDS Naturals, Sequences, SequencesExt

\* Syntax trees.  A name is a string; blocks are sequences of statements.
Num(v) == [type |-> "num", v |-> v]
Name(x) == [type |-> "name", x |-> x]
Mark(e) == [type |-> "mark", e |-> e]           \* an external call: logs e
More == [type |-> "more"]                       \* another: true at first
CallKw(e, args, keywords) ==                    \* keywords: <<name, expression>>
  [type |-> "call", e |-> e, args |-> args, keywords |-> keywords]
Call(e, args) == CallKw(e, args, <<>>)
Tuple(elts) == [type |-> "tuple", elts |-> elts]
Starred(e) == [type |-> "starred", e |-> e]
Bool(op, a, b) == [type |-> "bool", op |-> op, a |-> a, b |-> b]
Comp(elt, x, vals) == [type |-> "comp", elt |-> elt, x |-> x, vals |-> vals]
Named(x, e) == [type |-> "named", x |-> x, e |-> e]
Assign(x, e) == [type |-> "assign", x |-> x, e |-> e]
Unpack(targets, e) == [type |-> "unpack", targets |-> targets, e |-> e]
Target(x, star) == [type |-> "target", x |-> x, star |-> star]
Aug(x, e) == [type |-> "aug", x |-> x, e |-> e]
Del(x) == [type |-> "del", x |-> x]
Pass == [type |-> "pass"]
If(e, body, orelse) == [type |-> "if", e |-> e, body |-> body, orelse |-> orelse]
While(e, body, orelse) == [type |-> "while", e |-> e, body |-> body, orelse |-> orelse]
For(x, vals, body, orelse) ==
  [type |-> "for", x |-> x, vals |-> vals, body |-> body, orelse |-> orelse]
Handler(types, x, body) == [type |-> "handler", types |-> types, x |-> x, body |-> body]
Try(body, handlers, orelse, final) ==
  [type |-> "try", body |-> body, handlers |-> handlers, orelse |-> orelse, final |-> final]
Item(id, enter, exit, x) ==                     \* a context manager: whether
  [type |-> "item", id |-> id, enter |-> enter, exit |-> exit, x |-> x]
With(items, body) == [type |-> "with", items |-> items, body |-> body]
Params(posonly, args, defaults, vararg, kwonly, kwarg) ==
  [posonly |-> posonly, args |-> args, defaults |-> defaults, vararg |-> vararg,
   kwonly |-> kwonly, kwarg |-> kwarg]          \* kwonly: <<name, <<default>> >>
Def(x, params, body) == [type |-> "def", x |-> x, params |-> params, body |-> body]
Class(x, body) == [type |-> "class", x |-> x, body |-> body]
Global(x) == [type |-> "global", x |-> x]
Nonlocal(x) == [type |-> "nonlocal", x |-> x]
Return(e) == [type |-> "return", e |-> e]
Raise(kind) == [type |-> "raise", kind |-> kind]
Break == [type |-> "break"]
Continue == [type |-> "continue"]
NoName == ""

Kids(n) ==
  CASE n.type \in {"mark", "named", "assign", "aug", "return", "starred"} -> <<n.e>>
    [] n.type = "unpack" -> n.targets \o <<n.e>>
    [] n.type = "tuple" -> n.elts
    [] n.type = "bool" -> <<n.a, n.b>>
    [] n.type = "call" -> <<n.e>> \o n.args \o [i \in DOMAIN n.keywords |-> n.keywords[i][2]]
    [] n.type = "comp" -> <<n.elt>>
    [] n.type \in {"if", "while"} -> <<n.e>> \o n.body \o n.orelse
    [] n.type = "for" -> n.body \o n.orelse
    [] n.type = "try" -> n.body \o n.handlers \o n.orelse \o n.final
    [] n.type = "with" -> n.items \o n.body
    [] n.type \in {"handler", "def", "class"} -> n.body
    [] OTHER -> <<>>

Plain(xs) == Params(<<>>, xs, <<>>, NoName, <<>>, NoName)
ParamNames(d) ==
  (ToSet(d.posonly) \cup ToSet(d.args) \cup {d.kwonly[i][1] : i \in DOMAIN d.kwonly}
     \cup {d.vararg, d.kwarg}) \ {NoName}
\* The defaults in the order they are evaluated in, and the named ones of them.
Defaults(d) == d.defaults \o FlattenSeq([i \in DOMAIN d.kwonly |-> d.kwonly[i][2]])
Defaulted(d) ==
  SubSeq(d.posonly \o d.args, Len(d.posonly \o d.args) - Len(d.defaults) + 1,
         Len(d.posonly \o d.args))
    \o [i \in DOMAIN SelectSeq(d.kwonly, LAMBDA k : k[2] # <<>>) |->
          SelectSeq(d.kwonly, LAMBDA k : k[2] # <<>>)[i][1]]

\* Values, and what the log shows of them.
Number(k) == [int |-> k]
None == [none |-> TRUE]
Error(kind) == [error |-> kind]
Show(v) == IF "fun" \in DOMAIN v THEN "function" ELSE v
Truthy(v) == v # Number(0) /\ v # None

\* An exception a handler of these types catches; without types, every one.
Catches(types, kind) ==
  types = {} \/ kind \in types \/ ("Exception" \in types /\ kind # "CancelledError")

\* How a node ends: the flow, the value or exception, and the state.
Out(flow, v, s) == [flow |-> flow, v |-> v, s |-> s]
Value(v, s) == Out("next", v, s)
Done(s) == Out("next", None, s)
Throw(kind, s) == Out("raise", Error(kind), s)
Plus(a, b, s) ==
  IF "int" \in DOMAIN a \cap DOMAIN b THEN Value(Number(a.int + b.int), s)
                                      ELSE Throw("TypeError", s)

\* The element of a singleton; binds its value once.
The(S) == CHOOSE x \in S : TRUE
On(o, K(_)) == The({K(r) : r \in {o}})
Then(o, K(_, _)) == The({IF r.flow = "next" THEN K(r.v, r.s) ELSE r : r \in {o}})
Mapping(xs, vs) == [x \in ToSet(xs) |-> vs[CHOOSE i \in DOMAIN xs : xs[i] = x]]
\* The names and values of keywords; of one name, the last counts.
Keywords(kw, vs) ==
  [x \in {kw[i][1] : i \in DOMAIN kw} |->
     vs[CHOOSE i \in DOMAIN kw : kw[i][1] = x /\ \A j \in DOMAIN kw : kw[j][1] = x => j <= i]]

Log(s, entry) == [s EXCEPT !.out = Append(@, entry)]

-----------------------------------------------------------------------------
(* Python: frames with the variables of a module, a class body, a function  *)
(* call or a comprehension, each inside the one it was written in           *)

RECURSIVE Bound(_), Declared(_, _), py(_, _), pyBlock(_, _), pyAll(_, _, _)
RECURSIVE pyWhile(_, _), pyFor(_, _, _), pyComp(_, _, _, _), pyWith(_, _, _)

\* The names a block binds, inner functions apart; what it declares global.
Binds(n) ==
  CASE n.type \in {"assign", "aug", "named", "del", "for", "def", "class", "target"} -> {n.x}
    [] n.type \in {"handler", "item"} -> {n.x} \ {NoName}
    [] OTHER -> {}
Bound(ns) ==
  UNION {Binds(ns[i]) \cup (IF ns[i].type \in {"def", "class"} THEN {} ELSE Bound(Kids(ns[i]))) :
           i \in DOMAIN ns}
Declared(type, ns) ==
  UNION {IF ns[i].type = type THEN {ns[i].x}
         ELSE IF ns[i].type \in {"def", "class"} THEN {} ELSE Declared(type, Kids(ns[i])) :
           i \in DOMAIN ns}

Frame(kind, up, params, body) ==
  [kind |-> kind, up |-> up, vars |-> <<>>, global |-> Declared("global", body),
   locals |-> (params \cup Bound(body))
                \ (Declared("global", body) \cup Declared("nonlocal", body))]

\* The frame in which a name means something, seen from frame i.
RECURSIVE Enclosing(_, _, _)
Enclosing(p, i, x) ==
  IF i = 1 THEN 1
  ELSE IF p.frames[i].kind # "class" /\ x \in p.frames[i].locals THEN i
  ELSE Enclosing(p, p.frames[i].up, x)
Home(p, x) ==
  LET f == p.frames[p.at] IN
  CASE p.at = 1 \/ x \in f.global -> 1
    [] p.at # 1 /\ x \in f.locals -> p.at
    [] OTHER -> Enclosing(p, p.at, x)

pyLoad(p, x) ==
  LET i == IF p.frames[p.at].kind = "class" /\ x \notin DOMAIN p.frames[p.at].vars
             THEN Enclosing(p, p.at, x) ELSE Home(p, x)
  IN IF x \in DOMAIN p.frames[i].vars THEN Value(p.frames[i].vars[x], p)
                                      ELSE Throw("NameError", p)
pyStore(p, x, v) ==
  IF x = NoName THEN p ELSE [p EXCEPT !.frames[Home(p, x)].vars = (x :> v) @@ @]
pyDelete(p, x) ==
  IF x \notin DOMAIN p.frames[Home(p, x)].vars THEN Throw("NameError", p)
  ELSE Done([p EXCEPT !.frames[Home(p, x)].vars = [y \in DOMAIN @ \ {x} |-> @[y]]])

\* Evaluation in a frame of its own.
pyIn(p, frame, K(_)) ==
  On(K([p EXCEPT !.frames = Append(@, frame), !.at = Len(p.frames) + 1]),
     LAMBDA o : [o EXCEPT !.s.at = p.at])

\* Arguments fill the parameters in order; keywords the others, save the
\* positional-only ones; then come the defaults.
pyBind(f, args, kw) ==
  LET d == f.fun.params
      params == d.posonly \o d.args
      filled == SubSeq(params, 1, IF Len(args) < Len(params) THEN Len(args) ELSE Len(params))
      named == DOMAIN kw \cap (ToSet(d.args) \cup {d.kwonly[i][1] : i \in DOMAIN d.kwonly})
      given == Mapping(filled, args) @@ [x \in named |-> kw[x]] @@ f.defaults
      extra == DOMAIN kw \ named
  IN [ok |-> /\ Len(args) <= Len(params) \/ d.vararg # NoName
             /\ ToSet(filled) \cap named = {}
             /\ extra = {} \/ d.kwarg # NoName
             /\ ParamNames(d) \ {d.vararg, d.kwarg} \subseteq DOMAIN given,
      table |-> given
        @@ [x \in {d.vararg} \ {NoName} |-> [tuple |-> SubSeq(args, Len(params) + 1, Len(args))]]
        @@ [x \in {d.kwarg} \ {NoName} |-> [dict |-> [y \in extra |-> kw[y]]]]]

pyCall(p, f, args, kw) ==
  IF "fun" \notin DOMAIN f THEN Throw("TypeError", p)
  ELSE On(pyBind(f, args, kw), LAMBDA b :
    IF ~b.ok THEN Throw("TypeError", p)
    ELSE pyIn(p, [Frame("function", f.up, ParamNames(f.fun.params), f.fun.body) EXCEPT
                    !.vars = b.table],
              LAMBDA q : On(pyBlock(f.fun.body, q), LAMBDA o :
                              IF o.flow = "return" THEN Value(o.v, o.s) ELSE o)))

\* Expressions one after another, starred ones spliced in.
pyAll(es, got, p) ==
  IF es = <<>> THEN Value(got, p)
  ELSE IF Head(es).type = "starred"
    THEN Then(py(Head(es).e, p), LAMBDA v, q :
           IF "tuple" \notin DOMAIN v THEN Throw("TypeError", q)
           ELSE pyAll(Tail(es), got \o v.tuple, q))
    ELSE Then(py(Head(es), p), LAMBDA v, q : pyAll(Tail(es), Append(got, v), q))

pyUnpack(targets, v, p) ==
  LET vals == v.tuple
      stars == {i \in DOMAIN targets : targets[i].star}
      extra == Len(vals) - (Len(targets) - 1)
      at(i) == IF stars = {} \/ i < The(stars) THEN vals[i]
               ELSE IF i = The(stars) THEN [list |-> SubSeq(vals, i, i + extra - 1)]
               ELSE vals[i + extra - 1]
  IN IF "tuple" \notin DOMAIN v THEN Throw("TypeError", p)
     ELSE IF IF stars = {} THEN Len(vals) # Len(targets) ELSE extra < 0 THEN Throw("ValueError", p)
     ELSE Done(FoldLeftDomain(LAMBDA q, i : pyStore(q, targets[i].x, at(i)), p, targets))

pyBlock(ns, p) ==
  IF ns = <<>> THEN Done(p)
  ELSE Then(py(Head(ns), p), LAMBDA v, q : pyBlock(Tail(ns), q))

\* A loop: a break ends it without the else clause.
pyRound(o, again(_)) ==
  CASE o.flow = "break" -> Done(o.s)
    [] o.flow \in {"next", "continue"} -> again(o.s)
    [] OTHER -> o
pyWhile(n, p) ==
  Then(py(n.e, p), LAMBDA v, q :
    IF Truthy(v) THEN On(pyBlock(n.body, q), LAMBDA o : pyRound(o, LAMBDA r : pyWhile(n, r)))
                 ELSE pyBlock(n.orelse, q))
pyFor(n, vals, p) ==
  IF vals = <<>> THEN pyBlock(n.orelse, p)
  ELSE On(pyBlock(n.body, pyStore(p, n.x, Number(Head(vals)))), LAMBDA o :
            pyRound(o, LAMBDA r : pyFor(n, Tail(vals), r)))
pyComp(n, vals, got, p) ==
  IF vals = <<>> THEN Value([list |-> got], p)
  ELSE Then(py(n.elt, pyStore(p, n.x, Number(Head(vals)))), LAMBDA v, q :
              pyComp(n, Tail(vals), Append(got, Show(v)), q))

\* The clauses of a try statement: a handler's variable is gone at its end.
pyHandle(n, o) ==
  LET hit == {i \in DOMAIN n.handlers : Catches(n.handlers[i].types, o.v.error)}
      h == n.handlers[CHOOSE i \in hit : \A j \in hit : i <= j]
  IN IF hit = {} THEN o
     ELSE On(pyBlock(h.body, pyStore(o.s, h.x, o.v)), LAMBDA r :
            IF h.x = NoName THEN r
            ELSE [r EXCEPT !.s.frames[Home(r.s, h.x)].vars =
                    [y \in DOMAIN @ \ {h.x} |-> @[y]]])
pyTry(n, p) ==
  On(On(pyBlock(n.body, p), LAMBDA o :
       CASE o.flow = "raise" -> pyHandle(n, o)
         [] o.flow = "next" -> pyBlock(n.orelse, o.s)
         [] OTHER -> o),
     LAMBDA o : On(pyBlock(n.final, o.s), LAMBDA f :
       IF f.flow = "next" THEN [o EXCEPT !.s = f.s] ELSE f))

\* One item of a with statement around the rest of it.
pyWith(items, body, p) ==
  IF items = <<>> THEN pyBlock(body, p)
  ELSE LET i == Head(items)
           p1 == Log(p, <<"enter", i.id>>)
       IN IF i.enter = "raise" THEN Throw("E2", p1)
          ELSE On(pyWith(Tail(items), body, pyStore(p1, i.x, Number(i.id))), LAMBDA o :
                 LET q == Log(o.s, <<"exit", i.id, o.flow = "raise">>) IN
                 CASE i.exit = "raise" -> Throw("E2", q)
                   [] o.flow = "raise" /\ i.exit = "true" -> Done(q)
                   [] OTHER -> [o EXCEPT !.s = q])

py(n, p) ==
  CASE n.type = "num" -> Value(Number(n.v), p)
    [] n.type = "name" -> pyLoad(p, n.x)
    [] n.type = "mark" -> Then(py(n.e, p), LAMBDA v, q : Value(v, Log(q, Show(v))))
    [] n.type = "more" -> IF p.more = 0 THEN Value(Number(0), p)
                          ELSE Value(Number(1), [p EXCEPT !.more = @ - 1])
    [] n.type = "bool" -> Then(py(n.a, p), LAMBDA v, q :
         IF Truthy(v) = (n.op = "or") THEN Value(v, q) ELSE py(n.b, q))
    [] n.type = "call" -> Then(py(n.e, p), LAMBDA f, q :
         Then(pyAll(n.args, <<>>, q), LAMBDA args, r :
           Then(pyAll([i \in DOMAIN n.keywords |-> n.keywords[i][2]], <<>>, r), LAMBDA kw, t :
             pyCall(t, f, args, Keywords(n.keywords, kw)))))
    [] n.type = "tuple" -> Then(pyAll(n.elts, <<>>, p), LAMBDA vs, q : Value([tuple |-> vs], q))
    [] n.type = "unpack" -> Then(py(n.e, p), LAMBDA v, q : pyUnpack(n.targets, v, q))
    [] n.type = "comp" -> pyIn(p, Frame("comp", p.at, {n.x}, <<>>),
                               LAMBDA q : pyComp(n, n.vals, <<>>, q))
    [] n.type = "named" -> Then(py(n.e, p), LAMBDA v, q : Value(v, pyStore(q, n.x, v)))
    [] n.type = "assign" -> Then(py(n.e, p), LAMBDA v, q : Done(pyStore(q, n.x, v)))
    [] n.type = "aug" -> Then(pyLoad(p, n.x), LAMBDA a, q :
         Then(py(n.e, q), LAMBDA b, r :
           Then(Plus(a, b, r), LAMBDA v, t : Done(pyStore(t, n.x, v)))))
    [] n.type = "del" -> pyDelete(p, n.x)
    [] n.type = "if" -> Then(py(n.e, p), LAMBDA v, q :
         pyBlock(IF Truthy(v) THEN n.body ELSE n.orelse, q))
    [] n.type = "while" -> pyWhile(n, p)
    [] n.type = "for" -> pyFor(n, n.vals, p)
    [] n.type = "try" -> pyTry(n, p)
    [] n.type = "with" -> pyWith(n.items, n.body, p)
    [] n.type = "def" -> Then(pyAll(Defaults(n.params), <<>>, p), LAMBDA vs, q :
         Done(pyStore(q, n.x, [fun |-> n, up |-> q.at, defaults |-> Mapping(Defaulted(n.params), vs)])))
    [] n.type = "class" -> Then(pyIn(p, Frame("class", p.at, {}, n.body),
                                     LAMBDA q : pyBlock(n.body, q)),
                                LAMBDA v, q : Done(pyStore(q, n.x, [cls |-> n.x])))
    [] n.type = "return" -> Then(py(n.e, p), LAMBDA v, q : Out("return", v, q))
    [] n.type = "raise" -> Throw(n.kind, p)
    [] n.type \in {"break", "continue"} -> Out(n.type, None, p)
    [] n.type \in {"pass", "global", "nonlocal"} -> Done(p)

Python(program, more) ==
  pyBlock(program, [frames |-> <<Frame("module", 1, {}, <<>>)>>, at |-> 1,
                    out |-> <<>>, more |-> more])
=============================================================================
